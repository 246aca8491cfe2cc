--------------------------------- MODULE Floor ---------------------------------
(***************************************************************************)
(* The warehouse floor: the layout is read, the shelves found and stocked   *)
(* (main, load_layout, findAllShelves, load_warehouse), and a robot walks   *)
(* from the start to the exit, picking an order from the shelves it passes  *)
(* (Robot::follow_path, pickup, findShelf).                                *)
(*                                                                         *)
(* A cell is <<r, c>>, row and column.  The items of an order and of a      *)
(* shelf are entries of Shelves; an item's name stands for its ID too.      *)
(***************************************************************************)
EXTENDS Shelves, SequencesExt

CONSTANTS Files,       \* layout files: sequences of rows, rows of characters
          Stock,       \* the items of inventory.json, in order
          Orders,      \* the orders the robot may be given
          MaxWalks     \* bound: calls of follow_path

ShelfChar == "S"
Start == "B"
ExitChar == "E"
PathChar == "Z"

VARIABLES maze,        \* winfo.maze: what is in each cell
          shelves,     \* warehouse.Shelves
          index,       \* i in load_warehouse; Len(Stock) when it has returned
          walks,       \* the orders follow_path was called with, oldest first
          walking,     \* the last of these calls is still running
          at,          \* currentPosition, which is also r and c
          prev,        \* prev_row and prev_col
          holding,     \* holdingItems
          isFull,
          passed       \* history: shelf cells whose shelf has been looked up

vars == <<maze, shelves, index, walks, walking, at, prev, holding, isFull, passed>>

(***************************************************************************)
(* Reading the layout.                                                     *)
(***************************************************************************)
\* load_layout: empty lines are skipped and the longest line gives the
\* columns.  The memory is fresh; what no line reaches is blank.
Layout(file) ==
  LET lines == SelectSeq(file, LAMBDA l : l # <<>>)
      rows == Len(lines)
      cols == Max({Len(lines[i]) : i \in DOMAIN lines})
  IN [cell \in (0..rows) \X (0..cols) |->
        IF cell[1] < rows /\ cell[2] < Len(lines[cell[1] + 1])
        THEN lines[cell[1] + 1][cell[2] + 1] ELSE ""]

CellsWith(m, ch) == {cell \in DOMAIN m : m[cell] = ch}

\* findAllShelves: row by row, Coordinates(i, j) with the row first.
AllShelves(m) ==
  LET rows == Max({cell[1] : cell \in DOMAIN m})
      cols == Max({cell[2] : cell \in DOMAIN m})
      scan == [n \in 1..(rows * cols) |-> <<(n - 1) \div cols, (n - 1) % cols>>]
      cells == SelectSeq(scan, LAMBDA cell : m[cell] = ShelfChar)
  IN [i \in DOMAIN cells |-> EmptyShelf(cells[i])]

\* findStart, for a layout with one start and one exit.
StartOf(m) == CHOOSE cell \in DOMAIN m : m[cell] = Start
ExitOf(m) == CHOOSE cell \in DOMAIN m : m[cell] = ExitChar

Cell(cell) == IF cell \in DOMAIN maze THEN maze[cell] ELSE ""

\* Each layout has a start, an exit and two shelves or more: with fewer, the
\* loop of load_warehouse leaves the vector of shelves.
ASSUME LayoutsAssumption ==
  \A file \in Files : /\ DOMAIN Layout(file) \subseteq Nat \X Nat
                      /\ CellsWith(Layout(file), Start) # {}
                      /\ CellsWith(Layout(file), ExitChar) # {}
                      /\ LET found == AllShelves(Layout(file))
                         IN Len(found) \in Nat \ {0, 1} /\ DOMAIN found = 1..Len(found)

\* No two items of inventory.json have the same name, and none is too heavy for
\* an empty shelf: storeItem would refuse it everywhere.
ASSUME StockAssumption ==
  /\ MaxWeight \in Nat
  /\ Len(Stock) \in Nat /\ DOMAIN Stock = 1..Len(Stock)
  /\ \A i \in DOMAIN Stock : Stock[i] \in [name : {Stock[i].name}, qty : Nat, weight : 0..MaxWeight]
  /\ \A i, k \in DOMAIN Stock : Stock[i].name = Stock[k].name => i = k

\* An order is a list of items; users type any quantity.
ASSUME OrdersAssumption ==
  \A order \in Orders : /\ Len(order) \in Nat /\ DOMAIN order = 1..Len(order)
                        /\ \A j \in DOMAIN order : order[j].qty \in Int

Loaded == index >= Len(Stock)

Init == \E file \in Files :
  /\ maze = Layout(file)
  /\ shelves = AllShelves(maze)
  /\ index = 0
  /\ walks = <<>>
  /\ walking = FALSE
  /\ at = StartOf(maze)
  /\ prev = at
  /\ holding = <<>>
  /\ isFull = FALSE
  /\ passed = {}

\* Mistake: i is reset at the last item as well.
StoreNext_WrongSize ==
  /\ ~Loaded
  /\ shelves' = [shelves EXCEPT ![index + 1] = StoreItem(@, Stock[index + 1])]
  /\ index' = IF index = Len(Stock) - 1 \/ index = Len(shelves) - 1 THEN 1 ELSE index + 1
  /\ UNCHANGED <<maze, walks, walking, at, prev, holding, isFull, passed>>

\* One turn of the loop of load_warehouse.  i is set to 0 at the last shelf
\* and then incremented.
StoreNext ==
  /\ ~Loaded
  /\ shelves' = [shelves EXCEPT ![index + 1] = StoreItem(@, Stock[index + 1])]
  /\ index' = IF index = Len(shelves) - 1 THEN 1 ELSE index + 1
  /\ UNCHANGED <<maze, walks, walking, at, prev, holding, isFull, passed>>

(***************************************************************************)
(* The walk.                                                               *)
(***************************************************************************)
South(cell) == <<cell[1] + 1, cell[2]>>
North(cell) == <<cell[1] - 1, cell[2]>>
East(cell) == <<cell[1], cell[2] + 1>>
West(cell) == <<cell[1], cell[2] - 1>>

\* The order in which follow_path and pickup look around.
Around(cell) == <<South(cell), North(cell), East(cell), West(cell)>>

\* Mistake: the rows and columns are not compared with the previous ones.
Open_Anywhere(d) == Cell(Around(at)[d]) = PathChar

\* Mistake: row and column are mixed up.
Open_Swapped(d) ==
  LET next == Around(at)[d]
  IN /\ Cell(next) = PathChar
     /\ IF d <= 2 THEN next[2] # prev[2] ELSE next[1] # prev[1]

\* Up and down compare the row only, right and left the column only.
Open(d) ==
  LET next == Around(at)[d]
  IN /\ Cell(next) = PathChar
     /\ IF d <= 2 THEN next[1] # prev[1] ELSE next[2] # prev[2]

Ways == {d \in 1..4 : Open(d)}

\* Mistake: only the shelves above and below are considered.
ShelfBeside_SameColumn(cell) ==
  LET beside == {d \in 1..2 : Cell(Around(cell)[d]) = ShelfChar}
  IN IF beside = {} THEN {} ELSE {Around(cell)[Min(beside)]}

\* The cell of the one shelf that pickup considers, if any.
ShelfBeside(cell) ==
  LET beside == {d \in 1..4 : Cell(Around(cell)[d]) = ShelfChar}
  IN IF beside = {} THEN {} ELSE {Around(cell)[Min(beside)]}

\* findShelf compares a shelf's column with the row asked for and its row with
\* the column, and returns a copy; an empty shelf when there is none.
FindShelf(cell) ==
  LET found == {i \in DOMAIN shelves : shelves[i].at = <<cell[2], cell[1]>>}
  IN IF found = {} THEN EmptyShelf(cell) ELSE shelves[Min(found)]

\* releaseItem, for each entry of the item's name on the copy of the shelf.
Release(s, item) ==
  FoldLeft(LAMBDA t, entry : IF entry.name = item.name
                             THEN MoveItem(t.from, t.to, item.name, item.qty) ELSE t,
           s, s.from)

\* For each item of the order; what is left of the copy is then thrown away.
Picked(order, shelf, hold) ==
  FoldLeft(Release, [from |-> shelf.inventory, to |-> hold], order).to

\* list == holdingItems: the same items in the same order, by ID.
SameItems(s, t) == Len(s) = Len(t) /\ \A i \in DOMAIN s : s[i].name = t[i].name

Pickup(cell) ==
  LET order == Last(walks)
      beside == ShelfBeside(cell)
  IN /\ \/ beside = {} /\ holding' = holding
        \/ \E s \in beside : holding' = Picked(order, FindShelf(s), holding)
     /\ isFull' = (isFull \/ (beside # {} /\ SameItems(order, holding')))
     /\ passed' = passed \cup beside

\* follow_path is called: prev_row and prev_col start at the robot's position.
Walk(order) ==
  /\ Loaded /\ ~walking
  /\ Len(walks) < MaxWalks
  /\ walks' = Append(walks, order)
  /\ walking' = TRUE
  /\ prev' = at
  /\ UNCHANGED <<maze, shelves, index, at, holding, isFull, passed>>

AtExit == Cell(at) = ExitChar

\* Mistake: prev_row and prev_col keep their first values.
Step_PrevKept ==
  /\ walking /\ ~AtExit /\ Ways # {}
  /\ at' = Around(at)[Min(Ways)]
  /\ Pickup(at')
  /\ UNCHANGED <<maze, shelves, index, walks, walking, prev>>

\* One turn of the loop: the first open way, and pickup there.
Step ==
  /\ walking /\ ~AtExit /\ Ways # {}
  /\ at' = Around(at)[Min(Ways)]
  /\ prev' = at
  /\ Pickup(at')
  /\ UNCHANGED <<maze, shelves, index, walks, walking>>

\* No way is open and the exit is beside the robot: it goes there.
StepOut ==
  /\ walking /\ ~AtExit /\ Ways = {}
  /\ \E d \in 1..4 : Cell(Around(at)[d]) = ExitChar
  /\ at' = ExitOf(maze)
  /\ UNCHANGED <<maze, shelves, index, walks, walking, prev, holding, isFull, passed>>

\* The loop is left at the exit; the robot stays there with what it holds.
Return ==
  /\ walking /\ AtExit
  /\ walking' = FALSE
  /\ UNCHANGED <<maze, shelves, index, walks, at, prev, holding, isFull, passed>>

Next == StoreNext \/ (\E order \in Orders : Walk(order)) \/ Step \/ StepOut \/ Return

Spec == Init /\ [][Next]_vars

\* The computer's start-up and a robot's thread go on running.
Fairness == WF_vars(StoreNext) /\ WF_vars(Step \/ StepOut \/ Return)

FairSpec == Spec /\ Fairness

--------------------------------------------------------------------------------
(***************************************************************************)
(* Properties.                                                             *)
(***************************************************************************)
\* load_warehouse returns if and only if there are fewer items than shelves:
\* otherwise i is set back at the last shelf for ever.
LoadingEnds == /\ (Len(Stock) < Len(shelves)) ~> Loaded
               /\ [](Len(Stock) >= Len(shelves) => ~Loaded)

\* However often the items are stored, a shelf never holds more than its
\* capacity, counted per entry as storeItem does; and once loaded, each item of
\* inventory.json is in one place with all its units.
ShelfRules ==
  /\ \A i \in DOMAIN shelves :
       LET s == shelves[i].inventory
       IN Total([j \in DOMAIN s |-> s[j].weight]) <= MaxWeight
  /\ Loaded => \A i \in DOMAIN Stock :
       Total([k \in DOMAIN shelves |-> Units(shelves[k].inventory, Stock[i].name)])
         = Stock[i].qty

\* follow_path returns, on each layout of the repository: the walk neither
\* turns in a circle nor stops in a dead end.
WalkEnds == walking ~> ~walking

\* follow_path compares one coordinate only, yet of the path cells around the
\* robot it closes exactly the one the robot comes from.
OnlyWayBackClosed ==
  walking /\ ~AtExit =>
    \A d \in 1..4 : Cell(Around(at)[d]) = PathChar => (Open(d) <=> Around(at)[d] # prev)

\* The robot passes every shelf of the layout on its way.
EveryShelfPassed ==
  walks # <<>> /\ ~walking => passed = CellsWith(maze, ShelfChar)

\* A layout whose path has a cell on every side, and whose start has one too, or
\* a path cell that is found before the side where it has none.
Fenced(m) ==
  LET Inside(cell, d) == Around(cell)[d] \in DOMAIN m
      Path(cell, d) == Inside(cell, d) /\ m[Around(cell)[d]] = PathChar
  IN /\ \A cell \in CellsWith(m, PathChar), d \in 1..4 : Inside(cell, d)
     /\ \A cell \in CellsWith(m, Start) :
          \/ \A d \in 1..4 : Inside(cell, d)
          \/ \E d \in 1..4 : Path(cell, d) /\ \A e \in 1..d : Inside(cell, e)

\* follow_path reads the array inside the layout only, although the tests of a
\* robot in column 0 would go on to column -1.
ReadsInside ==
  walking /\ ~AtExit =>
    \A d \in 1..(IF Ways = {} THEN 4 ELSE Min(Ways)) : Around(at)[d] \in DOMAIN maze

\* "if there is enough product in stock to fulfill the order": at each shelf a
\* robot takes, of each item, the quantities of some of the order's entries, each
\* whole, and no more than a shelf has; and a robot that says it is full has
\* something of every item of an order.
TakesWhole ==
  LET order == Last(walks) IN
  \A i \in DOMAIN holding' :
    LET name == holding'[i].name
        taken == Units(holding', name) - Units(holding, name)
    IN /\ \E js \in SUBSET {j \in DOMAIN order : order[j].name = name} :
             taken = Total([j \in js |-> order[j].qty])
       /\ \E k \in DOMAIN shelves : taken <= Units(shelves[k].inventory, name)

FullHasAll ==
  isFull => \E w \in DOMAIN walks : \A item \in Range(walks[w]) :
              \E i \in DOMAIN holding : holding[i].name = item.name

AllOrNothing == [][TakesWhole]_holding /\ []FullHasAll

\* "searches shelves for products to fulfill order": when the walk is over, the
\* robot has every item of its order of which one shelf has enough.
OrderPicked ==
  walks # <<>> /\ ~walking =>
    \A item \in Range(walks[1]) :
      (\E k \in DOMAIN shelves : Units(shelves[k].inventory, item.name) >= item.qty)
        => Units(holding, item.name) >= item.qty
================================================================================
