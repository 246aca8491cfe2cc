------------------------------ MODULE FloorProofs ------------------------------
(***************************************************************************)
(* The robot's walk, for every layout with a start and an exit, any items   *)
(* and any orders: the comparison of one coordinate tells the way back, and *)
(* the array is read inside its bounds.  load_warehouse, for every          *)
(* inventory: the rules of the shelves.  And what a robot takes from them.  *)
(***************************************************************************)
EXTENDS Floor, FiniteSums, FiniteSetTheorems, TLAPS

\* prev_row and prev_col are the robot's own cell or one beside it.
Near == prev = at \/ prev \in {South(at), North(at), East(at), West(at)}

WalkInv == /\ maze \in {Layout(file) : file \in Files}
           /\ at \in Int \X Int
           /\ prev \in Int \X Int
           /\ walking /\ ~AtExit => Near

\* The start and the exit of a layout are cells of it.
LEMMA Ends ==
  ASSUME NEW file \in Files
  PROVE  /\ StartOf(Layout(file)) \in Int \X Int
         /\ ExitOf(Layout(file)) \in Int \X Int
         /\ ExitOf(Layout(file)) \in DOMAIN Layout(file)
         /\ Layout(file)[ExitOf(Layout(file))] = ExitChar
<1> DEFINE m == Layout(file)
<1>1. /\ DOMAIN m \subseteq Nat \X Nat
      /\ \E cell \in DOMAIN m : m[cell] = Start
      /\ \E cell \in DOMAIN m : m[cell] = ExitChar
  BY LayoutsAssumption DEF CellsWith
<1> HIDE DEF m
<1>2. StartOf(m) \in DOMAIN m
  BY <1>1 DEF StartOf
<1>3. ExitOf(m) \in DOMAIN m /\ m[ExitOf(m)] = ExitChar
  BY <1>1 DEF ExitOf
<1>4. Nat \X Nat \subseteq Int \X Int
  OBVIOUS
<1> QED BY <1>1, <1>2, <1>3, <1>4 DEF m

\* The first open way is open.
LEMMA FirstWay ==
  ASSUME Ways # {}
  PROVE  Min(Ways) \in 1..4 /\ Open(Min(Ways)) /\ \A d \in Ways : Min(Ways) <= d
<1>1. Ways \subseteq 1..4
  BY DEF Ways
<1>2. \E d \in Ways : \A e \in Ways : d <= e
  <2>1. CASE 1 \in Ways
    BY <1>1, <2>1
  <2>2. CASE 1 \notin Ways /\ 2 \in Ways
    BY <1>1, <2>2
  <2>3. CASE 1 \notin Ways /\ 2 \notin Ways /\ 3 \in Ways
    BY <1>1, <2>3
  <2>4. CASE 1 \notin Ways /\ 2 \notin Ways /\ 3 \notin Ways
    <3>1. \A e \in Ways : e = 4
      BY <1>1, <2>4
    <3> QED BY <3>1
  <2> QED BY <2>1, <2>2, <2>3, <2>4
<1>3. Min(Ways) \in Ways /\ \A d \in Ways : Min(Ways) <= d
  BY <1>2 DEF Min
<1> QED BY <1>3 DEF Ways

LEMMA WalkInvInit == Init => WalkInv
<1> SUFFICES ASSUME Init PROVE WalkInv
  OBVIOUS
<1>1. PICK file \in Files : maze = Layout(file) /\ at = StartOf(maze) /\ prev = at /\ walking = FALSE
  BY DEF Init
<1> QED BY <1>1, Ends DEF WalkInv

LEMMA WalkInvNext == WalkInv /\ [Next]_vars => WalkInv'
<1> SUFFICES ASSUME WalkInv, [Next]_vars PROVE WalkInv'
  OBVIOUS
<1> USE DEF WalkInv
<1>1. CASE StoreNext
  BY <1>1 DEF StoreNext, Near, AtExit, Cell, South, North, East, West
<1>2. CASE \E order \in Orders : Walk(order)
  BY <1>2 DEF Walk, Near
<1>3. CASE Step
  <2>1. Min(Ways) \in 1..4
    BY <1>3, FirstWay DEF Step
  <2> DEFINE d == Min(Ways)
  <2>2. at' = Around(at)[d] /\ prev' = at /\ maze' = maze
    BY <1>3 DEF Step
  <2> HIDE DEF d
  <2>3. at' \in {South(at), North(at), East(at), West(at)}
    BY <2>1, <2>2 DEF Around, d
  <2>4. at' \in Int \X Int /\ prev' \in {South(at'), North(at'), East(at'), West(at')}
    BY <2>2, <2>3 DEF South, North, East, West
  <2> QED BY <2>2, <2>4 DEF Near
<1>4. CASE StepOut
  <2>1. PICK file \in Files : maze = Layout(file)
    OBVIOUS
  <2>2. at' = ExitOf(maze) /\ maze' = maze /\ prev' = prev
    BY <1>4 DEF StepOut
  <2>3. at' \in Int \X Int /\ AtExit'
    BY <2>1, <2>2, Ends DEF AtExit, Cell
  <2> QED BY <2>2, <2>3
<1>5. CASE Return
  BY <1>5 DEF Return
<1>6. CASE UNCHANGED vars
  BY <1>6 DEF vars, Near, AtExit, Cell, South, North, East, West
<1> QED BY <1>1, <1>2, <1>3, <1>4, <1>5, <1>6 DEF Next

LEMMA NearClosesWayBack == WalkInv => OnlyWayBackClosed
<1> SUFFICES ASSUME WalkInv, walking, ~AtExit, NEW d \in 1..4, Cell(Around(at)[d]) = PathChar
             PROVE  Open(d) <=> Around(at)[d] # prev
  BY DEF OnlyWayBackClosed
<1>1. Near /\ at \in Int \X Int /\ prev \in Int \X Int
  BY DEF WalkInv
<1>2. CASE d = 1
  BY <1>1, <1>2 DEF Near, Open, Around, South, North, East, West
<1>3. CASE d = 2
  BY <1>1, <1>3 DEF Near, Open, Around, South, North, East, West
<1>4. CASE d = 3
  BY <1>1, <1>4 DEF Near, Open, Around, South, North, East, West
<1>5. CASE d = 4
  BY <1>1, <1>5 DEF Near, Open, Around, South, North, East, West
<1> QED BY <1>2, <1>3, <1>4, <1>5

\* follow_path never walks back and never refuses any other path cell, on every
\* layout.
THEOREM WayBack == Spec => []OnlyWayBackClosed
<1>1. Spec => []WalkInv
  BY WalkInvInit, WalkInvNext, PTL DEF Spec
<1> QED BY <1>1, NearClosesWayBack, PTL

\* A robot on its way stands on the path, or at the start from which it has not
\* moved yet.
Stands ==
  /\ walking /\ ~AtExit =>
       /\ at \in DOMAIN maze
       /\ maze[at] = PathChar \/ (at = StartOf(maze) /\ prev = at)
  /\ ~walking => at = StartOf(maze) \/ AtExit

LEMMA StandsNext == WalkInv /\ Stands /\ [Next]_vars => Stands'
<1> SUFFICES ASSUME WalkInv, Stands, [Next]_vars PROVE Stands'
  OBVIOUS
<1> USE DEF Stands
<1>1. CASE StoreNext
  BY <1>1 DEF StoreNext, AtExit, Cell
<1>2. CASE \E order \in Orders : Walk(order)
  <2>1. StartOf(maze) \in DOMAIN maze
    BY LayoutsAssumption DEF WalkInv, StartOf, CellsWith
  <2> QED BY <1>2, <2>1 DEF Walk, AtExit, Cell
<1>3. CASE Step
  <2>1. Cell(Around(at)[Min(Ways)]) = PathChar
    BY <1>3, FirstWay DEF Step, Open
  <2>2. at' = Around(at)[Min(Ways)] /\ maze' = maze /\ walking
    BY <1>3 DEF Step
  <2>3. at' \in DOMAIN maze /\ maze[at'] = PathChar
    BY <2>1, <2>2 DEF Cell, PathChar
  <2> QED BY <2>2, <2>3, <1>3 DEF Step
<1>4. CASE StepOut
  <2>1. at' = ExitOf(maze) /\ maze' = maze /\ walking /\ walking' = walking
    BY <1>4 DEF StepOut
  <2>2. AtExit'
    BY <2>1, Ends DEF WalkInv, AtExit, Cell
  <2> QED BY <2>1, <2>2
<1>5. CASE Return
  BY <1>5 DEF Return, AtExit, Cell
<1>6. CASE UNCHANGED vars
  BY <1>6 DEF vars, AtExit, Cell
<1> QED BY <1>1, <1>2, <1>3, <1>4, <1>5, <1>6 DEF Next

LEMMA StandsInside ==
  ASSUME \A file \in Files : Fenced(Layout(file))
  PROVE  WalkInv /\ Stands => ReadsInside
<1> SUFFICES ASSUME WalkInv, Stands, walking, ~AtExit,
                    NEW d \in 1..(IF Ways = {} THEN 4 ELSE Min(Ways))
             PROVE  Around(at)[d] \in DOMAIN maze
  BY DEF ReadsInside
<1>1. d \in 1..4 /\ \A e \in Ways : d <= e
  <2>1. CASE Ways = {}
    BY <2>1
  <2>2. CASE Ways # {}
    <3>1. d \in 1..Min(Ways) /\ Min(Ways) \in 1..4 /\ \A e \in Ways : Min(Ways) <= e
      BY <2>2, FirstWay
    <3>2. Ways \subseteq 1..4
      BY DEF Ways
    <3> QED BY <3>1, <3>2
  <2> QED BY <2>1, <2>2
<1>2. Fenced(maze)
  BY DEF WalkInv
<1>3. at \in DOMAIN maze /\ (maze[at] = PathChar \/ (at = StartOf(maze) /\ prev = at))
  BY DEF Stands
<1>4. CASE maze[at] = PathChar
  BY <1>1, <1>2, <1>3, <1>4 DEF Fenced, CellsWith
<1>5. CASE at = StartOf(maze) /\ prev = at
  <2>1. at \in CellsWith(maze, Start)
    BY <1>5, LayoutsAssumption DEF WalkInv, StartOf, CellsWith
  <2>2. CASE \A e \in 1..4 : Around(at)[e] \in DOMAIN maze
    BY <1>1, <2>2
  <2>3. ASSUME NEW e \in 1..4, Around(at)[e] \in DOMAIN maze, maze[Around(at)[e]] = PathChar,
               \A i \in 1..e : Around(at)[i] \in DOMAIN maze
        PROVE  Around(at)[d] \in DOMAIN maze
    <3>1. Cell(Around(at)[e]) = PathChar
      BY <2>3 DEF Cell
    <3>2. OnlyWayBackClosed /\ Around(at)[e] # prev
      <4>1. at \in Int \X Int
        BY DEF WalkInv
      <4>2. Around(at)[e] # at
        BY <4>1, e = 1 \/ e = 2 \/ e = 3 \/ e = 4 DEF Around, South, North, East, West
      <4> QED BY <1>5, <4>2, NearClosesWayBack
    <3>3. e \in Ways
      BY <3>1, <3>2 DEF OnlyWayBackClosed, Ways
    <3> QED BY <1>1, <2>3, <3>3
  <2> QED BY <1>2, <2>1, <2>2, <2>3 DEF Fenced
<1> QED BY <1>3, <1>4, <1>5

\* On a layout whose path does not touch the edge, follow_path never reads outside
\* the array, also at a start in the first row or column.
THEOREM ReadsAreInside ==
  ASSUME \A file \in Files : Fenced(Layout(file))
  PROVE  Spec => []ReadsInside
<1>1. Init => WalkInv /\ Stands
  BY WalkInvInit DEF Init, Stands
<1>2. WalkInv /\ Stands /\ [Next]_vars => WalkInv' /\ Stands'
  BY WalkInvNext, StandsNext
<1>3. WalkInv /\ Stands => ReadsInside
  BY StandsInside
<1> QED BY <1>1, <1>2, <1>3, PTL DEF Spec
--------------------------------------------------------------------------------
Weights(inventory) == Total([j \in DOMAIN inventory |-> inventory[j].weight])

\* A shelf's weight is that of its entries, and within its capacity.
ShelfInv(s) ==
  /\ s = [at |-> s.at, inventory |-> s.inventory, weight |-> s.weight]
  /\ s.inventory \in Seq({Stock[i] : i \in DOMAIN Stock})
  /\ s.weight = Weights(s.inventory) /\ s.weight <= MaxWeight

\* With more shelves than items the first shelves get one item each; otherwise the
\* loop stays within the shelves, and so never ends.
LoadInv ==
  /\ Len(shelves) \in Nat \ {0, 1} /\ DOMAIN shelves = 1..Len(shelves)
  /\ index \in 0..(Len(shelves) - 1)
  /\ \A k \in DOMAIN shelves : ShelfInv(shelves[k])
  /\ Len(Stock) < Len(shelves) =>
       /\ index <= Len(Stock)
       /\ \A k \in DOMAIN shelves :
            shelves[k].inventory = IF k <= index THEN <<Stock[k]>> ELSE <<>>

\* The items that may be on the shelves.
StockItems == {Stock[i] : i \in DOMAIN Stock}

\* What is assumed of the inventory.
LEMMA StockFacts ==
  /\ MaxWeight \in Nat /\ Len(Stock) \in Nat /\ DOMAIN Stock = 1..Len(Stock)
  /\ \A item \in StockItems : item.qty \in Nat /\ item.weight \in 0..MaxWeight
  BY StockAssumption DEF StockItems

\* The places of a sequence.
LEMMA PlacesFinite ==
  ASSUME NEW n \in Nat
  PROVE  IsFiniteSet(1..n)
  BY FS_Interval

\* The weight of the entries of a shelf: a number, nothing at first, and more by
\* that of the item with every item appended.
LEMMA WeightsInt ==
  ASSUME NEW s \in Seq(StockItems)
  PROVE  Weights(s) \in Int
<1>1. DOMAIN s = 1..Len(s) /\ Len(s) \in Nat
  OBVIOUS
<1>2. \A j \in DOMAIN s : s[j] \in StockItems
  OBVIOUS
<1>3. [j \in DOMAIN s |-> s[j].weight] \in [DOMAIN s -> Int]
  BY <1>2, StockFacts
<1> QED BY <1>1, <1>3, PlacesFinite, SumInt DEF Weights

LEMMA WeightsEmpty == Weights(<<>>) = 0
<1>1. [j \in DOMAIN <<>> |-> <<>>[j].weight] \in [{} -> Int]
  OBVIOUS
<1> QED BY <1>1, SumEmpty DEF Weights

LEMMA WeightsAppend ==
  ASSUME NEW s \in Seq(StockItems), NEW item \in StockItems
  PROVE  Weights(Append(s, item)) = Weights(s) + item.weight
<1> DEFINE t == Append(s, item)
           n == Len(s)
           f == [j \in 1..n |-> s[j].weight]
           h == [j \in 1..(n + 1) |-> t[j].weight]
<1>1. /\ n \in Nat /\ DOMAIN s = 1..n /\ DOMAIN t = 1..(n + 1) /\ t[n + 1] = item
      /\ \A j \in 1..n : t[j] = s[j]
  OBVIOUS
<1>2. /\ \A j \in 1..n : s[j] \in StockItems
      /\ \A j \in 1..(n + 1) : t[j] \in StockItems
  <2>1. \A j \in 1..n : s[j] \in StockItems
    BY <1>1
  <2> QED BY <1>1, <2>1
<1>3. Weights(s) = Total(f) /\ Weights(t) = Total(h)
  BY <1>1 DEF Weights
<1> HIDE DEF t
<1>4. /\ f \in [1..n -> Int] /\ h \in [1..(n + 1) -> Int]
      /\ \A j \in 1..n : h[j] = f[j]
      /\ h[n + 1] = item.weight
  BY <1>1, <1>2, StockFacts
<1> HIDE DEF f, h
<1>5. Total(h) = Total(f) + h[n + 1]
  <2> DEFINE D == 1..n
  <2>1. 1..(n + 1) = D \cup {n + 1} /\ n + 1 \notin D
    BY <1>1
  <2>2. /\ IsFiniteSet(D) /\ f \in [D -> Int] /\ h \in [D \cup {n + 1} -> Int]
        /\ \A j \in D : h[j] = f[j]
    BY <1>1, <1>4, <2>1, PlacesFinite
  <2> HIDE DEF D
  <2>3. n + 1 \notin D
    BY <2>1
  <2> QED BY <2>2, <2>3, SumNext, SMTT(30)
<1> QED BY <1>3, <1>4, <1>5 DEF t

\* Units of an item in a vector without it, and in a vector of that item alone.
LEMMA UnitsOfNone ==
  ASSUME NEW s, NEW name, \A j \in DOMAIN s : s[j].name # name
  PROVE  Units(s, name) = 0
<1>1. {j \in DOMAIN s : s[j].name = name} = {}
  OBVIOUS
<1>2. [i \in {} |-> s[i].qty] \in [{} -> Int]
  OBVIOUS
<1> QED BY <1>1, <1>2, SumEmpty DEF Units

LEMMA UnitsOfOne ==
  ASSUME NEW item, item.qty \in Int
  PROVE  Units(<<item>>, item.name) = item.qty
<1> DEFINE h == [i \in {1} |-> <<item>>[i].qty]
<1>1. {j \in DOMAIN <<item>> : <<item>>[j].name = item.name} = {1}
  OBVIOUS
<1>2. Units(<<item>>, item.name) = Total(h)
  BY <1>1 DEF Units
<1>3. h \in [{1} -> Int] /\ h[1] = item.qty
  OBVIOUS
<1> HIDE DEF h
<1> QED BY <1>2, <1>3, SumOfOne

\* storeItem keeps a shelf within its capacity, and an empty shelf takes any item.
LEMMA StoreKeeps ==
  ASSUME NEW s, ShelfInv(s), NEW item \in StockItems
  PROVE  /\ ShelfInv(StoreItem(s, item))
         /\ s.inventory = <<>> => StoreItem(s, item).inventory = <<item>>
<1>1. /\ s = [at |-> s.at, inventory |-> s.inventory, weight |-> s.weight]
      /\ s.inventory \in Seq(StockItems) /\ s.weight = Weights(s.inventory) /\ s.weight <= MaxWeight
      /\ s.weight \in Int /\ MaxWeight \in Nat /\ item.weight \in 0..MaxWeight
  BY WeightsInt, StockFacts DEF ShelfInv, StockItems
<1>2. CASE s.weight + item.weight > MaxWeight
  <2>1. StoreItem(s, item) = s
    BY <1>2 DEF StoreItem
  <2>2. s.inventory # <<>>
    BY <1>1, <1>2, WeightsEmpty
  <2> QED BY <2>1, <2>2
<1>3. CASE ~ (s.weight + item.weight > MaxWeight)
  <2> DEFINE t == StoreItem(s, item)
  <2>1. t = [at |-> s.at, inventory |-> Append(s.inventory, item), weight |-> s.weight + item.weight]
    BY <1>1, <1>3 DEF StoreItem
  <2> HIDE DEF t
  <2>2. Append(s.inventory, item) \in Seq(StockItems)
    BY <1>1
  <2>3. Weights(Append(s.inventory, item)) = Weights(s.inventory) + item.weight
    BY <1>1, WeightsAppend
  <2>4. t.weight = Weights(t.inventory) /\ t.weight <= MaxWeight
    BY <1>1, <1>3, <2>1, <2>3
  <2>5. ShelfInv(t)
    BY <2>1, <2>2, <2>4 DEF ShelfInv, StockItems
  <2>6. s.inventory = <<>> => t.inventory = <<item>>
    BY <2>1
  <2> QED BY <2>5, <2>6 DEF t
<1> QED BY <1>2, <1>3

\* The shelves are empty at first.
LEMMA LoadInvInit == Init => LoadInv
<1> SUFFICES ASSUME Init PROVE LoadInv
  OBVIOUS
<1>1. PICK file \in Files : shelves = AllShelves(Layout(file)) /\ index = 0
  BY DEF Init
<1>2. Len(shelves) \in Nat \ {0, 1} /\ DOMAIN shelves = 1..Len(shelves)
  BY <1>1, LayoutsAssumption
<1>3. ASSUME NEW k \in DOMAIN shelves
      PROVE  \E cell : shelves[k] = EmptyShelf(cell)
  BY <1>1 DEF AllShelves
<1>4. ASSUME NEW cell PROVE ShelfInv(EmptyShelf(cell)) /\ EmptyShelf(cell).inventory = <<>>
  BY WeightsEmpty, StockFacts DEF ShelfInv, EmptyShelf
<1>5. \A k \in DOMAIN shelves : ShelfInv(shelves[k]) /\ shelves[k].inventory = <<>>
  BY <1>3, <1>4
<1> QED BY <1>1, <1>2, <1>5, StockFacts DEF LoadInv

\* Every turn of the loop keeps the invariant, and nothing else touches a shelf.
LEMMA LoadInvNext == LoadInv /\ [Next]_vars => LoadInv'
<1> SUFFICES ASSUME LoadInv, [Next]_vars PROVE LoadInv'
  OBVIOUS
<1>1. CASE StoreNext
  <2> DEFINE n == Len(shelves)
             k == index + 1
  <2>1. /\ index < Len(Stock) /\ index \in Nat /\ n \in Nat \ {0, 1} /\ DOMAIN shelves = 1..n
        /\ k \in 1..n /\ Len(Stock) \in Nat /\ index <= n - 1
    <3>1. n \in Nat \ {0, 1} /\ DOMAIN shelves = 1..n /\ index \in 0..(n - 1)
      BY DEF LoadInv
    <3>2. ~ (index >= Len(Stock)) /\ Len(Stock) \in Nat
      BY <1>1, StockFacts DEF StoreNext, Loaded
    <3> HIDE DEF n
    <3> QED BY <3>1, <3>2
  <2>2. Stock[k] \in StockItems
    BY <2>1, StockFacts DEF StockItems
  <2>3. /\ shelves' = [shelves EXCEPT ![k] = StoreItem(@, Stock[k])]
        /\ index' = IF index = n - 1 THEN 1 ELSE index + 1
    BY <1>1 DEF StoreNext
  <2> HIDE DEF n, k
  <2>4. /\ DOMAIN shelves' = 1..n
        /\ shelves'[k] = StoreItem(shelves[k], Stock[k])
        /\ \A j \in 1..n : j # k => shelves'[j] = shelves[j]
    BY <2>1, <2>3
  <2>5. Len(shelves') = n
    BY <2>3 DEF n
  <2>6. \A j \in 1..n : ShelfInv(shelves'[j])
    BY <2>1, <2>2, <2>4, StoreKeeps DEF LoadInv, n
  <2>7. index' \in 0..(n - 1)
    BY <2>1, <2>3 DEF k
  <2>8. ASSUME Len(Stock) < n
        PROVE  /\ index' <= Len(Stock)
               /\ \A j \in 1..n : shelves'[j].inventory = IF j <= index' THEN <<Stock[j]>> ELSE <<>>
    <3>1. index' = k /\ k <= Len(Stock)
      BY <2>1, <2>3, <2>8 DEF k
    <3>2. /\ \A j \in 1..n : shelves[j].inventory = IF j <= index THEN <<Stock[j]>> ELSE <<>>
          /\ ShelfInv(shelves[k])
      BY <2>1, <2>8 DEF LoadInv, n
    <3>3. shelves[k].inventory = <<>>
      <4>1. ~ (k <= index)
        BY <2>1 DEF k
      <4> QED BY <2>1, <3>2, <4>1
    <3>4. shelves'[k].inventory = <<Stock[k]>>
      BY <2>2, <2>4, <3>2, <3>3, StoreKeeps
    <3>5. \A j \in 1..n : j # k => shelves'[j].inventory = IF j <= k THEN <<Stock[j]>> ELSE <<>>
      BY <2>1, <2>4, <3>2 DEF k
    <3>6. k <= k
      BY <2>1 DEF k
    <3> QED BY <3>1, <3>4, <3>5, <3>6
  <2> QED BY <2>1, <2>4, <2>5, <2>6, <2>7, <2>8 DEF LoadInv
<1>2. CASE UNCHANGED <<shelves, index>>
  BY <1>2 DEF LoadInv
<1>3. ASSUME Next \/ UNCHANGED vars, ~ StoreNext
      PROVE  UNCHANGED <<shelves, index>>
  BY <1>3 DEF Next, Walk, Step, StepOut, Return, vars
<1> QED BY <1>1, <1>2, <1>3

\* Once loaded, each item is on one shelf, as much as there is.
LEMMA LoadKeepsRules == LoadInv => ShelfRules
<1> SUFFICES ASSUME LoadInv PROVE ShelfRules
  OBVIOUS
<1>1. ASSUME NEW k \in DOMAIN shelves
      PROVE  Weights(shelves[k].inventory) <= MaxWeight
  BY DEF LoadInv, ShelfInv
<1>2. ASSUME Loaded, NEW i \in DOMAIN Stock
      PROVE  Total([k \in DOMAIN shelves |-> Units(shelves[k].inventory, Stock[i].name)]) = Stock[i].qty
  <2> DEFINE n == Len(shelves)
             name == Stock[i].name
             z == [k \in 1..n |-> 0]
             h == [k \in 1..n |-> Units(shelves[k].inventory, name)]
  <2>1. /\ n \in Nat /\ DOMAIN shelves = 1..n /\ Len(Stock) < n /\ index = Len(Stock)
        /\ DOMAIN Stock = 1..Len(Stock) /\ Len(Stock) \in Nat /\ i \in 1..n
        /\ \A k \in 1..n : shelves[k].inventory = IF k <= Len(Stock) THEN <<Stock[k]>> ELSE <<>>
    <3>1. /\ n \in Nat \ {0, 1} /\ DOMAIN shelves = 1..n /\ index \in 0..(n - 1)
          /\ Len(Stock) < n =>
               /\ index <= Len(Stock)
               /\ \A k \in 1..n : shelves[k].inventory = IF k <= index THEN <<Stock[k]>> ELSE <<>>
      BY DEF LoadInv
    <3>2. index >= Len(Stock) /\ Len(Stock) \in Nat
      BY <1>2, StockFacts DEF Loaded
    <3>5. DOMAIN Stock = 1..Len(Stock)
      BY StockFacts
    <3> HIDE DEF n
    <3>3. Len(Stock) < n /\ index = Len(Stock)
      <4>1. index \in Nat /\ index <= n - 1
        BY <3>1
      <4>2. Len(Stock) < n
        BY <3>1, <3>2, <4>1
      <4>3. index <= Len(Stock)
        BY <3>1, <4>2
      <4> QED BY <3>2, <4>1, <4>2, <4>3
    <3>4. i \in 1..n
      BY <3>1, <3>2, <3>3, <3>5
    <3> QED BY <3>1, <3>2, <3>3, <3>4, <3>5
  <2>2. Units(shelves[i].inventory, name) = Stock[i].qty
    <3>1. i <= Len(Stock) /\ Stock[i] \in StockItems
      BY <2>1 DEF StockItems
    <3>2. shelves[i].inventory = <<Stock[i]>>
      BY <2>1, <3>1
    <3>3. Stock[i].qty \in Int
      BY <3>1, StockFacts
    <3> QED BY <3>2, <3>3, UnitsOfOne
  <2>3. ASSUME NEW k \in 1..n, k # i
        PROVE  Units(shelves[k].inventory, name) = 0
    <3>1. CASE k <= Len(Stock)
      <4>0. k \in DOMAIN Stock
        BY <2>1, <3>1
      <4>1. shelves[k].inventory = <<Stock[k]>> /\ Stock[k].name # name
        BY <2>1, <2>3, <3>1, <4>0, StockAssumption
      <4>2. \A j \in DOMAIN <<Stock[k]>> : <<Stock[k]>>[j].name # name
        BY <4>1
      <4> QED BY <4>1, <4>2, UnitsOfNone
    <3>2. CASE ~ (k <= Len(Stock))
      <4>1. shelves[k].inventory = <<>>
        BY <2>1, <3>2
      <4> QED BY <4>1, UnitsOfNone
    <3> QED BY <3>1, <3>2
  <2>4. Stock[i].qty \in Nat
    BY StockAssumption
  <2>5. /\ z \in [1..n -> Int] /\ \A k \in 1..n : z[k] = 0
        /\ h \in [1..n -> Int] /\ h[i] = Stock[i].qty /\ \A k \in 1..n \ {i} : h[k] = z[k]
    BY <2>1, <2>2, <2>3, <2>4
  <2>6. Total([k \in DOMAIN shelves |-> Units(shelves[k].inventory, Stock[i].name)]) = Total(h)
    BY <2>1
  <2> HIDE DEF z, h
  <2>7. Total(z) = 0
    BY <2>1, <2>5, PlacesFinite, SumZero
  <2>8. Total(h) = Total(z) - z[i] + h[i]
    BY <2>1, <2>5, PlacesFinite, SumAt
  <2> QED BY <2>1, <2>4, <2>5, <2>6, <2>7, <2>8
<1> QED BY <1>1, <1>2 DEF ShelfRules, Weights

\* However often load_warehouse stores the items, a shelf never holds more than
\* its capacity, and once it has returned every item is in one place, complete:
\* for every layout and every inventory.
THEOREM ShelvesAreRight == Spec => []ShelfRules
<1>1. Spec => []LoadInv
  BY LoadInvInit, LoadInvNext, PTL DEF Spec
<1> QED BY <1>1, LoadKeepsRules, PTL

\* load_warehouse never returns with as many items as shelves or more: the loop
\* is set back at the last shelf for ever, and no robot is sent out.
THEOREM LoaderNeverDone == Spec => [](Len(Stock) >= Len(shelves) => ~ Loaded /\ ~ walking)
<1> DEFINE J == LoadInv /\ (walking => Loaded)
<1>1. Init => J
  BY LoadInvInit DEF Init
<1>2. J /\ [Next]_vars => J'
  <2> SUFFICES ASSUME J, [Next]_vars PROVE J'
    OBVIOUS
  <2>1. LoadInv'
    BY LoadInvNext
  <2>2. walking' => Loaded'
    BY DEF Next, StoreNext, Walk, Step, StepOut, Return, vars, Loaded
  <2> QED BY <2>1, <2>2
<1>3. J => (Len(Stock) >= Len(shelves) => ~ Loaded /\ ~ walking)
  <2> SUFFICES ASSUME LoadInv, Len(Stock) >= Len(shelves) PROVE ~ Loaded
    OBVIOUS
  <2>1. index \in 0..(Len(shelves) - 1) /\ Len(shelves) \in Nat /\ Len(Stock) \in Nat
    BY StockFacts DEF LoadInv
  <2> QED BY <2>1 DEF Loaded
<1> QED BY <1>1, <1>2, <1>3, PTL DEF Spec
--------------------------------------------------------------------------------
(***************************************************************************)
(* What a robot takes.                                                     *)
(***************************************************************************)
\* The last of some places.
LEMMA LastPlace ==
  ASSUME NEW n \in Nat, NEW s \in SUBSET (1..n), s # {}
  PROVE  /\ Max(s) \in s
         /\ \A k \in s : (\A i \in s : i <= k) => Max(s) = k
<1> DEFINE F == {n - k : k \in s}
<1>0. \A i \in s : i \in Int /\ n - i \in Nat
  OBVIOUS
<1>1. F \in SUBSET Nat /\ F # {}
  BY <1>0
<1>2. PICK d \in F : \A e \in F : d <= e
  BY <1>1, SmallestNumber
<1>3. PICK k \in s : d = n - k
  BY <1>2
<1>4. \A i \in s : n - i \in F
  OBVIOUS
<1>5. ASSUME NEW i \in s PROVE i <= k
  <2>1. n - k <= n - i /\ i \in Int /\ k \in Int
    BY <1>0, <1>2, <1>3, <1>4
  <2> QED BY <2>1
<1> HIDE DEF F
<1>6. Max(s) \in s /\ \A i \in s : Max(s) >= i
  BY <1>5 DEF Max
<1>7. ASSUME NEW j \in s, \A i \in s : i <= j PROVE Max(s) = j
  <2>1. Max(s) <= j /\ Max(s) >= j /\ j \in Int /\ Max(s) \in Int
    BY <1>0, <1>6, <1>7
  <2> QED BY <2>1
<1> QED BY <1>6, <1>7

\* The names and entries that the robot meets.
Names == {Stock[i].name : i \in DOMAIN Stock}
Entries == [name : Names, qty : Int, weight : Int]

\* What is left of the copy of a shelf, and what the robot holds.
Copies == {<<>>} \cup {<<e>> : e \in {f \in Entries : f.qty \in Nat}}
Hands == [from : Copies, to : Seq(Entries)]

\* A vector names each item once.
NamesOnce(items) == \A i, j \in DOMAIN items : items[i].name = items[j].name => i = j

LEMMA UnitsInt ==
  ASSUME NEW items \in Seq(Entries), NEW name
  PROVE  Units(items, name) \in Int
<1> DEFINE S == {j \in DOMAIN items : items[j].name = name}
<1>1. IsFiniteSet(DOMAIN items)
  BY PlacesFinite, DOMAIN items = 1..Len(items), Len(items) \in Nat
<1>2. IsFiniteSet(S)
  BY <1>1, FS_Subset
<1>3. [i \in S |-> items[i].qty] \in [S -> Int]
  <2>1. \A i \in DOMAIN items : items[i] \in Entries
    OBVIOUS
  <2>2. \A i \in S : items[i].qty \in Int
    BY <2>1 DEF Entries
  <2> QED BY <2>2
<1> HIDE DEF S
<1> QED BY <1>2, <1>3, SumInt DEF Units, S

\* There is no less than nothing on a shelf.
LEMMA UnitsOfCopy ==
  ASSUME NEW from \in Copies, NEW name
  PROVE  Units(from, name) \in Nat
<1>1. CASE from = <<>>
  BY <1>1, UnitsOfNone
<1>2. CASE from # <<>>
  <2>1. PICK e : from = <<e>> /\ e.qty \in Nat
    BY <1>2 DEF Copies
  <2>2. CASE e.name = name
    <3>1. e.qty \in Int
      BY <2>1
    <3> QED BY <2>1, <2>2, <3>1, UnitsOfOne
  <2>3. CASE e.name # name
    <3>1. \A j \in DOMAIN from : from[j].name # name
      BY <2>1, <2>3
    <3>2. Units(from, name) = 0
      BY <3>1, UnitsOfNone
    <3> QED BY <3>2
  <2> QED BY <2>2, <2>3
<1> QED BY <1>1, <1>2

\* What the receiver of some units has of each item.
LEMMA UnitsReceived ==
  ASSUME NEW to \in Seq(Entries), NamesOnce(to), NEW e \in Entries, NEW q \in Int
  PROVE  /\ Received(to, e, q) \in Seq(Entries)
         /\ NamesOnce(Received(to, e, q))
         /\ \A i \in DOMAIN to : /\ i \in DOMAIN Received(to, e, q)
                                 /\ Received(to, e, q)[i].name = to[i].name
         /\ Units(Received(to, e, q), e.name) = Units(to, e.name) + q
         /\ \A name : name # e.name => Units(Received(to, e, q), name) = Units(to, name)
<1> DEFINE n == Len(to)
           t == Received(to, e, q)
           At(items, name) == {j \in DOMAIN items : items[j].name = name}
           Qty(items, name) == [j \in At(items, name) |-> items[j].qty]
<1>1. n \in Nat /\ DOMAIN to = 1..n /\ \A j \in 1..n : to[j] \in Entries
  OBVIOUS
<1>2. \A items, name : Units(items, name) = Total(Qty(items, name))
  BY DEF Units
<1>3. ASSUME NEW name PROVE IsFiniteSet(At(to, name)) /\ Qty(to, name) \in [At(to, name) -> Int]
  <2>1. IsFiniteSet(1..n)
    BY <1>1, PlacesFinite
  <2>2. At(to, name) \in SUBSET (1..n)
    BY <1>1
  <2> QED BY <1>1, <2>1, <2>2, FS_Subset DEF Entries
<1>4. CASE \E j \in DOMAIN to : to[j].name = e.name
  <2>1. PICK j \in 1..n : to[j].name = e.name
    BY <1>1, <1>4
  <2>2. \A i \in 1..n : to[i].name = e.name => i = j
    BY <1>1, <2>1 DEF NamesOnce
  <2>3. t = [i \in 1..n |-> IF i = j THEN [to[i] EXCEPT !.qty = @ + q] ELSE to[i]]
    BY <1>1, <1>4, <2>1, <2>2 DEF Received
  <2> HIDE DEF t
  <2>4. /\ t[j].name = e.name /\ t[j].qty = to[j].qty + q /\ t[j] \in Entries /\ to[j].qty \in Int
        /\ \A i \in 1..n : i # j => t[i] = to[i]
    <3>1. to[j] \in Entries /\ to[j].qty \in Int
      BY <1>1 DEF Entries
    <3>2. t[j] = [to[j] EXCEPT !.qty = @ + q] /\ \A i \in 1..n : i # j => t[i] = to[i]
      BY <2>3
    <3>3. t[j] = [name |-> to[j].name, qty |-> to[j].qty + q, weight |-> to[j].weight]
      BY <3>1, <3>2 DEF Entries
    <3> QED BY <2>1, <3>1, <3>2, <3>3 DEF Entries
  <2>5. t \in Seq(Entries) /\ DOMAIN t = 1..n
    BY <1>1, <2>3, <2>4
  <2>6. \A i \in 1..n : t[i].name = to[i].name
    BY <2>1, <2>4
  <2>7. NamesOnce(t)
    BY <1>1, <2>5, <2>6 DEF NamesOnce
  <2>8. ASSUME NEW name
        PROVE  /\ name = e.name => Units(t, name) = Units(to, name) + q
               /\ name # e.name => Units(t, name) = Units(to, name)
    <3> DEFINE S == At(to, name)
    <3>1. At(t, name) = S
      BY <1>1, <2>5, <2>6
    <3>2. IsFiniteSet(S) /\ Qty(to, name) \in [S -> Int]
      BY <1>3
    <3>3. CASE name = e.name
      <4>1. j \in S
        BY <1>1, <2>1, <3>3
      <4>2. /\ Qty(t, name) \in [S -> Int]
            /\ Qty(t, name)[j] = Qty(to, name)[j] + q
            /\ Qty(to, name)[j] \in Int
            /\ \A i \in S \ {j} : Qty(t, name)[i] = Qty(to, name)[i]
        BY <1>1, <2>4, <3>1, <4>1 DEF Entries
      <4> DEFINE f == Qty(to, name)
                 h == Qty(t, name)
      <4>3. f \in [S -> Int] /\ h \in [S -> Int] /\ j \in S /\ \A i \in S \ {j} : h[i] = f[i]
        BY <3>2, <4>1, <4>2
      <4> HIDE DEF f, h, S
      <4>4. IsFiniteSet(S)
        BY <3>2
      <4>5. Total(f) \in Int
        BY <4>3, <4>4, SumInt
      <4>6. Total(h) = Total(f) - f[j] + h[j]
        BY <4>3, <4>4, SumAt
      <4>7. h[j] = f[j] + q /\ f[j] \in Int
        BY <4>2 DEF f, h
      <4>8. Units(t, name) = Total(h) /\ Units(to, name) = Total(f)
        BY <1>2 DEF f, h
      <4> QED BY <3>3, <4>5, <4>6, <4>7, <4>8
    <3>4. CASE name # e.name
      <4>1. \A i \in S : t[i] = to[i]
        BY <1>1, <2>1, <2>4, <3>4
      <4>2. Qty(t, name) = Qty(to, name)
        BY <3>1, <4>1
      <4>3. Units(to, name) \in Int
        BY UnitsInt
      <4>4. Units(t, name) = Units(to, name)
        BY <1>2, <4>2
      <4> QED BY <3>4, <4>3, <4>4
    <3> QED BY <3>3, <3>4
  <2> QED BY <1>1, <2>5, <2>6, <2>7, <2>8 DEF t
<1>5. CASE ~ \E j \in DOMAIN to : to[j].name = e.name
  <2> DEFINE new == [e EXCEPT !.qty = q]
  <2>1. t = Append(to, new)
    BY <1>5 DEF Received
  <2>2. new \in Entries /\ new.name = e.name /\ new.qty = q
    BY DEF Entries
  <2> HIDE DEF t, new
  <2>3. /\ t \in Seq(Entries) /\ DOMAIN t = 1..(n + 1) /\ t[n + 1] = new
        /\ \A i \in 1..n : t[i] = to[i]
    BY <1>1, <2>1, <2>2
  <2>4. NamesOnce(t)
    <3>1. \A i \in 1..n : t[i].name # e.name
      BY <1>1, <1>5, <2>3
    <3>2. \A i \in 1..(n + 1) : i \in 1..n \/ i = n + 1
      BY <1>1
    <3>3. ASSUME NEW i \in 1..(n + 1), NEW k \in 1..(n + 1), t[i].name = t[k].name PROVE i = k
      <4>1. CASE i \in 1..n /\ k \in 1..n
        BY <1>1, <2>3, <3>3, <4>1 DEF NamesOnce
      <4>2. CASE i = n + 1 \/ k = n + 1
        BY <2>2, <2>3, <3>1, <3>2, <3>3, <4>2
      <4> QED BY <3>2, <4>1, <4>2
    <3> QED BY <2>3, <3>3 DEF NamesOnce
  <2>5. ASSUME NEW name
        PROVE  /\ name = e.name => Units(t, name) = Units(to, name) + q
               /\ name # e.name => Units(t, name) = Units(to, name)
    <3> DEFINE S == At(to, name)
               f == Qty(to, name)
               h == Qty(t, name)
    <3>1. Units(t, name) = Total(h) /\ Units(to, name) = Total(f)
      BY <1>2
    <3>2. IsFiniteSet(S) /\ f \in [S -> Int] /\ Total(f) \in Int
      BY <1>3, SumInt
    <3>3. CASE name = e.name
      <4>1. S = {} /\ At(t, name) = {n + 1}
        BY <1>1, <1>5, <2>2, <2>3, <3>3
      <4>2. h \in [{n + 1} -> Int] /\ h[n + 1] = q
        BY <2>2, <2>3, <4>1
      <4>3. f \in [{} -> Int]
        BY <3>2, <4>1
      <4> HIDE DEF f, h
      <4>4. Total(f) = 0
        BY <4>3, SumEmpty
      <4>5. Total(h) = q
        BY <4>2, SumOfOne
      <4> QED BY <3>1, <3>3, <4>4, <4>5
    <3>4. CASE name # e.name
      <4>1. At(t, name) = S
        BY <1>1, <2>2, <2>3, <3>4
      <4>2. \A i \in S : t[i] = to[i]
        BY <1>1, <2>3
      <4>3. h = f
        BY <4>1, <4>2
      <4> QED BY <3>1, <3>2, <3>4, <4>3
    <3> QED BY <3>3, <3>4
  <2> QED BY <1>1, <2>3, <2>4, <2>5 DEF t
<1> QED BY <1>4, <1>5

\* What moveItem does to a vector of one entry, and to an empty one.
LEMMA MoveFromNone ==
  ASSUME NEW to, NEW name, NEW q
  PROVE  MoveItem(<<>>, to, name, q) = [from |-> <<>>, to |-> to]
BY DEF MoveItem

LEMMA MoveFromOne ==
  ASSUME NEW e \in Entries, NEW to, NEW name, NEW q \in Int
  PROVE  MoveItem(<<e>>, to, name, q)
           = IF e.name = name /\ e.qty >= q
             THEN [from |-> IF e.qty = q THEN <<>> ELSE <<[e EXCEPT !.qty = e.qty - q]>>,
                   to |-> Received(to, e, q)]
             ELSE [from |-> <<e>>, to |-> to]
<1> DEFINE able == {i \in DOMAIN <<e>> : <<e>>[i].name = name /\ <<e>>[i].qty >= q}
           left == <<[e EXCEPT !.qty = e.qty - q]>>
<1>1. e.qty \in Int /\ left[1].qty = e.qty - q
  BY DEF Entries
<1>2. CASE ~ (e.name = name /\ e.qty >= q)
  <2>1. able = {}
    BY <1>2
  <2> HIDE DEF able
  <2> QED BY <1>2, <2>1 DEF MoveItem, able
<1>3. CASE e.name = name /\ e.qty >= q
  <2>1. able = 1..1 /\ able # {}
    BY <1>3
  <2> HIDE DEF able
  <2>2. Min(able) = 1
    BY <2>1 DEF Min
  <2>3. [<<e>> EXCEPT ![1].qty = @ - q] = left
    OBVIOUS
  <2>4. MoveItem(<<e>>, to, name, q)
          = [from |-> IF left[1].qty = 0 THEN Tail(left) ELSE left, to |-> Received(to, <<e>>[1], q)]
    BY <2>1, <2>2, <2>3 DEF MoveItem, able
  <2>5. Tail(left) = <<>> /\ <<e>>[1] = e
    OBVIOUS
  <2>6. (left[1].qty = 0) <=> (e.qty = q)
    BY <1>1
  <2> HIDE DEF left
  <2> QED BY <1>3, <2>4, <2>5, <2>6 DEF left
<1> QED BY <1>2, <1>3

\* The loop over the copy of a shelf, which has one entry or none.
LEMMA ReleaseFromNone ==
  ASSUME NEW s, NEW item, s.from = <<>>
  PROVE  Release(s, item) = s
<1> DEFINE Op(t, entry) == IF entry.name = item.name
                           THEN MoveItem(t.from, t.to, item.name, item.qty) ELSE t
           It(g) == [r \in SUBSET (DOMAIN s.from) |->
                       IF r = {} THEN s ELSE Op(g[r \ {Max(r)}], s.from[Max(r)])]
           k == CHOOSE g : g = It(g)
<1>1. Release(s, item) = k[DOMAIN s.from]
  BY DEF Release, FoldLeft, MapThenFoldSet
<1>2. DOMAIN s.from = {}
  OBVIOUS
<1> HIDE DEF Op
<1>3. k = It(k)
  <2>1. [r \in SUBSET {} |-> s] = It([r \in SUBSET {} |-> s])
    BY <1>2
  <2> HIDE DEF It
  <2> QED BY <2>1
<1> HIDE DEF k
<1>4. k[{}] = s
  BY <1>2, <1>3
<1> QED BY <1>1, <1>2, <1>4

LEMMA ReleaseFromOne ==
  ASSUME NEW s, NEW item, NEW e, s.from = <<e>>
  PROVE  Release(s, item) = IF e.name = item.name
                            THEN MoveItem(s.from, s.to, item.name, item.qty) ELSE s
<1> DEFINE Op(t, entry) == IF entry.name = item.name
                           THEN MoveItem(t.from, t.to, item.name, item.qty) ELSE t
           It(g) == [r \in SUBSET (DOMAIN s.from) |->
                       IF r = {} THEN s ELSE Op(g[r \ {Max(r)}], s.from[Max(r)])]
           k == CHOOSE g : g = It(g)
           w == [r \in SUBSET {1} |-> IF r = {} THEN s ELSE Op(s, e)]
<1>1. Release(s, item) = k[DOMAIN s.from]
  BY DEF Release, FoldLeft, MapThenFoldSet
<1>2. DOMAIN s.from = {1} /\ s.from[1] = e
  OBVIOUS
<1>3. Max({1}) = 1
  BY DEF Max
<1> HIDE DEF Op
<1>4. \A r \in SUBSET {1} : r = {} \/ (r = {1} /\ r \ {1} = {})
  OBVIOUS
<1>5. k = It(k)
  <2>1. \A r \in SUBSET {1} : w[r] = IF r = {} THEN s ELSE Op(w[r \ {Max(r)}], s.from[Max(r)])
    BY <1>2, <1>3, <1>4
  <2>2. It(w) = [r \in SUBSET {1} |-> IF r = {} THEN s ELSE Op(w[r \ {Max(r)}], s.from[Max(r)])]
    BY <1>2
  <2>3. w = [r \in SUBSET {1} |-> w[r]]
    OBVIOUS
  <2> HIDE DEF w
  <2>4. w = It(w)
    BY <2>1, <2>2, <2>3
  <2> HIDE DEF It
  <2> QED BY <2>4
<1> HIDE DEF k, w
<1>6. k[{}] = s
  BY <1>2, <1>5
<1>7. k[{1}] = Op(k[{1} \ {Max({1})}], s.from[Max({1})])
  BY <1>2, <1>5
<1>8. k[{1}] = Op(s, e)
  BY <1>2, <1>3, <1>6, <1>7, {1} \ {1} = {}
<1> QED BY <1>1, <1>2, <1>8 DEF Op

\* One item of the order: all its units go from the copy to the robot, or none do.
Moves(s, t, name, q) ==
  \A other : LET moved == IF other = name THEN q ELSE 0
             IN /\ Units(t.to, other) = Units(s.to, other) + moved
                /\ Units(t.from, other) = Units(s.from, other) - moved

\* The robot keeps an entry of every item it has.
KeepsEntries(items, more) ==
  \A i \in DOMAIN items : i \in DOMAIN more /\ more[i].name = items[i].name

LEMMA ReleaseMoves ==
  ASSUME NEW s \in Hands, NamesOnce(s.to), NEW item, item.qty \in Int
  PROVE  /\ Release(s, item) \in Hands
         /\ NamesOnce(Release(s, item).to)
         /\ KeepsEntries(s.to, Release(s, item).to)
         /\ Release(s, item) = s \/ Moves(s, Release(s, item), item.name, item.qty)
<1> DEFINE q == item.qty
           t == Release(s, item)
<1>1. s = [from |-> s.from, to |-> s.to] /\ s.from \in Copies /\ s.to \in Seq(Entries)
  BY DEF Hands
<1>2. CASE t = s
  BY <1>2 DEF KeepsEntries
<1>3. CASE t # s
  <2>1. PICK e \in Entries : s.from = <<e>> /\ e.qty \in Nat
    BY <1>1, <1>3, ReleaseFromNone DEF Copies
  <2>2. /\ e.name = item.name /\ e.qty >= q
        /\ t = [from |-> IF e.qty = q THEN <<>> ELSE <<[e EXCEPT !.qty = e.qty - q]>>,
                to |-> Received(s.to, e, q)]
    <3>1. t = IF e.name = item.name THEN MoveItem(<<e>>, s.to, item.name, q) ELSE s
      BY <2>1, ReleaseFromOne
    <3>2. MoveItem(<<e>>, s.to, item.name, q)
            = IF e.name = item.name /\ e.qty >= q
              THEN [from |-> IF e.qty = q THEN <<>> ELSE <<[e EXCEPT !.qty = e.qty - q]>>,
                    to |-> Received(s.to, e, q)]
              ELSE [from |-> <<e>>, to |-> s.to]
      BY MoveFromOne
    <3>3. [from |-> <<e>>, to |-> s.to] = s
      BY <1>1, <2>1
    <3> HIDE DEF t, q
    <3>4. e.name = item.name
      BY <1>3, <3>1
    <3>5. e.qty >= q
      BY <1>3, <3>1, <3>2, <3>3
    <3> QED BY <3>1, <3>2, <3>4, <3>5
  <2> DEFINE rest == [e EXCEPT !.qty = e.qty - q]
             from == IF e.qty = q THEN <<>> ELSE <<rest>>
             to == Received(s.to, e, q)
  <2>3. t = [from |-> from, to |-> to] /\ t.from = from /\ t.to = to
    BY <2>2
  <2>4. rest \in Entries /\ rest.qty = e.qty - q /\ rest.qty \in Nat /\ rest.name = e.name
    BY <2>1, <2>2 DEF Entries
  <2>5. from \in Copies
    BY <2>4 DEF Copies
  <2>6. /\ to \in Seq(Entries) /\ NamesOnce(to) /\ KeepsEntries(s.to, to)
        /\ Units(to, e.name) = Units(s.to, e.name) + q
        /\ \A other : other # e.name => Units(to, other) = Units(s.to, other)
    <3>1. s.to \in Seq(Entries) /\ NamesOnce(s.to) /\ q \in Int
      BY <1>1
    <3> HIDE DEF q, t, rest, from
    <3>2. /\ to \in Seq(Entries) /\ NamesOnce(to)
          /\ \A i \in DOMAIN s.to : i \in DOMAIN to /\ to[i].name = s.to[i].name
      BY <3>1, UnitsReceived
    <3>3. /\ Units(to, e.name) = Units(s.to, e.name) + q
          /\ \A other : other # e.name => Units(to, other) = Units(s.to, other)
      BY <3>1, UnitsReceived
    <3> QED BY <3>2, <3>3 DEF KeepsEntries
  <2>7. ASSUME NEW other
        PROVE  /\ other = e.name => Units(from, other) = Units(s.from, other) - q
               /\ other # e.name => Units(from, other) = Units(s.from, other)
    <3>1. ASSUME NEW f, f.name # other PROVE Units(<<f>>, other) = 0
      <4>1. \A j \in DOMAIN <<f>> : <<f>>[j].name # other
        BY <3>1
      <4> QED BY <4>1, UnitsOfNone
    <3>2. Units(<<>>, other) = 0
      BY UnitsOfNone
    <3>3. ASSUME NEW f, f.qty \in Int, f.name = other PROVE Units(<<f>>, other) = f.qty
      BY <3>3, UnitsOfOne
    <3> HIDE DEF rest
    <3>4. CASE other = e.name
      <4>1. Units(s.from, other) = e.qty
        BY <2>1, <3>3, <3>4
      <4>2. Units(from, other) = e.qty - q
        BY <2>1, <2>4, <3>2, <3>3, <3>4
      <4> QED BY <3>4, <4>1, <4>2
    <3>5. CASE other # e.name
      <4>1. Units(s.from, other) = 0
        BY <2>1, <3>1, <3>5
      <4>2. Units(from, other) = 0
        BY <2>4, <3>1, <3>2, <3>5
      <4> QED BY <3>5, <4>1, <4>2
    <3> QED BY <3>4, <3>5
  <2> HIDE DEF from, to, t, q
  <2>8. t \in Hands
    BY <2>3, <2>5, <2>6 DEF Hands
  <2>9. Moves(s, t, item.name, q)
    <3>1. ASSUME NEW other PROVE Units(s.to, other) \in Int /\ Units(s.from, other) \in Int
      BY <1>1, UnitsInt, UnitsOfCopy
    <3> QED BY <2>2, <2>3, <2>6, <2>7, <3>1 DEF Moves
  <2> QED BY <2>3, <2>6, <2>8, <2>9 DEF t, q
<1> QED BY <1>2, <1>3

\* A copy and what the robot holds, each item once.
Tidy == {s \in Hands : NamesOnce(s.to)}

\* An order as the robot takes it.
IsOrder(order) == /\ Len(order) \in Nat /\ DOMAIN order = 1..Len(order)
                  /\ \A j \in DOMAIN order : order[j].qty \in Int

\* The items of the order are taken in turn.
InTurn(h, order, b) ==
  h[0] = b /\ \A k \in 1..Len(order) : h[k] = Release(h[k - 1], order[k])

LEMMA PickedInTurn ==
  ASSUME NEW order, IsOrder(order), NEW shelf, NEW hold,
         NEW b \in Tidy, b = [from |-> shelf.inventory, to |-> hold]
  PROVE  \E h : InTurn(h, order, b) /\ Picked(order, shelf, hold) = h[Len(order)].to
<1> DEFINE n == Len(order)
           S == 1..n
           step == [k \in S |-> [d \in Tidy |-> Release(d, order[k])]]
           ch == [s \in SUBSET S |-> Max(s)]
           It(g) == [s \in SUBSET (DOMAIN order) |->
                       IF s = {} THEN b ELSE Release(g[s \ {Max(s)}], order[Max(s)])]
           f == CHOOSE g : g = It(g)
<1>1. n \in Nat /\ DOMAIN order = S /\ \A j \in S : order[j].qty \in Int
  BY DEF IsOrder
<1>2. \A s \in SUBSET S : s # {} => Max(s) \in s
  BY <1>1, LastPlace
<1>3. Picked(order, shelf, hold) = f[DOMAIN order].to
  BY DEF Picked, FoldLeft, MapThenFoldSet
<1>4. f = It(f)
  <2>1. step \in [S -> [Tidy -> Tidy]]
    <3>1. ASSUME NEW k \in S, NEW d \in Tidy PROVE Release(d, order[k]) \in Tidy
      <4>1. d \in Hands /\ NamesOnce(d.to) /\ order[k].qty \in Int
        BY <1>1 DEF Tidy
      <4>2. Release(d, order[k]) \in Hands /\ NamesOnce(Release(d, order[k]).to)
        BY <4>1, ReleaseMoves
      <4> QED BY <4>2 DEF Tidy
    <3> HIDE DEF S
    <3> QED BY <3>1
  <2>2. Chooses(S, ch)
    BY <1>1, <1>2, PlacesFinite DEF Chooses
  <2> HIDE DEF step, ch, S
  <2>3. PICK g \in [SUBSET S -> Tidy] : IsFold(g, b, step, ch, S)
    BY <2>1, <2>2, FoldExists, Zenon
  <2>4. \A s \in SUBSET S : g[s] = IF s = {} THEN b ELSE Release(g[s \ {Max(s)}], order[Max(s)])
    <3>1. ASSUME NEW s \in SUBSET S, s # {}
          PROVE  g[s] = Release(g[s \ {Max(s)}], order[Max(s)])
      <4>1. ch[s] = Max(s) /\ Max(s) \in S /\ s \ {Max(s)} \in SUBSET S
        BY <1>2, <3>1 DEF ch
      <4>2. g[s \ {Max(s)}] \in Tidy
        BY <4>1
      <4>3. g[s] = step[Max(s)][g[s \ {Max(s)}]]
        BY <2>3, <3>1, <4>1 DEF IsFold
      <4> QED BY <4>1, <4>2, <4>3 DEF step
    <3>2. g[{}] = b
      BY <2>3 DEF IsFold
    <3> QED BY <3>1, <3>2
  <2>5. g = It(g)
    <3>1. g = [s \in SUBSET S |-> g[s]]
      OBVIOUS
    <3>2. It(g) = [s \in SUBSET S |-> IF s = {} THEN b ELSE Release(g[s \ {Max(s)}], order[Max(s)])]
      BY <1>1
    <3> HIDE DEF It
    <3> QED BY <2>4, <3>1, <3>2
  <2> HIDE DEF It
  <2> QED BY <2>5
<1> HIDE DEF f
<1>5. \A s \in SUBSET S : f[s] = IF s = {} THEN b ELSE Release(f[s \ {Max(s)}], order[Max(s)])
  BY <1>1, <1>4
<1> DEFINE h == [k \in 0..n |-> f[1..k]]
<1>6. h[0] = b
  <2>1. 1..0 = {} /\ 0 \in 0..n /\ {} \in SUBSET S
    BY <1>1
  <2> HIDE DEF S
  <2>2. f[{}] = b
    BY <1>5, <2>1
  <2> QED BY <2>1, <2>2
<1>7. ASSUME NEW k \in 1..n PROVE h[k] = Release(h[k - 1], order[k])
  <2>1. /\ k \in 0..n /\ k - 1 \in 0..n /\ 1..k \in SUBSET S /\ k \in 1..k
        /\ \A i \in 1..k : i <= k
    BY <1>1
  <2>2. (1..k) \ {k} = 1..(k - 1)
    BY <1>1
  <2>3. Max(1..k) = k
    BY <1>1, <2>1, LastPlace
  <2> HIDE DEF S
  <2>4. f[1..k] = Release(f[(1..k) \ {k}], order[k])
    BY <1>5, <2>1, <2>3
  <2> QED BY <2>1, <2>2, <2>4
<1>8. h[n] = f[S]
  BY <1>1
<1> HIDE DEF h
<1> QED BY <1>1, <1>3, <1>6, <1>7, <1>8 DEF InTurn

\* The quantities of some of an order's entries.
Asked(order, js) == Total([j \in js |-> order[j].qty])

LEMMA AskedMore ==
  ASSUME NEW order, IsOrder(order), NEW k \in 1..Len(order), NEW js \in SUBSET (1..(k - 1))
  PROVE  /\ Asked(order, js) \in Int
         /\ Asked(order, js \cup {k}) = Asked(order, js) + order[k].qty
<1> DEFINE f == [j \in js |-> order[j].qty]
           h == [j \in js \cup {k} |-> order[j].qty]
<1>1. /\ Len(order) \in Nat /\ \A j \in 1..Len(order) : order[j].qty \in Int
      /\ k - 1 \in Nat /\ k \notin js /\ \A j \in js \cup {k} : j \in 1..Len(order)
  BY DEF IsOrder
<1>2. IsFiniteSet(js)
  BY <1>1, PlacesFinite, FS_Subset
<1>3. /\ f \in [js -> Int] /\ h \in [js \cup {k} -> Int] /\ h[k] = order[k].qty
      /\ \A j \in js : h[j] = f[j]
  BY <1>1
<1>4. Asked(order, js) = Total(f) /\ Asked(order, js \cup {k}) = Total(h)
  BY DEF Asked
<1> HIDE DEF f, h
<1>5. Total(f) \in Int
  BY <1>2, <1>3, SumInt
<1>6. Total(h) = Total(f) + h[k]
  <2>1. Total(h) = Total([j \in js |-> h[j]]) + h[k]
    BY <1>1, <1>2, <1>3, SumOfMore
  <2>2. [j \in js |-> h[j]] = f
    BY <1>3
  <2> QED BY <2>1, <2>2
<1> QED BY <1>3, <1>4, <1>5, <1>6

\* The entries of an item.
EntriesOf(order, name) == {j \in DOMAIN order : order[j].name = name}

\* What has been taken for the first k entries of the order: the robot has more by
\* the units of some of them, each whole, and the copy of the shelf less by as many.
TakenOf(b, s, order, k) ==
  /\ s \in Tidy
  /\ KeepsEntries(b.to, s.to)
  /\ \A name :
       /\ Units(s.to, name) + Units(s.from, name) = Units(b.to, name) + Units(b.from, name)
       /\ \E js \in SUBSET (EntriesOf(order, name) \cap 1..k) :
            Units(s.to, name) = Units(b.to, name) + Asked(order, js)

LEMMA TakenNone ==
  ASSUME NEW b \in Tidy, NEW order
  PROVE  TakenOf(b, b, order, 0)
<1>1. KeepsEntries(b.to, b.to)
  BY DEF KeepsEntries
<1>2. ASSUME NEW name
      PROVE  \E js \in SUBSET (EntriesOf(order, name) \cap 1..0) :
               Units(b.to, name) = Units(b.to, name) + Asked(order, js)
  <2>1. Asked(order, {}) = 0
    <3>1. [j \in {} |-> order[j].qty] \in [{} -> Int]
      OBVIOUS
    <3> QED BY <3>1, SumEmpty DEF Asked
  <2>2. Units(b.to, name) \in Int
    BY UnitsInt DEF Tidy, Hands
  <2>3. Units(b.to, name) = Units(b.to, name) + Asked(order, {})
    BY <2>1, <2>2
  <2> QED BY <2>3
<1> QED BY <1>1, <1>2 DEF TakenOf

LEMMA TakenNext ==
  ASSUME NEW order, IsOrder(order), NEW k \in 1..Len(order), NEW b \in Tidy, NEW s,
         TakenOf(b, s, order, k - 1)
  PROVE  TakenOf(b, Release(s, order[k]), order, k)
<1> DEFINE t == Release(s, order[k])
           q == order[k].qty
<1>1. /\ s \in Hands /\ NamesOnce(s.to) /\ order[k].qty \in Int /\ Len(order) \in Nat
      /\ DOMAIN order = 1..Len(order)
  BY DEF TakenOf, Tidy, IsOrder
<1>2. /\ t \in Tidy /\ KeepsEntries(s.to, t.to)
      /\ t = s \/ Moves(s, t, order[k].name, q)
  BY <1>1, ReleaseMoves DEF Tidy
<1> HIDE DEF t
<1>3. KeepsEntries(b.to, t.to)
  BY <1>2 DEF KeepsEntries, TakenOf
<1>4. ASSUME NEW name
      PROVE  /\ Units(t.to, name) + Units(t.from, name) = Units(b.to, name) + Units(b.from, name)
             /\ \E js \in SUBSET (EntriesOf(order, name) \cap 1..k) :
                  Units(t.to, name) = Units(b.to, name) + Asked(order, js)
  <2>1. PICK js \in SUBSET (EntriesOf(order, name) \cap 1..(k - 1)) :
          Units(s.to, name) = Units(b.to, name) + Asked(order, js)
    BY DEF TakenOf
  <2>2. Units(s.to, name) + Units(s.from, name) = Units(b.to, name) + Units(b.from, name)
    BY DEF TakenOf
  <2>3. js \in SUBSET (1..(k - 1)) /\ js \in SUBSET (EntriesOf(order, name) \cap 1..k)
    BY <1>1, <2>1
  <2>4. CASE t = s \/ name # order[k].name
    <3>1. Units(t.to, name) = Units(s.to, name) /\ Units(t.from, name) = Units(s.from, name)
      <4>1. CASE t = s
        BY <4>1
      <4>2. CASE t # s
        <5>1. Units(t.to, name) = Units(s.to, name) + 0 /\ Units(t.from, name) = Units(s.from, name) - 0
          BY <1>2, <2>4, <4>2 DEF Moves
        <5>2. Units(s.to, name) \in Int /\ Units(s.from, name) \in Int
          BY <1>1, UnitsInt, UnitsOfCopy DEF Hands
        <5> QED BY <5>1, <5>2
      <4> QED BY <4>1, <4>2
    <3> QED BY <2>1, <2>2, <2>3, <3>1
  <2>5. CASE t # s /\ name = order[k].name
    <3>1. Units(t.to, name) = Units(s.to, name) + q /\ Units(t.from, name) = Units(s.from, name) - q
      BY <1>2, <2>5 DEF Moves
    <3>2. js \cup {k} \in SUBSET (EntriesOf(order, name) \cap 1..k)
      BY <1>1, <2>3, <2>5 DEF EntriesOf
    <3>3. Asked(order, js) \in Int /\ Asked(order, js \cup {k}) = Asked(order, js) + q
      BY <2>3, AskedMore
    <3>4. Units(s.to, name) \in Int /\ Units(s.from, name) \in Int /\ Units(b.to, name) \in Int
      BY <1>1, UnitsInt, UnitsOfCopy DEF Hands, Tidy
    <3>5. Units(t.to, name) = Units(b.to, name) + Asked(order, js \cup {k})
      BY <1>1, <2>1, <3>1, <3>3, <3>4
    <3>6. Units(t.to, name) + Units(t.from, name) = Units(b.to, name) + Units(b.from, name)
      BY <1>1, <2>2, <3>1, <3>4
    <3> QED BY <3>2, <3>5, <3>6
  <2> QED BY <2>4, <2>5
<1> QED BY <1>2, <1>3, <1>4 DEF TakenOf, t

\* The whole order: each item by whole entries, and no more than is on the shelf.
LEMMA PickedTakes ==
  ASSUME NEW order, IsOrder(order), NEW shelf, shelf.inventory \in Copies,
         NEW hold \in Seq(Entries), NamesOnce(hold)
  PROVE  /\ Picked(order, shelf, hold) \in Seq(Entries)
         /\ NamesOnce(Picked(order, shelf, hold))
         /\ KeepsEntries(hold, Picked(order, shelf, hold))
         /\ \A name : LET taken == Units(Picked(order, shelf, hold), name) - Units(hold, name)
                      IN /\ \E js \in SUBSET EntriesOf(order, name) : taken = Asked(order, js)
                         /\ taken <= Units(shelf.inventory, name)
<1> DEFINE n == Len(order)
           b == [from |-> shelf.inventory, to |-> hold]
           p == Picked(order, shelf, hold)
<1>1. b \in Tidy /\ b.from = shelf.inventory /\ b.to = hold
  BY DEF Tidy, Hands
<1>2. n \in Nat /\ DOMAIN order = 1..n
  BY DEF IsOrder
<1>3. PICK h : InTurn(h, order, b) /\ p = h[n].to
  BY <1>1, PickedInTurn
<1> USE DEF InTurn
<1> HIDE DEF b, p
<1> DEFINE F == {k \in 0..n : ~ TakenOf(b, h[k], order, k)}
<1>4. F = {}
  <2> SUFFICES ASSUME F # {} PROVE FALSE
    OBVIOUS
  <2>1. F \in SUBSET Nat
    BY <1>2
  <2> HIDE DEF F
  <2>2. PICK k \in F : \A i \in F : k <= i
    BY <2>1, SmallestNumber
  <2> USE DEF F
  <2>3. k \in 0..n /\ ~ TakenOf(b, h[k], order, k)
    BY <2>2
  <2>4. k # 0
    BY <1>1, <1>3, <2>3, TakenNone
  <2>5. k \in 1..n /\ k - 1 \in 0..n /\ ~ (k <= k - 1)
    BY <1>2, <2>3, <2>4
  <2>6. TakenOf(b, h[k - 1], order, k - 1)
    BY <2>2, <2>5
  <2>7. TakenOf(b, Release(h[k - 1], order[k]), order, k)
    BY <1>1, <2>5, <2>6, TakenNext
  <2> QED BY <1>3, <2>3, <2>5, <2>7
<1>5. TakenOf(b, h[n], order, n)
  BY <1>2, <1>4
<1>6. p \in Seq(Entries) /\ NamesOnce(p) /\ KeepsEntries(hold, p) /\ h[n].from \in Copies
  BY <1>1, <1>3, <1>5 DEF TakenOf, Tidy, Hands
<1>7. ASSUME NEW name
      PROVE  /\ \E js \in SUBSET EntriesOf(order, name) :
                   Units(p, name) - Units(hold, name) = Asked(order, js)
             /\ Units(p, name) - Units(hold, name) <= Units(shelf.inventory, name)
  <2>1. PICK js \in SUBSET (EntriesOf(order, name) \cap 1..n) :
          Units(p, name) = Units(hold, name) + Asked(order, js)
    BY <1>1, <1>3, <1>5 DEF TakenOf
  <2>2. js \in SUBSET EntriesOf(order, name)
    BY <2>1
  <2>3. Units(p, name) + Units(h[n].from, name) = Units(hold, name) + Units(shelf.inventory, name)
    BY <1>1, <1>3, <1>5 DEF TakenOf
  <2>4. Units(p, name) \in Int /\ Units(hold, name) \in Int
    BY <1>6, UnitsInt
  <2>5. Units(h[n].from, name) \in Nat /\ Units(shelf.inventory, name) \in Nat
    BY <1>6, UnitsOfCopy
  <2>6. Asked(order, js) \in Int
    <3>1. \A j \in js : order[j].qty \in Int
      BY <1>2, <2>1 DEF IsOrder
    <3>2. IsFiniteSet(js)
      BY <1>2, <2>1, PlacesFinite, FS_Subset
    <3>3. [j \in js |-> order[j].qty] \in [js -> Int]
      BY <3>1
    <3> QED BY <3>2, <3>3, SumInt DEF Asked
  <2>7. Units(p, name) - Units(hold, name) = Asked(order, js)
    BY <2>1, <2>4, <2>6
  <2>8. Units(p, name) - Units(hold, name) <= Units(shelf.inventory, name)
    BY <2>3, <2>4, <2>5
  <2> QED BY <2>2, <2>7, <2>8
<1> QED BY <1>6, <1>7 DEF p

\* What a robot finds: one item of the inventory with all its units, or nothing.
LEMMA ShelvesAreCopies ==
  ASSUME LoadInv, Loaded
  PROVE  /\ \A k \in DOMAIN shelves : shelves[k].inventory \in Copies
         /\ DOMAIN shelves # {}
<1> DEFINE n == Len(shelves)
<1>1. /\ n \in Nat \ {0, 1} /\ DOMAIN shelves = 1..n /\ index \in 0..(n - 1)
      /\ Len(Stock) \in Nat /\ DOMAIN Stock = 1..Len(Stock) /\ index >= Len(Stock)
  BY StockFacts DEF LoadInv, Loaded
<1>2. /\ Len(Stock) < n /\ index <= Len(Stock)
      /\ \A k \in DOMAIN shelves : shelves[k].inventory = IF k <= index THEN <<Stock[k]>> ELSE <<>>
  <2> HIDE DEF n
  <2>1. Len(Stock) < n
    BY <1>1
  <2> QED BY <2>1 DEF LoadInv, n
<1> HIDE DEF n
<1>3. ASSUME NEW k \in DOMAIN Stock PROVE <<Stock[k]>> \in Copies
  <2>1. /\ Stock[k] \in [name : {Stock[k].name}, qty : Nat, weight : 0..MaxWeight]
        /\ Stock[k].name \in Names /\ MaxWeight \in Nat
    BY StockAssumption DEF Names
  <2>2. Stock[k] \in Entries /\ Stock[k].qty \in Nat
    BY <2>1 DEF Entries
  <2> QED BY <2>2 DEF Copies
<1>4. ASSUME NEW k \in DOMAIN shelves PROVE shelves[k].inventory \in Copies
  <2>1. CASE k <= index
    <3>1. k \in DOMAIN Stock
      BY <1>1, <1>2, <2>1
    <3> QED BY <1>2, <1>3, <2>1, <3>1
  <2>2. CASE ~ (k <= index)
    BY <1>2, <2>2 DEF Copies
  <2> QED BY <2>1, <2>2
<1> QED BY <1>1, <1>4

LEMMA FoundIsCopy ==
  ASSUME LoadInv, Loaded, NEW cell
  PROVE  /\ FindShelf(cell).inventory \in Copies
         /\ \A name : \E k \in DOMAIN shelves :
              Units(FindShelf(cell).inventory, name) <= Units(shelves[k].inventory, name)
<1> DEFINE found == {i \in DOMAIN shelves : shelves[i].at = <<cell[2], cell[1]>>}
<1>1. CASE found = {}
  <2>1. FindShelf(cell).inventory = <<>>
    BY <1>1 DEF FindShelf, EmptyShelf
  <2>2. ASSUME NEW name
        PROVE  \E k \in DOMAIN shelves :
                 Units(FindShelf(cell).inventory, name) <= Units(shelves[k].inventory, name)
    <3>1. PICK k \in DOMAIN shelves : shelves[k].inventory \in Copies
      BY ShelvesAreCopies
    <3>2. Units(shelves[k].inventory, name) \in Nat /\ Units(<<>>, name) = 0
      BY <3>1, UnitsOfCopy, UnitsOfNone
    <3> QED BY <2>1, <3>2
  <2> QED BY <2>1, <2>2 DEF Copies
<1>2. CASE found # {}
  <2>1. found \in SUBSET Nat
    BY DEF LoadInv
  <2>2. FindShelf(cell) = shelves[Min(found)]
    BY <1>2 DEF FindShelf
  <2> HIDE DEF found
  <2>3. PICK i \in found : \A k \in found : i <= k
    BY <1>2, <2>1, SmallestNumber
  <2>4. Min(found) \in found
    BY <2>3 DEF Min
  <2>5. Min(found) \in DOMAIN shelves
    BY <2>4 DEF found
  <2>6. shelves[Min(found)].inventory \in Copies
    BY <2>5, ShelvesAreCopies
  <2>7. \A name : Units(shelves[Min(found)].inventory, name) \in Nat
    BY <2>6, UnitsOfCopy
  <2>8. \A name : Units(shelves[Min(found)].inventory, name) <= Units(shelves[Min(found)].inventory, name)
    BY <2>7
  <2> QED BY <2>2, <2>5, <2>6, <2>8
<1> QED BY <1>1, <1>2

\* What the robot holds, and that it is full only with something of every item.
HoldInv ==
  /\ holding \in Seq(Entries) /\ NamesOnce(holding)
  /\ walks \in Seq(Orders)
  /\ walking => Loaded /\ walks # <<>>
  /\ FullHasAll

\* What one stop of the robot does to it.
LEMMA PickupTakes ==
  ASSUME HoldInv, LoadInv, walking, NEW cell, Pickup(cell)
  PROVE  /\ holding' \in Seq(Entries) /\ NamesOnce(holding')
         /\ KeepsEntries(holding, holding')
         /\ holding' # holding => TakesWhole
<1> DEFINE order == Last(walks)
<1>1. Loaded /\ order \in Orders /\ IsOrder(order)
  <2>1. walks \in Seq(Orders) /\ walks # <<>> /\ Loaded
    BY DEF HoldInv
  <2>2. order \in Orders
    BY <2>1 DEF Last
  <2> HIDE DEF order
  <2> QED BY <2>1, <2>2, OrdersAssumption DEF IsOrder
<1>2. CASE holding' = holding
  BY <1>2 DEF HoldInv, KeepsEntries
<1>3. CASE holding' # holding
  <2>1. PICK s : holding' = Picked(order, FindShelf(s), holding)
    BY <1>3 DEF Pickup
  <2> DEFINE shelf == FindShelf(s)
  <2>2. /\ shelf.inventory \in Copies
        /\ \A name : \E k \in DOMAIN shelves :
             Units(shelf.inventory, name) <= Units(shelves[k].inventory, name)
    BY <1>1, FoundIsCopy
  <2>3. holding \in Seq(Entries) /\ NamesOnce(holding)
    BY DEF HoldInv
  <2> HIDE DEF order, shelf
  <2>4. /\ Picked(order, shelf, holding) \in Seq(Entries)
        /\ NamesOnce(Picked(order, shelf, holding))
        /\ KeepsEntries(holding, Picked(order, shelf, holding))
        /\ \A name : LET taken == Units(Picked(order, shelf, holding), name) - Units(holding, name)
                     IN /\ \E js \in SUBSET EntriesOf(order, name) : taken = Asked(order, js)
                        /\ taken <= Units(shelf.inventory, name)
    BY <1>1, <2>2, <2>3, PickedTakes
  <2>5. holding' = Picked(order, shelf, holding)
    BY <2>1 DEF shelf
  <2>6. ASSUME NEW name
        PROVE  LET taken == Units(holding', name) - Units(holding, name)
               IN /\ \E js \in SUBSET EntriesOf(order, name) : taken = Asked(order, js)
                  /\ \E k \in DOMAIN shelves : taken <= Units(shelves[k].inventory, name)
    <3> DEFINE taken == Units(holding', name) - Units(holding, name)
    <3>1. (\E js \in SUBSET EntriesOf(order, name) : taken = Asked(order, js))
          /\ taken <= Units(shelf.inventory, name)
      BY <2>4, <2>5
    <3>2. taken \in Int
      BY <2>3, <2>4, <2>5, UnitsInt
    <3>3. PICK k \in DOMAIN shelves : Units(shelf.inventory, name) <= Units(shelves[k].inventory, name)
      BY <2>2
    <3>4. Units(shelf.inventory, name) \in Int /\ Units(shelves[k].inventory, name) \in Int
      BY <1>1, <2>2, ShelvesAreCopies, UnitsOfCopy
    <3> HIDE DEF taken
    <3>5. taken <= Units(shelves[k].inventory, name)
      BY <3>1, <3>2, <3>3, <3>4
    <3> QED BY <3>1, <3>5 DEF taken
  <2>7. TakesWhole
    BY <2>6 DEF TakesWhole, EntriesOf, Asked, order
  <2> QED BY <2>4, <2>5, <2>7
<1> QED BY <1>2, <1>3

LEMMA HoldInvInit == Init => HoldInv
<1> SUFFICES ASSUME Init PROVE HoldInv
  OBVIOUS
<1>1. holding = <<>> /\ walks = <<>> /\ walking = FALSE /\ isFull = FALSE
  BY DEF Init
<1> QED BY <1>1 DEF HoldInv, NamesOnce, FullHasAll

\* A robot that was full stays so: its entries stay, and the orders given.
LEMMA StaysFull ==
  ASSUME HoldInv, isFull, KeepsEntries(holding, holding'),
         \A w \in DOMAIN walks : w \in DOMAIN walks' /\ walks'[w] = walks[w]
  PROVE  FullHasAll'
<1>1. PICK w \in DOMAIN walks :
        \A item \in Range(walks[w]) : \E i \in DOMAIN holding : holding[i].name = item.name
  BY DEF HoldInv, FullHasAll
<1>2. \A item \in Range(walks'[w]) : \E i \in DOMAIN holding' : holding'[i].name = item.name
  BY <1>1 DEF KeepsEntries
<1> QED BY <1>1, <1>2 DEF FullHasAll

LEMMA HoldInvNext == HoldInv /\ LoadInv /\ [Next]_vars => HoldInv'
<1> SUFFICES ASSUME HoldInv, LoadInv, [Next]_vars PROVE HoldInv'
  OBVIOUS
<1>0. /\ holding \in Seq(Entries) /\ NamesOnce(holding) /\ walks \in Seq(Orders)
      /\ walking => Loaded /\ walks # <<>>
  BY DEF HoldInv
<1>1. CASE UNCHANGED <<holding, isFull>> /\ ~ (\E order \in Orders : Walk(order))
  <2>1. UNCHANGED walks /\ (walking' => walking) /\ (Loaded => Loaded')
    BY <1>1 DEF Next, StoreNext, Step, StepOut, Return, vars, Loaded
  <2> QED BY <1>0, <1>1, <2>1 DEF HoldInv, FullHasAll, NamesOnce
<1>2. ASSUME NEW order \in Orders, Walk(order) PROVE HoldInv'
  <2>1. /\ walks' = Append(walks, order) /\ UNCHANGED <<holding, isFull, index>> /\ Loaded
    BY <1>2 DEF Walk
  <2>2. /\ walks' \in Seq(Orders) /\ walks' # <<>>
        /\ \A w \in DOMAIN walks : w \in DOMAIN walks' /\ walks'[w] = walks[w]
    BY <1>0, <2>1
  <2>3. KeepsEntries(holding, holding')
    BY <2>1 DEF KeepsEntries
  <2>4. FullHasAll'
    <3>1. CASE isFull
      BY <2>2, <2>3, <3>1, StaysFull
    <3>2. CASE ~ isFull
      BY <2>1, <3>2 DEF FullHasAll
    <3> QED BY <3>1, <3>2
  <2> QED BY <1>0, <2>1, <2>2, <2>4 DEF HoldInv, NamesOnce, Loaded
<1>3. CASE Step
  <2>1. /\ walking /\ UNCHANGED <<walks, walking, index>>
        /\ isFull' = (isFull \/ (ShelfBeside(at') # {} /\ SameItems(Last(walks), holding')))
        /\ Pickup(at')
    BY <1>3 DEF Step, Pickup
  <2>2. /\ holding' \in Seq(Entries) /\ NamesOnce(holding')
        /\ KeepsEntries(holding, holding')
    BY <2>1, PickupTakes
  <2>3. FullHasAll'
    <3>1. CASE isFull
      BY <2>1, <2>2, <3>1, StaysFull
    <3>2. CASE ~ isFull'
      BY <3>2 DEF FullHasAll
    <3>3. CASE ~ isFull /\ isFull'
      <4> DEFINE w == Len(walks)
      <4>1. w \in DOMAIN walks /\ walks[w] = Last(walks) /\ walks[w] \in Orders
        BY <1>0, <2>1 DEF Last
      <4>2. SameItems(walks[w], holding')
        BY <2>1, <3>3, <4>1
      <4> HIDE DEF w
      <4>3. DOMAIN walks[w] = 1..Len(walks[w]) /\ DOMAIN holding' = 1..Len(holding')
        BY <2>2, <4>1, OrdersAssumption
      <4>4. \A item \in Range(walks[w]) : \E i \in DOMAIN holding' : holding'[i].name = item.name
        BY <4>2, <4>3 DEF SameItems, Range
      <4> QED BY <2>1, <4>1, <4>4 DEF FullHasAll
    <3> QED BY <3>1, <3>2, <3>3
  <2> QED BY <1>0, <2>1, <2>2, <2>3 DEF HoldInv, Loaded
<1>4. ASSUME ~ Step, ~ \E order \in Orders : Walk(order)
      PROVE  UNCHANGED <<holding, isFull>>
  BY <1>4 DEF Next, StoreNext, StepOut, Return, vars
<1> QED BY <1>1, <1>2, <1>3, <1>4

LEMMA StepsTakeWhole == HoldInv /\ LoadInv /\ [Next]_vars => [TakesWhole]_holding
<1> SUFFICES ASSUME HoldInv, LoadInv, [Next]_vars, holding' # holding PROVE TakesWhole
  OBVIOUS
<1>1. Step
  BY DEF Next, StoreNext, Walk, StepOut, Return, vars
<1>2. walking /\ Pickup(at')
  BY <1>1 DEF Step
<1> QED BY <1>2, PickupTakes

\* At each stop a robot takes whole entries of its order and no more than a shelf
\* has, and it is full only with something of every item of an order it was given.
THEOREM RobotTakesWhole == Spec => AllOrNothing
<1> DEFINE J == HoldInv /\ LoadInv
<1>1. Init => J
  BY HoldInvInit, LoadInvInit
<1>2. J /\ [Next]_vars => J'
  BY HoldInvNext, LoadInvNext
<1>3. J /\ [Next]_vars => [TakesWhole]_holding
  BY StepsTakeWhole
<1>4. J => FullHasAll
  BY DEF HoldInv
<1> QED BY <1>1, <1>2, <1>3, <1>4, PTL DEF Spec, AllOrNothing
================================================================================
