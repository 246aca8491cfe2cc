# Amazoom warehouse: TLA+ models

Formal models of the Amazoom warehouse (`src/`, C++): the warehouse computer, its
shoppers' clients, its delivery and restocking trucks, and the queues between its
threads. TLC checks the models on small instances; TLAPS proves the main safety
properties for every instance. Source lines below are relative to the repository.

## 1. The system

| Part | State | Operations | Talks to |
|---|---|---|---|
| User client (`src/userClient.cpp`) | cart | search, add, order, cancel, quit | a service thread, by one request and one response at a time over a socket |
| Order service (`warehouseComputer.cpp:66-213`), one thread per connection | the request it handles | the five requests | inventory, order list, pickup queue; the other service threads through the named mutex `Server_Mutex` |
| Inventory (`WarehouseInventory.h:84-246`) | available and on-hold units per item | `find`, `holdItem` | shared by the service threads |
| Order list (`WarehouseInventory.h:251-339`) | orders with number and status; next number | `addEntry`, `searchOrder`, `changeStatus` | service threads (under `Server_Mutex`), truck monitor and console (without) |
| Command queues (`PickupQueue.h`, `DeliveryTruckQueue.h`, `RestockingQueue.h`, `TruckQueue.h`) | a deque, a mutex, a semaphore | add, remove (polling) | computer and robots |
| Queue of completed orders (`DeliveryCompQueue.h`) | a deque, a mutex, a condition variable | add, remove (blocking) | robots to monitor |
| Truck monitor (`warehouseComputer.cpp:436-489`) | the dock it found | admit a truck, learn its type, command the robots | trucks by three named semaphores and shared memory, queues, order list |
| Trucks (`DeliveryTruck.cpp`, `RestockTruck.cpp`), one process each | the dock it has | announce, park, wait for its load, reset the dock, leave | the monitor; each other through the named mutex `truck_shared_mutex` |
| Robots (`Robot.h`) | position, items held | walk, pick, enter their place in shared memory | queues, layout, shared memory |
| Shelves, layout, loading (`Shelf.h`, `WarehouseObjects.h`, `Warehouse.h`, `warehouseComputer.cpp:315-433`) | shelves, docks, maze | `moveItem`, `storeItem`, `load_*`, `find*` | robots; start-up |
| Console (`warehouseComputer.cpp:216-306`), robot map (`WarehouseRobotsUI.cpp`) | none | look up, add a robot; draw | order list, inventory; shared memory |
| Library (`include/cpen333`) | named mutexes, semaphores, condition variables | | all of the above |

The snapshot is a work in progress, which decides what can be modelled:

- `warehouseComputer.cpp:261` calls a `Robot` constructor that `Robot.h` does not
  have, and the loop of `Robot::main` (line 381) runs only while `quit` is set, while
  `follow_path` (line 180) runs only while it is not. So no robot takes an order,
  nobody calls `addToDCQueue`, and nobody sets `isDone`, on which every truck waits.
  In `OrderDesk` and `TruckDock` robots are *external*: they do what the computer and
  the trucks wait for (`RobotsWork = TRUE`), or nothing (`RobotsWork = FALSE`, the
  program as it is). `Floor` calls `follow_path` as the loop would if it were entered;
  `RobotRoster` has the robot's thread as it runs, which is to enter its place and end.
- The monitor's `quit` is never set; the loops that test it are endless.
- The programs use Windows paths; the library has a Windows and a POSIX mutex that
  behave differently, and both are modelled (`Windows`).

What is hard: service threads whose requests interleave, and end with the mutex
locked; an order list and a pickup queue that are updated in two steps; the monitor
changing statuses without the mutex; clients and truck windows closed at any moment;
docks searched and taken without a lock, under the protection of a handshake of
three semaphores only; a semaphore notified outside the lock, a condition variable
notified outside its mutex; two queues that are stacks; a condition variable between
processes built from three counters and three locks; a ring shared by two sides that
have no lock in common; messages cut anywhere; a walk that depends on the layout.
`PROJECT.json` lists these hazards at their lines, with the properties that watch over
them.

## 2. The modules

| Module | Models | Abstract specification it implements |
|---|---|---|
| `OrderDesk` | clients, connections, service threads, inventory, order list, the way of an order to the delivery queue | `OrderBook`: requests that take effect one at a time |
| `TruckDock` | trucks, monitor, semaphores, shared dock flags | `DockYard`: a truck parks at a free dock, once, and leaves it free |
| `NamedMutex` | `cpen333::process::mutex`, for both: recursive and abandoned when its owner ends (Windows), a one-unit semaphore (POSIX) | |
| `CommandQueue` | the four command queues: adders and pollers, step by step | `OrderQueue`: a queue (or stack) with atomic operations |
| `CompletedQueue` | `DeliveryCompQueue`: a deque, a mutex, a condition variable | `OrderQueue` without its misses |
| `QueueThreads` | the threads and orders of the queues | |
| `ConditionBase` | `process::condition_base` (and `thread::event`): three counters, three locks | `WaitSet`: waiting threads, wakeups owed |
| `Messages` | the nine messages and their conversion to JSON and back | |
| `Wire` (EXTENDS `Messages`) | `JsonUserClientApi` over a socket, byte by byte | `Link`: messages arrive whole and in order until the connection ends |
| `RobotRoster` | the robots' numbers and places in shared memory: console, robots, viewer | |
| `RingFifo` | the ring fifo of the library, with a side for producers and one for consumers | `OrderQueue` without its misses |
| `SharedMutexFair` | `shared_mutex_fair` | `Batches`: one writer, a batch of readers, one writer, ... |
| `Shelves`, `Floor` | shelves and items as data; loading at start-up; a robot's walk and picking | |
| `Totals` | the sum of a function's values, for the properties that count | |
| `MC...` | instances for TLC | |
| `FiniteSums` | lemmas: sums over finite sets | |
| `OrderDeskProofs`, `TruckDockProofs`, `RobotRosterProofs`, `FloorProofs`, `WireProofs` | theorems about the module named | |
| `QueueProofs` | theorems about `CommandQueue` and `CompletedQueue` | |
| `LibraryProofs` | theorems about `ConditionBase`, `RingFifo`, `SharedMutexFair` | |

The modules meet where the code does. `OrderDesk` uses the pickup queue, and `TruckDock` the
queue of completed orders, as atomic FIFO queues: `CommandQueue` and `CompletedQueue` are
shown to implement those. A connection in `OrderDesk` delivers messages whole, in order, or
loses them with its end: `Wire` is shown to implement that, and that all arrive that are
shorter than 2^31 bytes, as all in `OrderDesk` are. `Sleep` in `TruckDock` is an atomic
release and sleep, and a notification wakes every waiter: `ConditionBase` is shown to
implement it when nobody waits with a timeout, which no truck does. `TruckDock` counts the
completed orders whose numbers `OrderDesk` follows from robot to monitor to delivery queue.

The definitions whose name begins like an action's and ends in `_NoLock`, `_Twice`,
... are mistakes, each marked so, which show that a property can fail; no
specification uses them.

### OrderDesk

One action per step another thread could see.

- A client is off, at its menu, waiting for a response, or gone. `Ask` sends a
  request and blocks the client, as `sendMessage` and `recvMessage` do. `Hear` is the
  response's arrival and the cart's update (`userClient.cpp:106-147`). What users type
  is a choice from `Queries`, `Quantities` and `CancelNums`; a query is the set of
  items its pattern matches, with an ID. `Die` closes the window: what was sent still
  arrives. What is sent to it is lost; or, on POSIX, it kills the computer (`Killed`):
  a reply is three writes (`JsonUserClientApi.h:157`, `:73`, `:74`), a write on a
  connection that its peer has reset raises SIGPIPE (`posix/socket.h:232`), and nothing
  handles it. With `down`, only the clients go on.
- A service thread opens the mutex, locks and unlocks it once (lines 68-70),
  receives *outside* the lock, locks, handles, unlocks, receives again. `Search` and
  `AddRefuse` are one step each: they read the inventory once. `holdItem` is two,
  the test (`AddTest`) and the change (`AddHold`), which may make `available` negative
  if somebody comes between; that nobody does is `OneThreadServes`, and the mistake
  `Acquire_NoLock` shows it is not assumed.
  An order is entered (`ConfirmEnter`), queued (`ConfirmQueue`) and answered
  (`SendReply`) in three steps; a cancellation is answered (`CancelCheck`) and then
  recorded (`CancelApply`), in the code's order, so that the monitor comes between.
  `CancelUnanswered` is the missing branch for `"LOADING"`. `Leave` covers both ways
  out of `service()`, with the mutex locked.
- `RobotPicks`, `MonitorTakes` and `MonitorLoads` move an order on. The last two are
  lines 478-480, without `Server_Mutex`.

### TruckDock

A truck's place is its program counter. The search for a free dock reads one dock
after the other and begins again (`Pass`, `Find`), and the write that takes it is a
step of its own (`Claim`): both are outside the lock in the code. The type is written
under the mutex; `Sleep` is the condition variable's wait, an atomic release; a
notification sends every waiter to lock again (`relock`). The reset of the three
flags is one step, because no other thread reads the earlier two of a dock that is
still occupied before its truck is done. `Lock` before the reset is the second lock
of a mutex already held (`CanLock` decides what that means). `DriveOff` is the key
press, before which the mutex is still held: it releases once and the process ends, which
abandons a mutex that was locked twice. `Die`, of the trucks in `Mortal`, leaves the dock
taken and the mutex as the platform leaves it. Delivery trucks announce themselves even before the
computer has initialised the shared memory, restocking trucks turn away.

The monitor polls, searches, grants, awaits `truck_ready`, reads the flag of *the dock
it found*, waits for a completed order if that says so, and sends a command. Its
start-up resets all docks. Semaphores are counts. The computer itself runs on: that
`OrderDesk` may kill it on POSIX is left out, and after it every truck waits for ever.

### CommandQueue, CompletedQueue

`add` locks, inserts and unlocks, then notifies; `remove` locks, tries the semaphore,
and pops or returns order -1. `Lifo` chooses `push_front` (`RestockingQueue`,
`TruckQueue`). A robot polls for ever. In `CompletedQueue` `remove` sleeps while the
deque is empty (`CompSleep` releases the mutex), is woken by a notification or for no
reason, and locks and tests again.

### ConditionBase

What is done under `unblock_lock_` is one action, unless the thread waits for the gate
(`block_lock_`) in there: then it is two, and `unblockLock` has its name between them.
`blocked`, `unblock` and `gone` are the code's counters. A waiter is at `enter` (before
the gate), `release`, `asleep` on `block_queue_`, `awake` or `late` (it timed out),
`drain` (the last one called, taking the signals of those that gave up), `relock`.
`Trim` is the overflow branch, at `GoneLimit` instead of half the largest `long`.
`Uses` says who waits with a timeout and which notifications are called.

### Messages, Wire

A JSON object is a record with the keys of `JsonConverter.h`, an array a sequence, an
empty vector the JSON null that it is in the code. The text of a JSON is as long as
`TextLength` says and is never looked into: two JSONs have different texts, and
`parse` is the inverse of `dump` up to the terminating zero, which is sent and counted.
The sender's three writes and the receiver's three reads are cut into pieces at every
place; `Break` ends the connection and loses what was on its way from any byte on.
The size has `Digits` digits of `Base` (4 and 256 in the code); in the instance 2 and
4, so that texts need one or two digits and several buffers of `readString`. The
receiver puts the digits together as an `int` (line 121) whose sign goes into the
`size_t`: `SizeOf` returns a size with the sign bit as one that is larger by what a
`size_t` has beyond the digits (`SizeWord`), and the receiver then swallows all that
follows. In the instance that is sizes of 8 and more, which the two order messages have.
On POSIX a failed write (`WriteFails`) is SIGPIPE and the end of the sender's process
(`OrderDesk`); for the receiver that is the same, a sender that sends nothing more.
`Place` is what a digit counts, the shift by 8 bits of lines 64-68 as often as it is
repeated. `AsNew` is what `JsonConverter` leaves of an entry: the units on hold and the
shelves do not cross.

### RobotRoster

Reads and writes of `nrobots` and of the two coordinates are steps of their own; the
console's `nrobots + 1` is a read and a write under the mutex, the robot's at its end
(`Robot.h:443`) a read and a write without it. The writes of `follow_path`
(`Robot.h:182-183`), also without it, are not there: no robot of the program gets that
far, and with them a move could be drawn half. `overtaken` is a history variable: some
increment was written over a newer one.

### RingFifo, SharedMutexFair

A push waits for room (`psem`), takes its slot and fills it under the producers'
mutex, and notifies `csem`; a pop likewise on its side. `Peek` takes a token of `csem`
and gives none back, as the code does; `peeked` counts them. In `SharedMutexFair` each
call is one step under `mutex_` up to its wait on `econd_`, and then steps of waking
and testing again. The timed locks and `try_lock_shared` are left out: a writer that
gives up leaves the readers it has sent to the next batch waiting for a writer that may
never come, and `try_lock_shared` does not count the reader it lets in.

### Shelves, Floor

`StoreItem` and `MoveItem` are the code's, its unmoved iterator included. `Init` is
`load_layout`, `findAllShelves` and `findStart`; each turn of the loop of
`load_warehouse` is a step. `Walk` calls `follow_path`; `Step` is a turn of its loop with
the whole of `pickup`; `StepOut` goes to the exit. A row and a column are a pair
`<<r, c>>`; the code indexes the maze by column and row. `FindShelf` has the code's
exchange of the two. The items a robot takes come from a copy of a shelf, so that
shelves do not change. When a shelf holds several entries, erasing one while the loop
of `pickup` walks over them is undefined; that does not happen, because the loader, where it
ends at all, leaves a shelf one entry at most (`ShelvesAreCopies`). `Release` is the inner
loop, over the entries of the copy, and `Picked` the outer one, over the order.

## 3. What the runs check

| Run | Instance | Distinct states | Shows |
|---|---|---|---|
| `desk_atomic` | Windows, 2 clients, 2 items with stock 2 and 1, quantities 1 and 2, 2 choices each, robots and monitor | 2 200 000 | `OneThreadServes`, `StockConserved`, `PromisesAreHeld`, `ResponsesMatch`, `ReceiptNamesOwnOrder`, refinement of `OrderBook` |
| `desk_answers` | POSIX, as above with quantity 1, robots and monitor, a computer that may be killed | 680 000 | `TypeOK`, `OrdersPassedOn`, `AnsweredUnlessStranded` |
| `dock_safety` | Windows, a delivery truck that may die and 3 restocking ones, 3 docks, 1 order, robots | 1 200 000 | the docks' safety properties, refinement of `DockYard`, `GateOpens` |
| `queues` | 2 adders, 2 removers, 2 orders for each queue; 3 waiters, 1 notifier | 18 000 | order and accounting of the queues, no lost wakeup, every order is taken; refinements of `OrderQueue` and `WaitSet`, `AllAreWoken` |
| `exchanges` | 10 messages of which 2 are sent, 2 bytes in flight; 3 robots, 4 places, 2 rounds of the viewer; a ring of 2 slots with 2 producers and 2 consumers; 3 readers, 2 writers | 190 000 | refinements of `Link`, `OrderQueue`, `Batches`; `MessagesArrive`, `NumbersUsable`, `DrawnWhole`, `SleepersHaveReason` |
| `floor` | both layouts of `data/` and one with two shelves, the 30 items of `data/inventory.json`, 5 orders, 2 walks | 1 900 | loading, the walk, what a robot takes |
| six `violation` runs | | | the findings of section 5 |

A behaviour of `queues` or of `exchanges` is one of one of its parts, which share no
variable; the other parts rest.

**Order service.** `OneThreadServes`: no two threads are between a request's receipt
and its answer. `StockConserved`: whatever users type, negative quantities included,
units only move between available and on hold, and no more than there are, although
`holdItem` changes what it has tested a step before. `PromisesAreHeld`: the units in all
carts, sent orders and entered orders together are on hold, so no two clients are
promised the same unit; the runs have quantities >= 0, without which it is false.
`OrdersPassedOn`: orders get consecutive numbers and reach the robots once each, in
that order, although list and queue have different locks. `ResponsesMatch`: a client,
which casts what it receives, gets a response of the type it asked for and never a
second one. `ReceiptNamesOwnOrder`: the number a client is told is that of its own
order. `ImplementsOrderBook`: each request takes effect at one moment between its
sending and its answer, the purpose the comment at lines 77-80 gives the mutex. It
holds also while robots and the monitor, who ignore the mutex, pass orders on. What the
monitor can do in between is write "LOADING" where a thread has read "Confirmed" and
is about to write "Cancelled"; the list then reads as if the cancellation had come
first and the order had been loaded all the same, with or without a mark (`Load`).
`AnsweredUnlessStranded`: a request is answered unless a thread has ended with the
mutex locked, the request is to cancel an order being loaded, or, on POSIX, the reply to
another client, who has died, kills the computer.

**Docks.** `OneTruckParks`: a grant, a truck on its way, a ready token exclude each
other; the monitor leaves "await" only when none is left. `OneTruckPerDock`: no dock
is taken twice, although nothing is locked, and `isOccupied` is exactly right. A truck
killed between its grant and its "ready" leaves the monitor waiting for ever, so the
properties stay true there for lack of progress. `ArrivalsAccounted`: every truck at
the gate is backed by a token or by the monitor. `FlagMatchesTruck`: the flag of a dock
is that of the truck that stands there. `OneTruckHolds`: the trucks exclude each other
under the mutex, also when one dies in there. `GateOpens`: a truck at the gate gets in,
unless from some moment on (`GateBarred`) all docks are taken, or the monitor waits for
an order, or the truck it let in died before its "ready", or that truck waits for the mutex
while the owner does not go on to unlock it (`MutexKept`): one whose driver has not pressed
his key, or one that sleeps after it found the mutex abandoned, locked it twice and unlocked
it once. Free docks do not help in the last case: the truck writes its type under the mutex,
and the monitor admits nobody else before.

**Queues.** `TokensMatchOrders` and `SleepersAreOwed` account for every queued order:
by a token, an adder about to notify or the remover about to pop; by a wakeup under
way, as long as somebody sleeps. `ImplementsQueue` and `CompletedInOrder`: orders come
out once each in their order. `EveryOrderTaken`; `CallersServed`: no order waits while
its remover sleeps. The condition variable: `WaitersCounted` explains the counters,
`ImplementsWaitSet` says that a signal goes to a thread that waited before it (no
spurious wakeup, none stolen), `AllAreWoken` that `notify_all` reaches everybody. With
`notify_one` and timeouts in one program a signal can be spent on a thread that gives
up, which is why `Uses` has timeouts with `notify_all` only; nothing in the repository
mixes them.

**Exchanges.** `ImplementsLink`: messages arrive with every field in its place, in
order, and none is made up, however the stream is cut and wherever it breaks.
`MessagesArrive`: while the connection stands, all of them do, unless one has
2^31 bytes or more, whose size the receiver misreads; then nothing arrives any more, and
nothing false. `NumbersUsable`: the
robots that end count themselves a second time, so the k-th robot can have the number
2k - 1 and half of the 50 places are wasted, but no number is out of the array before,
and none is given twice as long as no increment was lost. `DrawnWhole`: the viewer
never draws half a move. `FifoInOrder`: a FIFO queue although the sides share no lock.
`ImplementsBatches`: readers and writers exclude each other and a reader is overtaken
by one writer at most; `SleepersHaveReason`: none of them is forgotten asleep.

**Floor.** `LoadingEnds`: the loader returns if and only if there are more shelves than
items, because its index goes back at the last shelf; `ShelfRules`: no shelf gets more
than its capacity (which the code counts per entry, not per unit), and what is loaded
is the file, each item in one place. `WalkEnds`, `EveryShelfPassed`: on both layouts the walk
reaches the exit and passes every shelf. `OnlyWayBackClosed`: the test of one coordinate
closes exactly the cell the robot comes from. `ReadsInside`: no test reads a negative
row or column. `AllOrNothing`: at each shelf, what a robot takes of an item is the quantity of
some of the order's entries, each whole, and no more than a shelf has, also for quantities
that are negative and for a robot that still holds what it took before; and it says that it
is full only with something of every item of an order it was given.

**Bounds.** Two clients reach every order of two requests at every step; the second choice
of each makes the sequences "add, order" and "order, cancel", and the stock of 2 and 1 is
exceeded both by one quantity and by two clients. The five queries are the cases `find`
distinguishes: by ID, by a name that matches one item, by a name that matches both, by a
name with a wrong ID, and nothing. 1001 is the first order and 1003 an unknown one.
`desk_unanswered` needs three clients: on Windows one leaves the mutex abandoned, one locks
it twice, one waits. Three docks for four trucks make trucks wait for one another and the
lowest free dock change, and are the fewest for a gate that is barred with a dock free: one
truck dies with the mutex, at its dock or after it, one sleeps as its owner, one blocks on
its way to the third dock and the fourth waits. The two findings at the docks need three
trucks and two docks. One truck may die: a second death leaves one more dock taken, or the
monitor waiting, as the first does, and with two trucks in `Mortal` TLC agrees. One order is enough for one delivery truck. Two threads
on each side of a queue compete for one lock, one token and one order; three waiters are a
called one, one that gives up and one that comes too late, and `GoneLimit` 2 makes `Trim`
happen. Ten messages are one of each kind, with empty and full lists; the second one sent
meets the rest of the first. With two digits of base 4 sizes are on both sides of the sign
bit, and 64 for `SizeWord` is more than all that two messages can make up for. Three robots
let two end while the third is added; the fourth place is never used (2 * 3 - 1 is 5, in the
array no more), so `NumbersUsable` meets its bound. Two slots and two threads on each side
fill, empty and wrap the ring. Two writers and three readers make both batches non-empty
while a writer waits. The walk's layouts and items are the real ones; a second walk starts
at the exit. `MaxQueued` bounds the adds in progress, `MaxAsks` the choices of a user,
`MaxPicked` the orders robots pick, `MaxSent`, `MaxAdded`, `MaxDraws` and `MaxWalks` what
their names say. All runs let the system stop (users run out of choices, trucks of visits,
nobody has to add an order).

**Fairness.** Threads and processes are scheduled: weak fairness for each service
thread, for a client that hears its response, for each truck, the monitor, the robots,
the two ends of a connection, the loader and the walk, and for a call of a queue that
has got the mutex. No fairness for what people do: users, drivers, closed windows; nor
for adders to start, for spurious wakeups, deadlines or broken connections. A thread
that waits for a mutex in `OrderDesk` or `TruckDock` is not overtaken for ever because
clients make finitely many choices and a truck's visit is finite. Where others come for
ever, a mutex or semaphore that is free again and again is got by a thread that wants it
(strong fairness): the polling robots' lock and the lock of a thread woken in
`cv_.wait`, one condition in `MCQueues` because only one of the two can be enabled, and
the steps inside `condition_base`. The system's locks do not starve a thread.

## 4. What is proved

TLAPS proves these for all values of the constants that satisfy the named assumptions,
which TLC evaluates on every run. They say that model values are distinct, that threads,
trucks, readers, writers and items are finitely many (needed for counting), and

- `InventoryAssumption`: the initial stock is natural, quantities and order numbers are
  integers, negative ones included;
- `NullAssumption`: the "nothing" of the model is no message and no order;
- `ConditionAssumption`: `GoneLimit`, half the largest `long` in the code, is positive;
- `LayoutsAssumption`: a layout has a start, an exit and two shelves or more (with fewer
  the loader's index leaves the vector: undefined); `StockAssumption`: the items have
  different names, none has fewer than no units and each fits an empty shelf, as those of
  `inventory.json` do; `OrdersAssumption`: orders have whole quantities, also negative ones;
- `WireAssumption`: no text is empty, and the size of each fits the digits (messages of
  2^32 bytes and more are excluded); all that is ever sent is less than a `size_t` has
  beyond the digits (2^64 - 2^32), or `size_t` has just the digits, as in a 32-bit build;
  `MailAssumption`: messages are made by their constructors.

`FiniteSums` is the ground of what counts units and signals. `Total` is a fold of the
community modules, so a `CHOOSE` of a function that satisfies a recursion; that there is
exactly one is proved first (`FoldExists` and `FoldsAgree`, for any step and any order of
the elements, and so for `FoldLeft` too). Induction over a set is not at hand as a rule (the library
states it for an operator parameter), but its contraposition is: a set of subsets of a
finite set has a smallest member, and what is minimal among the counterexamples is none.
From it come the sum of no values, of one more, of one value changed, the comparison of
two sums, and bounds. `WireProofs` uses the same argument over numbers.

`OrderDeskProofs`. `Inv` is `TypeOK /\ MessageInv /\ MutexInv /\ StockConserved /\
HoldInv /\ RequestsInv /\ NumbersInv /\ PipelineInv`, inductive as a whole.
`MessageInv` says that a thread or a client that goes on with a message has one, of
the type that place needs; without it no handler keeps `TypeOK`. `MutexInv` says that
a thread where the code holds the mutex owns it, at least once. It holds for both
mutexes: an abandoned one, or one locked twice, has one owner all the same. It implies
`OneThreadServes`. `StockConserved` needs only the test of `holdItem`, and so holds
for negative quantities; that the test still holds when the quantities change is
`HoldInv`, which `OneThreadServes` keeps: nobody else is there to change them. `RequestsInv`: a client's request is in one place only, on the
way, in its thread's hands or answered, and the answer on its way is of its type and, if
it names an order, names one of the list with the items asked for. `ResponsesMatch` and
`ReceiptNamesOwnOrder` are that, seen from the client. `NumbersInv`: an order's number is
its position in the list. `PipelineInv`: pickup queue, robots, monitor and delivery queue
together hold the numbers of the list in order, but for the last one while a thread is
between `addEntry` and the pickup queue; there is one such thread, by the mutex. That is
`OrdersPassedOn`.

`PromisesAreKept` (for finitely many clients and quantities in `Nat`) strengthens
`PromisesAreHeld` to `HeldInv`: for each item, the sum over the clients of what each may
count on, plus what the entered orders say, is at most `onHold`. What a client may count
on is its cart, or the order it has sent, or units that are on hold and that it has not
heard of yet (`Pending`): without these last the invariant would not survive `Hear`. Every
step moves units from one summand to another of the same client, or to the list, or gives
them up. `NoDebtInv`: with quantities in `Nat` no cart and no message has fewer than none.

`ServiceIsAtomic` proves the refinement of `OrderBook`, whether robots work or not.
`BookInv` adds to `Inv` that the order being entered is the last of the list, as its
thread's reply says. That the monitor leaves this order alone follows from `PipelineInv`:
the order it loads is the one behind those on trucks (`LoadingIs`), so it has been queued.
A request takes effect at `Search`, `AddHold`, `AddRefuse`, `ConfirmQueue`, `CancelCheck`,
or where a cancellation is refused or dropped; the order list without the entry that is not
yet queued, and with the order cancelled whose cancellation is answered, is the abstract
list. `HandedOnBook` has the steps of the others, `MonitorLoads` under a thread's hands
among them.

`TruckDockProofs`. `Inv` is `DockInv /\ MutexInv /\ FreeDockInv /\ FlagMatchesTruck /\
ArrivalsAccounted`, where `DockInv` is `TypeOK /\ StartInv /\ OneTruckParks /\
OneTruckPerDock`. `StartInv` says that no truck gets past the gate before the monitor
has started, which then may reset all docks. The parts need each other:
`OneTruckPerDock` is not inductive alone, since `Claim` is safe only because no other
truck is between its search and its claim, which is the handshake, `OneTruckParks`;
`FlagMatchesTruck` needs that a free dock has no flag (`FreeDockInv`), and that the
truck that resets a dock is the only one there. `NoLostArrival` counts the trucks at the
gate with cardinality lemmas. `DocksImplementYard` follows: `Claim` is the abstract
`Park`; the reset, the turning away of a restocking truck and the death of a truck
without a dock are `Leave`; all else stutters, also the death of a truck at a dock,
because its wreck keeps the dock.

`QueueProofs`, command queues. `Inv` is `TypeOK /\ CommandInv /\ MutexInv /\
TokensMatchOrders`; `CommandInv` says that an adder about to insert has a real order.
`TokensMatchOrders` is inductive only with `MutexInv`: that at most one remover is about to
pop needs the lock, and that the pop finds an order follows from the count. From it come
`NoEmptyPop` and the refinement `QueueImplementsOrderQueue`, for both disciplines:
`AddPush` is the abstract insertion, `AddNotify` the return, and a miss of the
semaphore is a miss of orders whose add is still running. Queue of completed orders:
`CompInv` adds to types and mutual exclusion the account
`SleepersAreOwed`. It is kept by `CompNotify` because the notifier's claim passes to the
thread it wakes, or nobody sleeps; by `CompSleep` because the deque is empty; by `CompPop`
because an order goes with the remover that was owed. `CompletedQueueIsFifo` follows as
for the command queues.

`LibraryProofs`, the fair shared mutex. `SmInv`: `shared[b]` is the number of readers
registered for batch
`b`, `etotal` that of the writers waiting or inside, at most one writer is inside and then
no reader of the present batch, and `SleepersHaveReason`. The sleepers' reasons are kept
because whoever could end one calls `notify_all`. `RefinesBatches` maps a reader that is
registered but has not noticed yet to one that is inside.

`LibraryProofs`, the condition variable. `CvInv` says that the gate is closed while
somebody is being called or drains the signals left behind (`GateInv`), who waits for the
gate with `unblock_lock_` and what it has found (`HolderInv`), and for the three counters
the account `WaitersCounted`. The signals that several notifiers have still to post are a sum,
`FiniteSums`. `WaitersAreCounted` holds in a use without timeouts or without `notify_one`
(`Unmixed`): a thread that gives up after `notify_one` has chosen it is subtracted twice or
leaves its signal to the next, so in a mixed use the counters are really off; TLC finds such a
behaviour when `Uses` has a mixed use. In every use without timeouts `WaitSetIsImplemented`: a notification chooses
among those that wait, and as many wake.

`LibraryProofs`, the ring. `FifoInv`: the mutex of each side belongs to the thread between
its steps there; every slot is accounted for by a token of one of the semaphores or by a
thread on its way from one to the other, or lost to `Peek`; and the index of one side is
where the items end that begin at the index of the other, modulo the size (`IndexInv`).
That the slots are counted across two sides that share no lock is what lets `PushWrite`
touch no slot with an item. From it `FifoIsInOrder` for every size of the ring.

`RobotRosterProofs`. `RosterInv` bounds `nrobots`, and every value that somebody has read
and not yet written, by the number of increments made (`Bounded`), which is at most one
per robot added and one per robot ended; it also says that the count is exact as long as
nothing was overtaken, from which the numbers are distinct. Who is inside the mutex is
there alone (`OneInside`), from which nothing is drawn half.

`FloorProofs`. `WayBack`: while a robot walks, the previous cell is its own or one beside
it; then the comparison of one coordinate is a comparison of cells. `ShelvesAreRight`:
`LoadInv` says that a shelf's weight is the sum over its entries and within the capacity,
for any inventory and however often the loader goes round; and when there are more shelves
than items, that the first `index` shelves have one item each and the others none, from
which the sum over all shelves of an item's units is what the file says.
`LoaderNeverDone` is the other half: with as many items as shelves the index stays below
their number, so the loop does not end and no robot is sent out.

`ReadsAreInside` is proved for every layout that is `Fenced`: around each path cell there are
cells on all sides, around the start too, or on the sides tried before the first path cell.
That it needs a condition is the point: the code has no test, and a path cell in row or
column 0 makes it read outside the array. `FencesAssumption` has TLC evaluate the condition for
the layouts of the repository. The invariant `Stands` says that a robot that walks stands on a
path cell or on the start with no cell before it.

`RobotTakesWhole` proves `AllOrNothing` through the two loops of `pickup`, one fold inside the
other. The inner one goes over an entry or none (`ReleaseFromOne`, `ReleaseFromNone`), and gives
`Moves`: all units asked for change sides, or none do (`ReleaseMoves`). For the outer one
`PickedInTurn` gives the states between the entries of the order, and `TakenOf` is the
invariant of the loop: the robot has more by the quantities of some of the entries met so far,
the copy of the shelf has less by as many, and never fewer than none, which bounds the gain.
`HoldInv` carries it from stop to stop: the robot holds one entry per item (`NamesOnce`, without
which `moveItem` would add the units to two) and no item is ever taken from it.

`WireProofs`. `WireInv` says that there is a *tape*, the frames of all messages sent one
after the other, of which three pieces in a row are what the receiver has read of the present
field, what is on its way, and what the sender's writes have still to hand over. It is
stated with the tape, the places where the frames end and the places where the sender's
buffers begin as existential quantifiers: a write or a read of any number of bytes only
moves bytes from one piece to the next, a break only ends the second piece earlier (and
the third is nobody's business any more), and a message sent makes the tape longer. At the
end of a field the receiver has exactly that field of the frame: the indicator; a size; a
text with its zero, which only one JSON has. The size read is the one written, because the
digits of a number, each times its place, add up to it (`LastDigits`: the last k digits make
the number modulo the k-th place), or, when it has the sign bit, one larger than all that is
ever sent (`SizeRead`): then the receiver never sees the end of the text, and swallowing
what comes makes up no message. `MessageBack` says for each of the nine
kinds that parsing undoes the conversion, but for what `AsNew` leaves out. So
`MessagesArriveInOrder`: delivery happens only at the last block, of the next message sent,
and all else stutters or is the end.

Only model-checked. Liveness (`EveryOrderTaken`, `CallersServed`, `AllAreWoken`,
`MessagesArrive`, `AnsweredUnlessStranded`, `GateOpens`, `LoadingEnds`, `WalkEnds`), which
TLAPS cannot do. `EveryShelfPassed` holds of the layouts of the repository, and not of every
one: a shelf away from the path is passed by nobody. That a walk is over because it has met
each shelf is a computation on the given layout, which TLC does on the real files.

## 5. Findings

Each is a violation run whose property quotes the code or its comments.

- `desk_unanswered`: a client that quits leaves `Server_Mutex` locked
  (`warehouseComputer.cpp:196`). On POSIX nobody is served again; on Windows the next
  thread gets an abandoned mutex, locks it a second time (`windows/mutex.h:70`) and
  keeps it while it waits for its client.
- `desk_cancel_unknown`: cancelling an order that does not exist succeeds (line 177).
- `desk_cancel_delivered`: a cancelled order is delivered (line 180).
- `dock_misread`: the monitor reads the flag of a dock where no truck stands (line 477).
- `dock_leave`: on POSIX a truck that is done blocks on itself (`DeliveryTruck.cpp:65`).
- `floor_order`: a robot walks past the shelf that has its item, because `findShelf`
  compares rows with columns (`Robot.h:241`).

The two dock findings, and `desk_cancel_delivered`, need robots that work.

Seen while modelling, without a run: two of the "queues" are stacks (`TruckQueue.h:62`,
`RestockingQueue.h:48`), which `CommandQueue` has as `Lifo` and its refinement is proved
for; `peek` of the fifo makes a later pop miss an item (`fifo.h:246`); a robot that ends
counts itself a second time (`Robot.h:443`); `moveItem` erases the first entry instead of
the one that ran out (`WarehouseObjects.h:156`), which is the same one as long as a shelf
has one entry; a weight is counted once per entry and not per unit (`Shelf.h:33`); the
comment on the format of a message says that its size is little endian
(`JsonUserClientApi.h:13`, and the example after it), while both sides write and read the most
significant byte first (`:62-70`, `:121`), so that a client written from the comment would
not be understood, which is the mistake `SizeBytes_Little`; a size of 2^31 or more is
read with its sign (`:121`); a reply to a client that has died can kill the
computer on POSIX (`posix/socket.h:232`), in `OrderDesk` the action `Killed`.

## 6. Not modelled, and why

- Data races on the order list and the inventory (the monitor or the console walks or
  copies while a thread writes): what such a read returns is undefined. `changeStatus`
  is one step.
- The loop of `Robot::main`, which is never entered; `moveToDock` and `placeItem`, which
  nothing calls.
- Restart of the computer with a POSIX mutex left over: the programs have one life.
- A pattern that makes `std::regex` throw: it ends the computer, on Windows too, and no
  client is answered any more. `AnsweredUnlessStranded` is about patterns that do not.
- The text of JSON, the opening of sockets, pipes, subprocesses, consoles, the Windows
  twins of the sockets and pipes, and the third-party JSON library, which is almost half
  of the repository's lines: input and output, or not the program's own.
- The rest of the course library (rendezvous, message queue, timer, other shared
  mutexes, timed locks): the warehouse does not use it.

`PROJECT.json` gives every component with its status.

## 7. Plan

1. The monitor's walk of the order list in steps with entries that move, and the console
   as a reader of the list; a restart of the computer on POSIX.
2. A composition of `OrderDesk` and `TruckDock` over one completed-orders queue.
3. The inside of `thread::semaphore`, implementing the counts used here.
4. Proofs: with plan item 2 the refinement of `OrderDesk`'s atomic queue by
   `CompletedQueue` in place.
