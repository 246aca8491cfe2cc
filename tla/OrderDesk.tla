------------------------------- MODULE OrderDesk -------------------------------
(***************************************************************************)
(* The order service of the warehouse computer (warehouseComputer.cpp,     *)
(* WarehouseInventory.h) and its clients (userClient.cpp).                  *)
(*                                                                         *)
(* Every connection has a service thread.  The threads share the inventory, *)
(* the order list and the pickup queue, and take turns with the named mutex *)
(* "Server_Mutex": a thread holds it from the receipt of a request to the   *)
(* answer, and releases it while it waits for the next request.  The robots *)
(* and the truck monitor use the pickup queue and the order list without    *)
(* that mutex.                                                              *)
(***************************************************************************)
EXTENDS NamedMutex, Integers, Sequences, FiniteSets, Totals

CONSTANTS
  Clients,     \* client programs; each has one connection
  Items,       \* the item IDs in the inventory
  NoItem,      \* an ID that is not in the inventory
  Stock,       \* what the inventory holds at the start
  Queries,     \* what users type: sets of items a name regex matches, and an ID
  Quantities,  \* quantities users type; nothing excludes negative ones
  CancelNums,  \* order numbers users type
  NoMsg, Eof, NoOrder,
  Absent,      \* the quantity of an item that is not in a cart
  RobotsWork,  \* FALSE: the program as it stands, where no robot runs
  MaxAsks      \* bound on the choices one user makes

ASSUME InventoryAssumption ==
  /\ IsFiniteSet(Items)
  /\ Stock \in [Items -> Nat]
  /\ NoItem \notin Items
  /\ Quantities \subseteq Int /\ CancelNums \subseteq Int
  /\ \A q \in Queries : q.match \subseteq Items /\ q.id \in Items \cup {NoItem}

ASSUME DeskAssumption ==
  /\ NoThread \notin Clients
  /\ RobotsWork \in BOOLEAN

VARIABLES
  cpc,         \* client: "off", "menu", "wait" (for a response) or "gone"
  cart,        \* client: its shopping cart, quantities by item
  asked,       \* client: its last request
  asks,        \* client: choices made so far (bound)
  req, resp,   \* the connection: the message in transit in each direction
  spc,         \* service thread: where it is
  msg, reply,  \* service thread: the request it handles, the reply it will send
  mutex,       \* Server_Mutex
  available, onHold,       \* inventory
  orders, orderID,         \* OrderList
  pickup, completed,       \* pickup queue; orders picked by a robot
  loading,                 \* truckMonitor's newOrder
  delivery,                \* orders in the delivery truck queue
  down                     \* the computer has been killed

client == <<cpc, cart, asked, asks>>
wire == <<req, resp>>
thread == <<spc, msg, reply>>
stock == <<available, onHold>>
list == <<orders, orderID>>
robots == <<completed, loading, delivery>>
state == <<client, wire, thread, mutex, stock, list, pickup, robots>>
vars == <<state, down>>

FirstOrder == 1001

Cart == [Items -> Int \cup {Absent}]
EmptyCart == [i \in Items |-> Absent]

Request ==
  [type : {"SEARCH"}, match : SUBSET Items, id : Items \cup {NoItem}]
    \cup [type : {"ADD"}, match : SUBSET Items, id : Items \cup {NoItem}, qty : Int]
    \cup [type : {"CONFIRM"}, items : Cart]
    \cup [type : {"CANCEL"}, num : Int]

Goodbye == [type |-> "GOODBYE"]

Response ==
  [type : {"SEARCH", "ADD"}, status : {"OK", "ERROR"}, results : SUBSET Items]
    \cup [type : {"CONFIRM"}, status : {"OK"}, num : Int]
    \cup [type : {"CANCEL"}, status : {"OK", "ERROR"}]

\* Nothing sent is a null message or the end of a connection, and no order
\* number is a null one.
ASSUME NullAssumption ==
  /\ NoMsg \notin Request \cup Response \cup {Goodbye, Eof}
  /\ Eof \notin Request \cup {Goodbye}
  /\ NoOrder \notin Int

Order == [num : Int, status : {"Confirmed", "Cancelled", "LOADING"}, items : Cart]

\* Places inside the loop of service() where Server_Mutex is held.
Serving == {"serve", "hold", "queue", "cancel", "reply", "unlock"}

StateOK ==
  /\ cpc \in [Clients -> {"off", "menu", "wait", "gone"}]
  /\ cart \in [Clients -> Cart]
  /\ asked \in [Clients -> Request \cup {NoMsg}]
  /\ asks \in [Clients -> Nat]
  /\ req \in [Clients -> Request \cup {Goodbye, NoMsg}]
  /\ resp \in [Clients -> Response \cup {NoMsg}]
  /\ spc \in [Clients -> Serving \cup {"none", "open", "first", "firstUnlock",
                                       "recv", "lock", "exit"}]
  /\ msg \in [Clients -> Request \cup {Goodbye, Eof, NoMsg}]
  /\ reply \in [Clients -> Response \cup {NoMsg}]
  /\ mutex \in MutexType(Clients)
  /\ available \in [Items -> Int] /\ onHold \in [Items -> Int]
  /\ orders \in Seq(Order) /\ orderID \in Int
  /\ pickup \in Seq(Int) /\ completed \in Seq(Int) /\ delivery \in Seq(Int)
  /\ loading \in Int \cup {NoOrder}

TypeOK == StateOK /\ down \in BOOLEAN

Init ==
  /\ cpc = [c \in Clients |-> "off"]
  /\ cart = [c \in Clients |-> EmptyCart]
  /\ asked = [c \in Clients |-> NoMsg]
  /\ asks = [c \in Clients |-> 0]
  /\ req = [c \in Clients |-> NoMsg]
  /\ resp = [c \in Clients |-> NoMsg]
  /\ spc = [c \in Clients |-> "none"]
  /\ msg = [c \in Clients |-> NoMsg]
  /\ reply = [c \in Clients |-> NoMsg]
  /\ mutex = Free
  /\ available = Stock
  /\ onHold = [i \in Items |-> 0]
  /\ orders = <<>>
  /\ orderID = FirstOrder
  /\ pickup = <<>> /\ completed = <<>> /\ delivery = <<>>
  /\ loading = NoOrder
  /\ down = FALSE

-------------------------------------------------------------------------------
(***************************************************************************)
(* userClient.cpp.  A user picks a menu entry; the client sends a request   *)
(* and blocks until it has the response.                                    *)
(***************************************************************************)
Connect(c) ==
  /\ cpc[c] = "off" /\ ~ down
  /\ cpc' = [cpc EXCEPT ![c] = "menu"]
  /\ spc' = [spc EXCEPT ![c] = "open"]   \* accept() starts the service thread
  /\ UNCHANGED <<cart, asked, asks, wire, msg, reply, mutex, stock, list, pickup, robots>>

Choose(c) == /\ cpc[c] = "menu"
             /\ asks[c] < MaxAsks
             /\ asks' = [asks EXCEPT ![c] = @ + 1]

Ask(c, r) == /\ Choose(c)
             /\ cpc' = [cpc EXCEPT ![c] = "wait"]
             /\ asked' = [asked EXCEPT ![c] = r]
             /\ req' = [req EXCEPT ![c] = r]
             /\ UNCHANGED <<resp, thread, mutex, stock, list, pickup, robots>>

DoSearch(c) == /\ \E q \in Queries :
                     Ask(c, [type |-> "SEARCH", match |-> q.match, id |-> q.id])
               /\ UNCHANGED cart

DoAdd(c) == /\ \E q \in Queries, n \in Quantities :
                  Ask(c, [type |-> "ADD", match |-> q.match, id |-> q.id, qty |-> n])
            /\ UNCHANGED cart

\* The user answers Y.  main() empties the cart when do_order returns; no one
\* reads it while the client waits for the response.
DoOrder(c) == /\ cart[c] # EmptyCart
              /\ Ask(c, [type |-> "CONFIRM", items |-> cart[c]])
              /\ cart' = [cart EXCEPT ![c] = EmptyCart]

\* The user answers anything else: nothing is sent, the cart is emptied all
\* the same, and what it reserved stays on hold.
DeclineOrder(c) ==
  /\ cart[c] # EmptyCart
  /\ Choose(c)
  /\ cart' = [cart EXCEPT ![c] = EmptyCart]
  /\ UNCHANGED <<cpc, asked, wire, thread, mutex, stock, list, pickup, robots>>

DoCancel(c) == /\ \E n \in CancelNums : Ask(c, [type |-> "CANCEL", num |-> n])
               /\ UNCHANGED cart

\* After a successful add: every item of the response is in the cart with the
\* quantity asked for, or has it added to what is there.
CartWith(k, results, n) ==
  [i \in Items |-> IF i \notin results THEN k[i]
                   ELSE IF k[i] = Absent THEN n ELSE k[i] + n]

Hear(c) ==
  /\ cpc[c] = "wait"
  /\ resp[c] # NoMsg
  /\ cart' = [cart EXCEPT ![c] =
                IF asked[c].type = "ADD" /\ resp[c].status = "OK"
                THEN CartWith(@, resp[c].results, asked[c].qty) ELSE @]
  /\ asked' = [asked EXCEPT ![c] = NoMsg]
  /\ resp' = [resp EXCEPT ![c] = NoMsg]
  /\ cpc' = [cpc EXCEPT ![c] = "menu"]
  /\ UNCHANGED <<asks, req, thread, mutex, stock, list, pickup, robots>>

DoQuit(c) ==
  /\ cpc[c] = "menu"
  /\ cpc' = [cpc EXCEPT ![c] = "gone"]
  /\ cart' = [cart EXCEPT ![c] = EmptyCart]
  /\ req' = [req EXCEPT ![c] = Goodbye]
  /\ UNCHANGED <<asked, asks, resp, thread, mutex, stock, list, pickup, robots>>

\* The client's window is closed, or the computer is gone and the client
\* dereferences the null message it receives: its memory is gone; what it has
\* sent arrives.
Die(c) ==
  /\ cpc[c] \in {"menu", "wait"}
  /\ cpc' = [cpc EXCEPT ![c] = "gone"]
  /\ cart' = [cart EXCEPT ![c] = EmptyCart]
  /\ asked' = [asked EXCEPT ![c] = NoMsg]
  /\ resp' = [resp EXCEPT ![c] = NoMsg]
  /\ UNCHANGED <<asks, req, thread, mutex, stock, list, pickup, robots>>

-------------------------------------------------------------------------------
(***************************************************************************)
(* service(), one thread per connection.                                   *)
(***************************************************************************)
\* Threads whose mutex object is open.
Attached == {c \in Clients : spc[c] \notin {"none", "open", "exit"}}

Goto(c, place) == spc' = [spc EXCEPT ![c] = place]

Open(c) ==
  /\ spc[c] = "open"
  /\ Goto(c, "first")
  /\ UNCHANGED <<client, wire, msg, reply, mutex, stock, list, pickup, robots>>

\* memLock locks the mutex in its constructor and unlocks it at once.
FirstLock(c) ==
  /\ spc[c] = "first"
  /\ CanLock(mutex, c)
  /\ mutex' = Locked(mutex, c)
  /\ Goto(c, "firstUnlock")
  /\ UNCHANGED <<client, wire, msg, reply, stock, list, pickup, robots>>

FirstUnlock(c) ==
  /\ spc[c] = "firstUnlock"
  /\ mutex' = Unlocked(mutex, c)
  /\ Goto(c, "recv")
  /\ UNCHANGED <<client, wire, msg, reply, stock, list, pickup, robots>>

\* recvMessage() blocks, outside the lock, until a request is there or the
\* connection is closed (nullptr).
Receive(c) ==
  /\ spc[c] = "recv"
  /\ \/ req[c] # NoMsg /\ msg' = [msg EXCEPT ![c] = req[c]]
     \/ req[c] = NoMsg /\ cpc[c] = "gone" /\ msg' = [msg EXCEPT ![c] = Eof]
  /\ req' = [req EXCEPT ![c] = NoMsg]
  /\ Goto(c, "lock")
  /\ UNCHANGED <<client, resp, reply, mutex, stock, list, pickup, robots>>

\* Mistake: the mutex is not locked after a request is received.
Acquire_NoLock(c) ==
  /\ spc[c] = "lock"
  /\ Goto(c, "serve")
  /\ UNCHANGED <<client, wire, msg, reply, mutex, stock, list, pickup, robots>>

Acquire(c) ==
  /\ spc[c] = "lock"
  /\ CanLock(mutex, c)
  /\ mutex' = Locked(mutex, c)
  /\ Goto(c, "serve")
  /\ UNCHANGED <<client, wire, msg, reply, stock, list, pickup, robots>>

Serves(c, type) == spc[c] = "serve" /\ msg[c] # Eof /\ msg[c].type = type

\* api.sendMessage; what is sent to a closed connection is lost, or, on POSIX,
\* kills the computer: see Killed.
Send(c, r) == resp' = [resp EXCEPT ![c] = IF cpc[c] = "wait" THEN r ELSE NoMsg]

\* WarehouseInventory::find: name matches the regex, or ID is equal.
Find(r) == r.match \cup ({r.id} \cap Items)

\* Mistake: no break at the end of the SEARCH case, so that ADD is run too.
Search_NoBreak(c) ==
  /\ Serves(c, "SEARCH")
  /\ Send(c, [type |-> "SEARCH", results |-> Find(msg[c]), status |-> "OK"])
  /\ reply' = [reply EXCEPT ![c] =
                 [type |-> "ADD", results |-> Find(msg[c]), status |-> "ERROR"]]
  /\ Goto(c, "reply")
  /\ UNCHANGED <<client, req, msg, mutex, stock, list, pickup, robots>>

Search(c) ==
  LET results == Find(msg[c]) IN
  /\ Serves(c, "SEARCH")
  /\ Send(c, [type |-> "SEARCH", results |-> results,
              status |-> IF results = {} THEN "ERROR" ELSE "OK"])
  /\ Goto(c, "unlock")
  /\ UNCHANGED <<client, req, msg, reply, mutex, stock, list, pickup, robots>>

\* find, then holdItem on the ID if exactly one item was found.  The response
\* is sent in a step of its own.
AddReply(c, status) ==
  /\ reply' = [reply EXCEPT ![c] =
                 [type |-> "ADD", results |-> Find(msg[c]), status |-> status]]
  /\ Goto(c, "reply")
  /\ UNCHANGED <<client, wire, msg, mutex, list, pickup, robots>>

\* The request r names one item, and there is enough of it.
Holdable(r) == Cardinality(Find(r)) = 1 /\ r.id \in Items /\ r.qty <= available[r.id]

\* holdItem compares, and changes the two quantities after that.
AddTest(c) ==
  /\ Serves(c, "ADD")
  /\ Holdable(msg[c])
  /\ Goto(c, "hold")
  /\ UNCHANGED <<client, wire, msg, reply, mutex, stock, list, pickup, robots>>

\* Mistake: a second add of an item replaces its hold instead of adding to it.
AddHold_Replace(c) ==
  LET r == msg[c] IN
  /\ spc[c] = "hold"
  /\ available' = [available EXCEPT ![r.id] = @ + onHold[r.id] - r.qty]
  /\ onHold' = [onHold EXCEPT ![r.id] = r.qty]
  /\ AddReply(c, "OK")

AddHold(c) ==
  LET r == msg[c] IN
  /\ spc[c] = "hold"
  /\ available' = [available EXCEPT ![r.id] = @ - r.qty]
  /\ onHold' = [onHold EXCEPT ![r.id] = @ + r.qty]
  /\ AddReply(c, "OK")

AddRefuse(c) ==
  /\ Serves(c, "ADD")
  /\ ~ Holdable(msg[c])
  /\ AddReply(c, "ERROR")
  /\ UNCHANGED stock

\* OrderList::addEntry, then the copy of the entry that goes to the robots.
\* Mistake: the entry is created without a status.
NewOrder_NoStatus(c) == [num |-> orderID, status |-> "", items |-> msg[c].items]

NewOrder(c) == [num |-> orderID, status |-> "Confirmed", items |-> msg[c].items]

\* Mistake: addEntry returns the ID after advancing it.
ConfirmEnter_NextID(c) ==
  /\ Serves(c, "CONFIRM")
  /\ orders' = Append(orders, NewOrder(c))
  /\ orderID' = orderID + 1
  /\ reply' = [reply EXCEPT ![c] = [type |-> "CONFIRM", num |-> orderID', status |-> "OK"]]
  /\ Goto(c, "queue")
  /\ UNCHANGED <<client, wire, msg, mutex, stock, pickup, robots>>

ConfirmEnter(c) ==
  /\ Serves(c, "CONFIRM")
  /\ orders' = Append(orders, NewOrder(c))
  /\ orderID' = orderID + 1
  /\ reply' = [reply EXCEPT ![c] = [type |-> "CONFIRM", num |-> orderID, status |-> "OK"]]
  /\ Goto(c, "queue")
  /\ UNCHANGED <<client, wire, msg, mutex, stock, pickup, robots>>

\* pick.addToPQueue(order)
ConfirmQueue(c) ==
  /\ spc[c] = "queue"
  /\ pickup' = Append(pickup, reply[c].num)
  /\ Goto(c, "reply")
  /\ UNCHANGED <<client, wire, msg, reply, mutex, stock, list, robots>>

SendReply(c) ==
  /\ spc[c] = "reply"
  /\ Send(c, reply[c])
  /\ reply' = [reply EXCEPT ![c] = NoMsg]
  /\ Goto(c, "unlock")
  /\ UNCHANGED <<client, req, msg, mutex, stock, list, pickup, robots>>

\* OrderList::searchOrder returns a copy; for a number it does not have, a new
\* entry numbered -1 whose status is the default, "Confirmed".
StatusOf(n) ==
  IF \E k \in DOMAIN orders : orders[k].num = n
  THEN orders[CHOOSE k \in DOMAIN orders : orders[k].num = n].status
  ELSE "Confirmed"

\* OrderList::changeStatus: nothing happens to a number it does not have.
ChangeStatus(n, s) ==
  orders' = [k \in DOMAIN orders |->
               IF orders[k].num = n THEN [orders[k] EXCEPT !.status = s] ELSE orders[k]]

\* The response is sent before the status is changed.
CancelCheck(c) ==
  /\ Serves(c, "CANCEL")
  /\ StatusOf(msg[c].num) = "Confirmed"
  /\ Send(c, [type |-> "CANCEL", status |-> "OK"])
  /\ Goto(c, "cancel")
  /\ UNCHANGED <<client, req, msg, reply, mutex, stock, list, pickup, robots>>

CancelApply(c) ==
  /\ spc[c] = "cancel"
  /\ ChangeStatus(msg[c].num, "Cancelled")
  /\ Goto(c, "unlock")
  /\ UNCHANGED <<client, wire, msg, reply, mutex, stock, orderID, pickup, robots>>

CancelTooLate(c) ==
  /\ Serves(c, "CANCEL")
  /\ StatusOf(msg[c].num) = "Cancelled"
  /\ Send(c, [type |-> "CANCEL", status |-> "ERROR"])
  /\ Goto(c, "unlock")
  /\ UNCHANGED <<client, req, msg, reply, mutex, stock, list, pickup, robots>>

\* No branch handles an order that is being loaded: no response is sent.
CancelUnanswered(c) ==
  /\ Serves(c, "CANCEL")
  /\ StatusOf(msg[c].num) = "LOADING"
  /\ Goto(c, "unlock")
  /\ UNCHANGED <<client, wire, msg, reply, mutex, stock, list, pickup, robots>>

\* Mistake: the mutex is not unlocked after the request.
Release_NoUnlock(c) ==
  /\ spc[c] = "unlock"
  /\ msg' = [msg EXCEPT ![c] = NoMsg]
  /\ Goto(c, "recv")
  /\ UNCHANGED <<client, wire, reply, mutex, stock, list, pickup, robots>>

\* The request is not looked at again.
Release(c) ==
  /\ spc[c] = "unlock"
  /\ mutex' = Unlocked(mutex, c)
  /\ msg' = [msg EXCEPT ![c] = NoMsg]
  /\ Goto(c, "recv")
  /\ UNCHANGED <<client, wire, reply, stock, list, pickup, robots>>

\* Both ways out of service(), the return at GOODBYE and the end of the loop at
\* nullptr, leave the mutex locked.
Leave(c) ==
  /\ spc[c] = "serve"
  /\ msg[c] = Eof \/ msg[c] = Goodbye
  /\ Goto(c, "exit")
  /\ mutex' = OwnerExits(mutex, c, Attached # {c})
  /\ msg' = [msg EXCEPT ![c] = NoMsg]
  /\ UNCHANGED <<client, wire, reply, stock, list, pickup, robots>>

-------------------------------------------------------------------------------
(***************************************************************************)
(* The other users of the pickup queue and the order list.  The robot that *)
(* warehouseComputer.cpp:261 creates, with the queue of completed orders    *)
(* among its arguments, is not in the repository; RobotPicks is what the    *)
(* computer expects of it.                                                  *)
(***************************************************************************)
RobotPicks ==
  /\ RobotsWork
  /\ pickup # <<>>
  /\ completed' = Append(completed, Head(pickup))
  /\ pickup' = Tail(pickup)
  /\ UNCHANGED <<client, wire, thread, mutex, stock, list, loading, delivery>>

\* truckMonitor with a delivery truck docked: removeFromDCQueue ...
MonitorTakes ==
  /\ loading = NoOrder
  /\ completed # <<>>
  /\ loading' = Head(completed)
  /\ completed' = Tail(completed)
  /\ UNCHANGED <<client, wire, thread, mutex, stock, list, pickup, delivery>>

\* ... then changeStatus, without Server_Mutex, and addToDTQueue.
MonitorLoads ==
  /\ loading # NoOrder
  /\ ChangeStatus(loading, "LOADING")
  /\ delivery' = Append(delivery, loading)
  /\ loading' = NoOrder
  /\ UNCHANGED <<client, wire, thread, mutex, stock, orderID, pickup, completed>>

-------------------------------------------------------------------------------
(***************************************************************************)
(* On POSIX, write() on a connection that its peer has reset raises         *)
(* SIGPIPE.  Nothing in the program handles or blocks it, so that a reply   *)
(* to a client that is gone, three writes, can kill the computer with all   *)
(* its threads: what they share is not read again.                          *)
(***************************************************************************)
\* Thread c is at a point where it sends a response.
Sending(c) ==
  \/ spc[c] = "reply"
  \/ Serves(c, "SEARCH")
  \/ Serves(c, "CANCEL") /\ StatusOf(msg[c].num) # "LOADING"

Killed(c) ==
  /\ ~ Windows /\ ~ down
  /\ cpc[c] = "gone" /\ Sending(c)
  /\ down' = TRUE
  /\ UNCHANGED state

-------------------------------------------------------------------------------
Client(c) ==
  \/ Connect(c) \/ DoSearch(c) \/ DoAdd(c) \/ DoOrder(c) \/ DeclineOrder(c)
  \/ DoCancel(c) \/ Hear(c) \/ DoQuit(c) \/ Die(c)

Handle(c) ==
  \/ Search(c) \/ AddTest(c) \/ AddHold(c) \/ AddRefuse(c)
  \/ ConfirmEnter(c) \/ ConfirmQueue(c) \/ SendReply(c)
  \/ CancelCheck(c) \/ CancelApply(c) \/ CancelTooLate(c) \/ CancelUnanswered(c)

Service(c) ==
  \/ Open(c) \/ FirstLock(c) \/ FirstUnlock(c) \/ Receive(c) \/ Acquire(c)
  \/ Handle(c) \/ Release(c) \/ Leave(c)

\* The computer runs.
Up == ~ down /\ UNCHANGED down

Next == \/ \E c \in Clients : Client(c) /\ UNCHANGED down
        \/ \E c \in Clients : Up /\ Service(c)
        \/ Up /\ RobotPicks
        \/ Up /\ MonitorTakes
        \/ Up /\ MonitorLoads
        \/ \E c \in Clients : Killed(c)

Spec == Init /\ [][Next]_vars

\* Threads are scheduled, and a client that has its response goes on.  Users
\* make finitely many choices here, so a thread that waits for a mutex that is
\* free again and again is not overtaken for ever and weak fairness will do.
Fairness ==
  \A c \in Clients : WF_vars(Up /\ Service(c)) /\ WF_vars(Hear(c) /\ UNCHANGED down)

FairSpec == Spec /\ Fairness

-------------------------------------------------------------------------------
(***************************************************************************)
(* Properties.                                                             *)
(***************************************************************************)
\* No two service threads are between the receipt of a request and its answer.
OneThreadServes ==
  \A c, d \in Clients : spc[c] \in Serving /\ spc[d] \in Serving => c = d

\* Whatever clients ask, in whatever order, and with whatever quantities:
\* units only move between available and on hold, and no more than there are.
StockConserved ==
  \A i \in Items : available[i] + onHold[i] = Stock[i] /\ available[i] >= 0

Units(k, i) == IF k[i] = Absent THEN 0 ELSE k[i]

\* Units of an item promised to client c: in its cart, or in an order it has
\* sent that is not yet in the order list.
Promised(c, i) ==
  Units(cart[c], i)
    + (IF req[c] # NoMsg /\ req[c].type = "CONFIRM" THEN Units(req[c].items, i) ELSE 0)
    + (IF spc[c] \in {"lock", "serve"} /\ msg[c] # Eof /\ msg[c].type = "CONFIRM"
       THEN Units(msg[c].items, i) ELSE 0)

\* Everything in a cart, in a sent order or in an entered order was reserved
\* first: no two clients are promised the same unit.  (For quantities >= 0.)
PromisesAreHeld ==
  \A i \in Items :
    Total([c \in Clients |-> Promised(c, i)])
      + Total([k \in DOMAIN orders |-> Units(orders[k].items, i)]) <= onHold[i]

\* The way of an order through the computer, oldest order first.
Pipeline ==
  delivery \o (IF loading = NoOrder THEN <<>> ELSE <<loading>>) \o completed \o pickup

\* Orders get consecutive numbers, and each is passed on to the robots once and
\* in the order of the numbers, although list and queue are two structures with
\* different locks.  The one order that may be missing is the last one, while
\* its thread is between the two.
OrdersPassedOn ==
  LET entering == {c \in Clients : spc[c] = "queue"} IN
  /\ orderID = FirstOrder + Len(orders)
  /\ \A k \in DOMAIN orders : orders[k].num = FirstOrder + k - 1
  /\ Pipeline = [k \in 1..(Len(orders) - Cardinality(entering)) |-> FirstOrder + k - 1]

\* A client casts what it receives to the response type it expects: there is
\* never a response it did not ask for, nor a second one behind it.
ResponsesMatch ==
  \A c \in Clients :
    /\ resp[c] # NoMsg => cpc[c] = "wait" /\ resp[c].type = asked[c].type
    /\ spc[c] = "reply" /\ cpc[c] = "wait" => resp[c] = NoMsg /\ reply[c].type = asked[c].type
    /\ cpc[c] = "menu" => req[c] = NoMsg /\ spc[c] \notin {"lock", "serve", "hold", "queue", "reply"}

\* The number a client is told is the number of the order it sent.
ReceiptNamesOwnOrder ==
  \A c \in Clients :
    resp[c] # NoMsg /\ resp[c].type = "CONFIRM" =>
      \E k \in DOMAIN orders : orders[k].num = resp[c].num /\ orders[k].items = asked[c].items

\* The mutex is held by a thread that will not release it before its client
\* speaks: by one that has ended (POSIX), or by one that locked an abandoned
\* mutex twice and waits for its next request (Windows).
Stranded ==
  \E c \in Clients : mutex.owner = c /\ spc[c] = IF Windows THEN "recv" ELSE "exit"

\* A client's request is answered, unless the mutex is stranded, the computer is
\* killed by a reply to another client (POSIX), or the request is to cancel an
\* order that is being loaded.
AnsweredUnlessStranded ==
  \A c \in Clients :
    cpc[c] = "wait" ~> \/ cpc[c] # "wait"
                       \/ Stranded \/ down
                       \/ asked[c].type = "CANCEL" /\ StatusOf(asked[c].num) = "LOADING"

\* "send message to server and wait for response" (userClient.cpp:104): every
\* request is answered.
Answered == \A c \in Clients : cpc[c] = "wait" ~> cpc[c] # "wait"

\* "Your order, order number ... has been succesfully cancelled"
\* (userClient.cpp:202): the order was there, and it is not delivered.
CancelAcknowledged(c) ==
  resp[c] # NoMsg /\ resp[c].type = "CANCEL" /\ resp[c].status = "OK"

CancelledOrderExists ==
  \A c \in Clients : CancelAcknowledged(c) =>
    \E k \in DOMAIN orders : orders[k].num = asked[c].num

CancelledNotDelivered ==
  \A k \in DOMAIN orders : orders[k].status = "Cancelled" =>
    \A j \in DOMAIN delivery : delivery[j] # orders[k].num

\* The service is atomic: seen from the clients, and from the robots and the
\* monitor that work meanwhile, OrderBook.  An order counts
\* once it is in the pickup queue, a cancellation once it is acknowledged.
BookOrders ==
  LET shown == Len(orders) - Cardinality({c \in Clients : spc[c] = "queue"}) IN
  [k \in 1..shown |->
     IF \E c \in Clients : spc[c] = "cancel" /\ msg[c].num = orders[k].num
     THEN [orders[k] EXCEPT !.status = "Cancelled"] ELSE orders[k]]

BookJob ==
  [c \in Clients |->
     IF req[c] # NoMsg /\ req[c] # Goodbye THEN req[c]
     ELSE IF spc[c] \in {"lock", "serve", "hold", "queue"} /\ msg[c] \in Request THEN msg[c]
     ELSE NoMsg]

BookAnswer == [c \in Clients |-> IF spc[c] = "reply" THEN reply[c] ELSE resp[c]]

Book == INSTANCE OrderBook WITH
  Requests <- Request, orders <- BookOrders, job <- BookJob, answer <- BookAnswer,
  loaded <- Len(delivery)

ImplementsOrderBook == Book!Spec
===============================================================================
