---------------------------- MODULE OrderDeskProofs ----------------------------
(***************************************************************************)
(* Proofs about OrderDesk, for any clients, any items, any quantities users *)
(* may type, negative ones included, and either build of the mutex.         *)
(***************************************************************************)
EXTENDS OrderDesk, FiniteSums, SequenceTheorems, FiniteSetTheorems, TLAPS

\* A step that the computer or a client makes: anything but a signal that kills
\* the computer, which changes nothing else.
Work == \/ \E c \in Clients : Client(c) \/ Service(c)
        \/ RobotPicks \/ MonitorTakes \/ MonitorLoads

\* A thread where the code holds Server_Mutex owns it.
MutexInv ==
  \A c \in Clients : spc[c] \in Serving \cup {"firstUnlock"} =>
    mutex.owner = c /\ mutex.count >= 1

\* A request to add that names one item.
OneItem(r) ==
  r \in Request /\ r.type = "ADD" /\ Cardinality(Find(r)) = 1 /\ r.id \in Items

\* What a thread or a client goes on with is there.
MessageInv ==
  \A c \in Clients :
    /\ cpc[c] = "wait" => asked[c] \in Request
    /\ spc[c] \in {"lock", "serve"} => msg[c] \in Request \cup {Goodbye, Eof}
    /\ spc[c] = "hold" => OneItem(msg[c])
    /\ spc[c] \in {"queue", "reply"} => reply[c] \in Response
    /\ spc[c] = "queue" => reply[c].type = "CONFIRM"

\* What holdItem has compared is still so when it changes the quantities.
HoldInv == \A c \in Clients : spc[c] = "hold" => msg[c].qty <= available[msg[c].id]

\* A response that answers request q: of its type, and if it names an order,
\* then one in the list l with the items of q.
Answers(l, r, q) ==
  /\ r.type = q.type
  /\ r.type = "CONFIRM" => \E k \in DOMAIN l : l[k].num = r.num /\ l[k].items = q.items

\* Places where a request is received and not yet answered.
Handling == {"lock", "serve", "hold", "queue", "reply"}

\* The last request of a client is in one place at most: on its way, in the
\* hands of the service thread, prepared as a reply, or answered.
RequestInv(c) ==
  /\ cpc[c] # "wait" => resp[c] = NoMsg
  /\ req[c] # NoMsg => spc[c] \notin Handling
  /\ cpc[c] = "off" => spc[c] = "none"
  /\ cpc[c] \in {"off", "menu"} => req[c] = NoMsg /\ spc[c] \notin Handling
  /\ cpc[c] = "wait" =>
       /\ req[c] # NoMsg => req[c] = asked[c] /\ resp[c] = NoMsg
       /\ spc[c] \in Handling => resp[c] = NoMsg
       /\ spc[c] \in {"lock", "serve", "hold"} => msg[c] = asked[c]
       /\ spc[c] \in {"queue", "reply"} => Answers(orders, reply[c], asked[c])
       /\ resp[c] # NoMsg => Answers(orders, resp[c], asked[c])

RequestsInv == \A c \in Clients : RequestInv(c)

\* Order numbers are the positions in the list, and the order whose number is
\* not in the pipeline yet is the last one, in the hands of its thread.
NumbersInv ==
  /\ orderID = FirstOrder + Len(orders)
  /\ \A k \in DOMAIN orders : orders[k].num = FirstOrder + k - 1
  /\ \A c \in Clients : spc[c] = "queue" => reply[c].num = FirstOrder + Len(orders) - 1 /\ Len(orders) > 0

\* The numbers of the first n orders.
Numbers(n) == [k \in 1..n |-> FirstOrder + k - 1]

PipelineInv ==
  Pipeline = Numbers(IF \E c \in Clients : spc[c] = "queue" THEN Len(orders) - 1 ELSE Len(orders))

Inv ==
  /\ StateOK /\ MessageInv /\ MutexInv /\ HoldInv /\ StockConserved
  /\ RequestsInv /\ NumbersInv /\ PipelineInv

-------------------------------------------------------------------------------
\* What the type of a message says about its other fields.
LEMMA RequestFields ==
  ASSUME NEW r \in Request \cup {Goodbye}
  PROVE  /\ r.type \in {"SEARCH", "ADD"} => r.match \in SUBSET Items /\ r.id \in Items \cup {NoItem}
         /\ r.type = "ADD" => r.qty \in Int
         /\ r.type = "CONFIRM" => r.items \in Cart
         /\ r.type = "CANCEL" => r.num \in Int
  BY DEF Request, Goodbye

LEMMA ConfirmResponse ==
  ASSUME NEW r \in Response, r.type = "CONFIRM"
  PROVE  r.num \in Int
  BY DEF Response

\* lock() and the end of a thread keep the type of the mutex; unlock() does if
\* the mutex is locked.
LEMMA MutexTypes ==
  ASSUME NEW T, NEW m \in MutexType(T), NEW t \in T, NEW s
  PROVE  /\ Free \in MutexType(T)
         /\ Locked(m, t) \in MutexType(T)
         /\ Locked(m, t).owner = t /\ Locked(m, t).count >= 1
         /\ m.count >= 1 => Unlocked(m, t) \in MutexType(T)
         /\ OwnerExits(m, t, s) \in MutexType(T)
<1> USE DEF MutexType
<1>1. Free \in MutexType(T) /\ OwnerExits(m, t, s) \in MutexType(T)
  BY DEF Free, OwnerExits
<1>2. /\ Locked(m, t) \in MutexType(T)
      /\ Locked(m, t).owner = t /\ Locked(m, t).count >= 1
  BY DEF Locked
<1>3. ASSUME m.count >= 1 PROVE Unlocked(m, t) \in MutexType(T)
  <2>1. m.count - 1 \in Nat /\ (IF m.count = 1 THEN NoThread ELSE m.owner) \in T \cup {NoThread}
    BY <1>3
  <2>2. [m EXCEPT !.count = m.count - 1, !.owner = IF m.count = 1 THEN NoThread ELSE m.owner]
          \in MutexType(T)
    BY <2>1
  <2> QED BY <2>2 DEF Unlocked
<1> QED BY <1>1, <1>2, <1>3

\* A change of status leaves a list of orders of the same length.
LEMMA ChangeStatusType ==
  ASSUME NEW n, NEW s \in {"Confirmed", "Cancelled", "LOADING"}, orders \in Seq(Order),
         ChangeStatus(n, s)
  PROVE  orders' \in Seq(Order) /\ Len(orders') = Len(orders)
<1>1. DOMAIN orders = 1..Len(orders) /\ Len(orders) \in Nat /\ orders \in [1..Len(orders) -> Order]
  BY LenProperties
<1>2. ASSUME NEW k \in DOMAIN orders
      PROVE  (IF orders[k].num = n THEN [orders[k] EXCEPT !.status = s] ELSE orders[k]) \in Order
  <2>1. orders[k] \in Order
    BY <1>1
  <2>2. [orders[k] EXCEPT !.status = s] \in Order
    BY <2>1 DEF Order
  <2> QED BY <2>1, <2>2
<1>3. orders' \in [1..Len(orders) -> Order]
  BY <1>1, <1>2 DEF ChangeStatus
<1>4. orders' \in Seq(Order)
  BY <1>1, <1>3, SeqDef
<1> QED BY <1>1, <1>3, <1>4

LEMMA QueueFacts ==
  ASSUME NEW S, NEW s \in Seq(S)
  PROVE  /\ \A e \in S : Append(s, e) \in Seq(S)
         /\ s # <<>> => Head(s) \in S /\ Tail(s) \in Seq(S)
  OBVIOUS

-------------------------------------------------------------------------------
LEMMA StepsWork == [Next]_vars => [Work]_state
  BY DEF Next, Work, vars, Up, Killed

LEMMA MutexInit == Init => MutexInv
  BY DEF Init, MutexInv, Serving

LEMMA MutexNext == StateOK /\ MutexInv /\ [Work]_state => MutexInv'
<1> SUFFICES ASSUME StateOK, MutexInv, [Work]_state PROVE MutexInv'
  OBVIOUS
<1>m. /\ mutex \in MutexType(Clients)
      /\ DOMAIN spc = Clients
      /\ \A c \in Clients : c # NoThread
  BY DeskAssumption DEF StateOK
<1> DEFINE Has(c) == spc[c] \in Serving \cup {"firstUnlock"}
<1>1. ASSUME NEW c \in Clients, Client(c) PROVE MutexInv'
  <2>1. mutex' = mutex /\ \A d \in Clients : spc'[d] \in Serving \cup {"firstUnlock"} => Has(d)
    BY <1>1, <1>m DEF Client, Connect, DoSearch, DoAdd, DoOrder, DeclineOrder, DoCancel, Ask, Choose,
       Hear, DoQuit, Die, thread, Serving
  <2> QED BY <2>1 DEF MutexInv
<1>2. ASSUME NEW c \in Clients, Open(c) \/ Receive(c) \/ Handle(c) PROVE MutexInv'
  <2>1. mutex' = mutex /\ \A d \in Clients : spc'[d] \in Serving \cup {"firstUnlock"} => Has(d)
    BY <1>2, <1>m DEF Open, Receive, Handle, Search, AddTest, AddHold, AddRefuse, AddReply, ConfirmEnter,
       ConfirmQueue, SendReply, CancelCheck, CancelApply, CancelTooLate, CancelUnanswered, Goto,
       Serves, Serving, thread
  <2> QED BY <2>1 DEF MutexInv
\* lock() returns only when no other thread holds the mutex.
<1>3. ASSUME NEW c \in Clients, FirstLock(c) \/ Acquire(c) PROVE MutexInv'
  <2>1. \A d \in Clients : d # c => ~ Has(d)
    BY <1>3, <1>m, PlatformAssumption DEF FirstLock, Acquire, CanLock, MutexType, MutexInv
  <2>2. mutex'.owner = c /\ mutex'.count >= 1
    BY <1>3, <1>m DEF FirstLock, Acquire, Locked, MutexType
  <2>3. \A d \in Clients : d # c => spc'[d] = spc[d]
    BY <1>3, <1>m DEF FirstLock, Acquire, Goto
  <2> QED BY <2>1, <2>2, <2>3 DEF MutexInv
<1>4. ASSUME NEW c \in Clients, FirstUnlock(c) \/ Release(c) \/ Leave(c) PROVE MutexInv'
  <2>1. \A d \in Clients : d # c => ~ Has(d)
    BY <1>4 DEF FirstUnlock, Release, Leave, Serving, MutexInv
  <2>2. spc'[c] \notin Serving \cup {"firstUnlock"} /\ \A d \in Clients : d # c => spc'[d] = spc[d]
    BY <1>4, <1>m DEF FirstUnlock, Release, Leave, Goto, Serving
  <2> QED BY <2>1, <2>2 DEF MutexInv
<1>5. ASSUME RobotPicks \/ MonitorTakes \/ MonitorLoads \/ UNCHANGED state PROVE MutexInv'
  BY <1>5 DEF RobotPicks, MonitorTakes, MonitorLoads, state, thread, MutexInv
<1> QED BY <1>1, <1>2, <1>3, <1>4, <1>5 DEF Work, Service

-------------------------------------------------------------------------------
LEMMA TypeInit == Init => StateOK /\ MessageInv
<1> SUFFICES ASSUME Init PROVE StateOK /\ MessageInv
  OBVIOUS
<1>1. mutex \in MutexType(Clients)
  BY DEF Init, Free, MutexType
<1>2. available \in [Items -> Int] /\ onHold \in [Items -> Int]
  BY InventoryAssumption DEF Init
<1>3. cart \in [Clients -> Cart]
  BY DEF Init, Cart, EmptyCart
<1>4. orders \in Seq(Order) /\ pickup \in Seq(Int) /\ completed \in Seq(Int) /\ delivery \in Seq(Int)
  BY DEF Init
<1>5. spc \in [Clients -> Serving \cup {"none", "open", "first", "firstUnlock", "recv", "lock", "exit"}]
  BY DEF Init
<1>6. StateOK
  BY <1>1, <1>2, <1>3, <1>4, <1>5 DEF Init, StateOK, FirstOrder
<1>7. MessageInv
  BY DEF Init, MessageInv
<1> QED BY <1>6, <1>7

\* The steps of a client.
LEMMA ClientTypes ==
  ASSUME StateOK, MessageInv, NEW c \in Clients, Client(c)
  PROVE  StateOK' /\ MessageInv'
<1>e. EmptyCart \in Cart
  BY DEF EmptyCart, Cart
<1>1. CASE Connect(c)
  BY <1>1 DEF Connect, StateOK, MessageInv, wire, stock, list, robots
\* Whatever is asked, it is a request.
<1>2. ASSUME NEW r \in Request, Ask(c, r), UNCHANGED cart \/ cart' = [cart EXCEPT ![c] = EmptyCart]
      PROVE  StateOK' /\ MessageInv'
  <2>1. cart' \in [Clients -> Cart]
    BY <1>2, <1>e DEF StateOK
  <2>4. /\ cpc' \in [Clients -> {"off", "menu", "wait", "gone"}]
        /\ asks' \in [Clients -> Nat]
    BY <1>2 DEF Ask, Choose, StateOK
  <2>5. /\ asked' \in [Clients -> Request \cup {NoMsg}]
        /\ req' \in [Clients -> Request \cup {Goodbye, NoMsg}]
    BY <1>2 DEF Ask, StateOK
  <2>2. StateOK'
    BY <1>2, <2>1, <2>4, <2>5 DEF Ask, StateOK, thread, stock, list, robots
  <2>3. MessageInv'
    BY <1>2 DEF Ask, Choose, StateOK, MessageInv, thread
  <2> QED BY <2>2, <2>3
<1>3. CASE DoSearch(c)
  <2>1. PICK q \in Queries : Ask(c, [type |-> "SEARCH", match |-> q.match, id |-> q.id])
    BY <1>3 DEF DoSearch
  <2>2. [type |-> "SEARCH", match |-> q.match, id |-> q.id] \in Request
    BY InventoryAssumption DEF Request
  <2> QED BY <1>2, <1>3, <2>1, <2>2 DEF DoSearch
<1>4. CASE DoAdd(c)
  <2>1. PICK q \in Queries, n \in Quantities :
          Ask(c, [type |-> "ADD", match |-> q.match, id |-> q.id, qty |-> n])
    BY <1>4 DEF DoAdd
  <2>2. [type |-> "ADD", match |-> q.match, id |-> q.id, qty |-> n] \in Request
    BY InventoryAssumption DEF Request
  <2> QED BY <1>2, <1>4, <2>1, <2>2 DEF DoAdd
<1>5. CASE DoOrder(c)
  <2>1. [type |-> "CONFIRM", items |-> cart[c]] \in Request
    BY DEF Request, StateOK
  <2> QED BY <1>2, <1>5, <2>1 DEF DoOrder
<1>6. CASE DoCancel(c)
  <2>1. PICK n \in CancelNums : Ask(c, [type |-> "CANCEL", num |-> n])
    BY <1>6 DEF DoCancel
  <2>2. [type |-> "CANCEL", num |-> n] \in Request
    BY InventoryAssumption DEF Request
  <2> QED BY <1>2, <1>6, <2>1, <2>2 DEF DoCancel
<1>7. CASE DeclineOrder(c)
  BY <1>7, <1>e DEF DeclineOrder, Choose, StateOK, MessageInv, wire, thread, stock, list, robots
<1>8. CASE Hear(c)
  <2>1. asked[c] \in Request /\ cart[c] \in Cart
    BY <1>8 DEF Hear, StateOK, MessageInv
  <2>2. asked[c].type = "ADD" => CartWith(cart[c], resp[c].results, asked[c].qty) \in Cart
    BY <2>1, RequestFields DEF CartWith, Cart
  <2>3. cart' \in [Clients -> Cart]
    BY <1>8, <2>1, <2>2 DEF Hear, StateOK
  <2> QED BY <1>8, <2>3 DEF Hear, StateOK, MessageInv, thread, stock, list, robots
<1>9. CASE DoQuit(c)
  BY <1>9, <1>e DEF DoQuit, StateOK, MessageInv, thread, stock, list, robots
<1>10. CASE Die(c)
  BY <1>10, <1>e DEF Die, StateOK, MessageInv, thread, stock, list, robots
<1> QED
  BY <1>1, <1>3, <1>4, <1>5, <1>6, <1>7, <1>8, <1>9, <1>10 DEF Client

-------------------------------------------------------------------------------
\* The steps of a service thread in the loop's frame: the mutex and the receipt
\* of a message.
LEMMA FrameTypes ==
  ASSUME StateOK, MessageInv, MutexInv, NEW c \in Clients,
         \/ Open(c) \/ FirstLock(c) \/ FirstUnlock(c) \/ Receive(c) \/ Acquire(c)
         \/ Release(c) \/ Leave(c)
  PROVE  StateOK' /\ MessageInv'
<1>m. mutex \in MutexType(Clients)
  BY DEF StateOK
<1>1. CASE Open(c)
  BY <1>1 DEF Open, Goto, StateOK, MessageInv, client, wire, stock, list, robots
<1>2. CASE FirstLock(c) \/ Acquire(c)
  <2>1. mutex' \in MutexType(Clients)
    BY <1>2, <1>m, MutexTypes DEF FirstLock, Acquire
  <2> QED BY <1>2, <2>1 DEF FirstLock, Acquire, Goto, StateOK, MessageInv, Serving, client, wire,
          stock, list, robots
<1>3. CASE FirstUnlock(c)
  <2>1. mutex.count >= 1
    BY <1>3 DEF FirstUnlock, MutexInv
  <2>2. mutex' \in MutexType(Clients)
    BY <1>3, <2>1, <1>m, MutexTypes DEF FirstUnlock
  <2> QED BY <1>3, <2>2 DEF FirstUnlock, Goto, StateOK, MessageInv, client, wire, stock, list, robots
<1>4. CASE Receive(c)
  <2>1. /\ msg' \in [Clients -> Request \cup {Goodbye, Eof, NoMsg}]
        /\ msg'[c] \in Request \cup {Goodbye, Eof}
    BY <1>4 DEF Receive, StateOK
  <2>2. req' \in [Clients -> Request \cup {Goodbye, NoMsg}]
    BY <1>4 DEF Receive, StateOK
  <2>3. \A d \in Clients : d # c => msg'[d] = msg[d]
    BY <1>4 DEF Receive, StateOK
  <2>4. StateOK'
    BY <1>4, <2>1, <2>2 DEF Receive, Goto, StateOK, client, stock, list, robots
  <2> QED BY <1>4, <2>1, <2>3, <2>4 DEF Receive, Goto, StateOK, MessageInv, client
<1>5. CASE Release(c)
  <2>1. mutex.count >= 1
    BY <1>5 DEF Release, MutexInv, Serving
  <2>2. mutex' \in MutexType(Clients)
    BY <1>5, <2>1, <1>m, MutexTypes DEF Release
  <2> QED BY <1>5, <2>2 DEF Release, Goto, StateOK, MessageInv, client, wire, stock, list, robots
<1>6. CASE Leave(c)
  <2>1. mutex' \in MutexType(Clients)
    BY <1>6, <1>m, MutexTypes DEF Leave
  <2> QED BY <1>6, <2>1 DEF Leave, Goto, StateOK, MessageInv, client, wire, stock, list, robots
<1> QED BY <1>1, <1>2, <1>3, <1>4, <1>5, <1>6

\* A message that is sent arrives or is lost; the response of another client
\* is not touched.
LEMMA SendType ==
  ASSUME StateOK, NEW c \in Clients, NEW r \in Response \cup {NoMsg}, Send(c, r)
  PROVE  resp' \in [Clients -> Response \cup {NoMsg}]
  BY DEF Send, StateOK

\* The reply that AddReply prepares is a response.
LEMMA AddReplyType ==
  ASSUME NEW r \in Request \cup {Goodbye}, r.type \in {"SEARCH", "ADD"}
  PROVE  /\ Find(r) \in SUBSET Items
         /\ \A t \in {"SEARCH", "ADD"}, s \in {"OK", "ERROR"} :
              [type |-> t, results |-> Find(r), status |-> s] \in Response
<1>1. Find(r) \in SUBSET Items
  BY RequestFields DEF Find
<1> QED BY <1>1 DEF Response

\* The steps that serve a request.
LEMMA HandleTypes ==
  ASSUME StateOK, MessageInv, NEW c \in Clients, Handle(c)
  PROVE  StateOK' /\ MessageInv'
<1>s. ASSUME NEW type, Serves(c, type)
      PROVE  msg[c] \in Request \cup {Goodbye} /\ msg[c].type = type
  BY <1>s DEF Serves, MessageInv
<1>1. CASE Search(c)
  <2>1. msg[c] \in Request \cup {Goodbye} /\ msg[c].type = "SEARCH"
    BY <1>1, <1>s DEF Search
  <2>2. PICK st \in {"OK", "ERROR"} : Send(c, [type |-> "SEARCH", results |-> Find(msg[c]), status |-> st])
    BY <1>1 DEF Search
  <2>3. resp' \in [Clients -> Response \cup {NoMsg}]
    BY <2>1, <2>2, AddReplyType, SendType
  <2> QED BY <1>1, <2>3 DEF Search, Goto, StateOK, MessageInv, Serving, client, stock, list, robots
<1>2. ASSUME NEW st \in {"OK", "ERROR"}, msg[c] \in Request \cup {Goodbye}, msg[c].type = "ADD",
             AddReply(c, st), available' \in [Items -> Int], onHold' \in [Items -> Int]
      PROVE  StateOK' /\ MessageInv'
  <2>1. [type |-> "ADD", results |-> Find(msg[c]), status |-> st] \in Response
    BY <1>2, AddReplyType
  <2>2. reply' \in [Clients -> Response \cup {NoMsg}] /\ reply'[c] \in Response
        /\ \A d \in Clients : d # c => reply'[d] = reply[d]
    BY <1>2, <2>1 DEF AddReply, StateOK
  <2>3. StateOK'
    BY <1>2, <2>2 DEF AddReply, Goto, StateOK, Serving, client, wire, list, robots
  <2> QED BY <1>2, <2>2, <2>3 DEF AddReply, Goto, StateOK, MessageInv, client
<1>3. CASE AddHold(c)
  <2>1. OneItem(msg[c]) /\ msg[c].qty \in Int
    BY <1>3, RequestFields DEF AddHold, MessageInv, OneItem
  <2>2. available' \in [Items -> Int] /\ onHold' \in [Items -> Int]
    <3> DEFINE item == msg[c].id
               n == msg[c].qty
    <3>1. /\ available' = [available EXCEPT ![item] = @ - n]
          /\ onHold' = [onHold EXCEPT ![item] = @ + n]
          /\ item \in Items /\ n \in Int
      BY <1>3, <2>1 DEF AddHold, OneItem
    <3> HIDE DEF item, n
    <3> QED BY <3>1 DEF StateOK
  <2> QED BY <1>2, <1>3, <2>1, <2>2 DEF AddHold, OneItem
<1>4. CASE AddRefuse(c)
  BY <1>2, <1>4, <1>s DEF AddRefuse, StateOK, stock
<1>11. CASE AddTest(c)
  <2>1. OneItem(msg[c])
    BY <1>11, <1>s DEF AddTest, Holdable, OneItem, Goodbye
  <2> QED BY <1>11, <2>1 DEF AddTest, Goto, StateOK, MessageInv, Serving, client, wire, stock, list, robots
<1>5. CASE ConfirmEnter(c)
  <2>1. NewOrder(c) \in Order
    BY <1>5, <1>s, RequestFields DEF ConfirmEnter, NewOrder, Order, StateOK
  <2>2. orders' \in Seq(Order) /\ orderID' \in Int
    BY <1>5, <2>1, QueueFacts DEF ConfirmEnter, StateOK
  <2>3. [type |-> "CONFIRM", num |-> orderID, status |-> "OK"] \in Response
    BY DEF Response, StateOK
  <2>4. /\ reply' \in [Clients -> Response \cup {NoMsg}]
        /\ reply'[c] \in Response /\ reply'[c].type = "CONFIRM"
        /\ \A d \in Clients : d # c => reply'[d] = reply[d]
    BY <1>5, <2>3 DEF ConfirmEnter, StateOK
  <2>5. StateOK'
    BY <1>5, <2>2, <2>4 DEF ConfirmEnter, Goto, StateOK, Serving, client, wire, stock, robots
  <2> QED BY <1>5, <2>4, <2>5 DEF ConfirmEnter, Goto, StateOK, MessageInv, client
<1>6. CASE ConfirmQueue(c)
  <2>1. reply[c].num \in Int
    BY <1>6, ConfirmResponse DEF ConfirmQueue, MessageInv
  <2>2. pickup' \in Seq(Int)
    BY <1>6, <2>1, QueueFacts DEF ConfirmQueue, StateOK
  <2> QED BY <1>6, <2>2 DEF ConfirmQueue, Goto, StateOK, MessageInv, Serving, client, wire, stock,
          list, robots
<1>7. CASE SendReply(c)
  <2>1. resp' \in [Clients -> Response \cup {NoMsg}]
    BY <1>7, SendType DEF SendReply, StateOK
  <2>2. reply' \in [Clients -> Response \cup {NoMsg}] /\ \A d \in Clients : d # c => reply'[d] = reply[d]
    BY <1>7 DEF SendReply, StateOK
  <2>3. StateOK'
    BY <1>7, <2>1, <2>2 DEF SendReply, Goto, StateOK, Serving, client, stock, list, robots
  <2> QED BY <1>7, <2>2, <2>3 DEF SendReply, Goto, StateOK, MessageInv, client
<1>8. CASE CancelCheck(c) \/ CancelTooLate(c)
  <2>1. PICK st \in {"OK", "ERROR"} : Send(c, [type |-> "CANCEL", status |-> st])
    BY <1>8 DEF CancelCheck, CancelTooLate
  <2>2. [type |-> "CANCEL", status |-> st] \in Response
    BY DEF Response
  <2>3. resp' \in [Clients -> Response \cup {NoMsg}]
    BY <2>1, <2>2, SendType
  <2> QED BY <1>8, <2>3 DEF CancelCheck, CancelTooLate, Goto, StateOK, MessageInv, Serving, client,
          stock, list, robots
<1>9. CASE CancelApply(c)
  <2>1. orders' \in Seq(Order)
    BY <1>9, ChangeStatusType DEF CancelApply, StateOK
  <2> QED BY <1>9, <2>1 DEF CancelApply, Goto, StateOK, MessageInv, Serving, client, wire, stock,
          robots
<1>10. CASE CancelUnanswered(c)
  BY <1>10 DEF CancelUnanswered, Goto, StateOK, MessageInv, Serving, client, wire, stock, list, robots
<1> QED
  BY <1>1, <1>3, <1>4, <1>5, <1>6, <1>7, <1>8, <1>9, <1>10, <1>11 DEF Handle

LEMMA RobotTypes ==
  ASSUME StateOK, MessageInv, RobotPicks \/ MonitorTakes \/ MonitorLoads
  PROVE  StateOK' /\ MessageInv'
<1>1. CASE RobotPicks
  <2>1. pickup' \in Seq(Int) /\ completed' \in Seq(Int)
    BY <1>1, QueueFacts DEF RobotPicks, StateOK
  <2> QED BY <1>1, <2>1 DEF RobotPicks, StateOK, MessageInv, client, wire, thread, stock, list
<1>2. CASE MonitorTakes
  <2>1. loading' \in Int /\ completed' \in Seq(Int)
    BY <1>2, QueueFacts DEF MonitorTakes, StateOK
  <2> QED BY <1>2, <2>1 DEF MonitorTakes, StateOK, MessageInv, client, wire, thread, stock, list
<1>3. CASE MonitorLoads
  <2>1. orders' \in Seq(Order)
    BY <1>3, ChangeStatusType DEF MonitorLoads, StateOK
  <2>2. delivery' \in Seq(Int)
    BY <1>3, QueueFacts DEF MonitorLoads, StateOK
  <2> QED BY <1>3, <2>1, <2>2 DEF MonitorLoads, StateOK, MessageInv, client, wire, thread, stock
<1> QED BY <1>1, <1>2, <1>3

LEMMA TypeNext == StateOK /\ MessageInv /\ MutexInv /\ [Work]_state => StateOK' /\ MessageInv'
<1> SUFFICES ASSUME StateOK, MessageInv, MutexInv, [Work]_state PROVE StateOK' /\ MessageInv'
  OBVIOUS
<1>1. CASE UNCHANGED state
  BY <1>1 DEF state, client, wire, thread, stock, list, robots, StateOK, MessageInv
<1>2. CASE Work
  BY <1>2, ClientTypes, FrameTypes, HandleTypes, RobotTypes DEF Work, Service
<1> QED BY <1>1, <1>2

-------------------------------------------------------------------------------
LEMMA StockInit == Init => StockConserved /\ HoldInv
  BY InventoryAssumption DEF Init, StockConserved, HoldInv

\* Between the comparison and the update no other thread takes units of the item:
\* it would have to hold Server_Mutex.
LEMMA HoldNext == StateOK /\ MutexInv /\ HoldInv /\ [Work]_state => HoldInv'
<1> SUFFICES ASSUME StateOK, MutexInv, HoldInv, [Work]_state, NEW d \in Clients, spc'[d] = "hold"
             PROVE  msg'[d].qty <= available'[msg'[d].id]
  BY DEF HoldInv
<1>1. ASSUME spc[d] = "hold", msg'[d] = msg[d], UNCHANGED stock
      PROVE  msg'[d].qty <= available'[msg'[d].id]
  BY <1>1 DEF HoldInv, stock
<1>2. ASSUME NEW c \in Clients, Client(c) PROVE spc[d] = "hold" /\ msg'[d] = msg[d] /\ UNCHANGED stock
  BY <1>2 DEF Client, Connect, DoSearch, DoAdd, DoOrder, DeclineOrder, DoCancel, Ask, Choose, Hear,
     DoQuit, Die, thread, StateOK
<1>3. ASSUME AddTest(d) PROVE msg'[d].qty <= available'[msg'[d].id]
  BY <1>3 DEF AddTest, Holdable, stock
<1>4. ASSUME NEW c \in Clients, AddHold(c) PROVE FALSE
  <2>1. spc[c] = "hold" /\ spc'[c] = "reply" /\ \A e \in Clients : e # c => spc'[e] = spc[e]
    BY <1>4 DEF AddHold, AddReply, Goto, StateOK
  <2>2. d = c
    BY <2>1 DEF MutexInv, Serving
  <2> QED BY <2>1, <2>2
<1>5. ASSUME NEW c \in Clients, Service(c), ~ AddHold(c), ~ AddTest(d)
      PROVE  spc[d] = "hold" /\ msg'[d] = msg[d] /\ UNCHANGED stock
  <2>1. CASE AddTest(c)
    BY <1>5, <2>1 DEF AddTest, Goto, StateOK
  <2>2. CASE ~ AddTest(c)
    BY <1>5, <2>2 DEF Service, Handle, Open, FirstLock, FirstUnlock, Receive, Acquire, Search,
       AddRefuse, AddReply, ConfirmEnter, ConfirmQueue, SendReply, CancelCheck, CancelApply,
       CancelTooLate, CancelUnanswered, Release, Leave, Goto, StateOK
  <2> QED BY <2>1, <2>2
<1>6. ASSUME RobotPicks \/ MonitorTakes \/ MonitorLoads \/ UNCHANGED state
      PROVE  spc[d] = "hold" /\ msg'[d] = msg[d] /\ UNCHANGED stock
  BY <1>6 DEF RobotPicks, MonitorTakes, MonitorLoads, state, thread
<1> QED BY <1>1, <1>2, <1>3, <1>4, <1>5, <1>6 DEF Work, Service

\* Only a successful add touches the stock: holdItem moves units of one item,
\* no more than are available.
LEMMA StockNext == StateOK /\ MessageInv /\ HoldInv /\ StockConserved /\ [Work]_state => StockConserved'
<1> SUFFICES ASSUME StateOK, MessageInv, HoldInv, StockConserved, [Work]_state PROVE StockConserved'
  OBVIOUS
<1>1. ASSUME NEW c \in Clients, AddHold(c) PROVE StockConserved'
  <2> DEFINE item == msg[c].id
             n == msg[c].qty
  <2>1. OneItem(msg[c])
    BY <1>1 DEF AddHold, MessageInv
  <2>2. n \in Int
    BY <2>1, RequestFields DEF OneItem
  <2>3. item \in Items /\ n <= available[item]
    BY <1>1, <2>1 DEF AddHold, HoldInv, OneItem
  <2>4. /\ available' = [available EXCEPT ![item] = @ - n]
        /\ onHold' = [onHold EXCEPT ![item] = @ + n]
    BY <1>1 DEF AddHold
  <2> HIDE DEF item, n
  <2>5. ASSUME NEW i \in Items
        PROVE  available'[i] + onHold'[i] = Stock[i] /\ available'[i] >= 0
    <3>1. available[i] \in Int /\ onHold[i] \in Int
          /\ available[i] + onHold[i] = Stock[i] /\ available[i] >= 0
      BY DEF StateOK, StockConserved
    <3>2. CASE i = item
      <4>1. available'[i] = available[i] - n /\ onHold'[i] = onHold[i] + n
        BY <2>3, <2>4, <3>2 DEF StateOK
      <4> QED BY <2>2, <2>3, <3>1, <3>2, <4>1, InventoryAssumption
    <3>3. CASE i # item
      <4>1. available'[i] = available[i] /\ onHold'[i] = onHold[i]
        BY <2>4, <3>3 DEF StateOK
      <4> QED BY <3>1, <4>1
    <3> QED BY <3>2, <3>3
  <2> QED BY <2>5 DEF StockConserved
<1>2. ASSUME UNCHANGED stock PROVE StockConserved'
  BY <1>2 DEF StockConserved, stock
<1>3. ASSUME NEW c \in Clients, Client(c) PROVE UNCHANGED stock
  BY <1>3 DEF Client, Connect, DoSearch, DoAdd, DoOrder, DeclineOrder, DoCancel, Ask, Choose, Hear,
     DoQuit, Die
<1>4. ASSUME NEW c \in Clients, Service(c), ~ AddHold(c) PROVE UNCHANGED stock
  BY <1>4 DEF Service, Handle, Open, FirstLock, FirstUnlock, Receive, Acquire, Search, AddTest, AddRefuse,
     ConfirmEnter, ConfirmQueue, SendReply, CancelCheck, CancelApply, CancelTooLate,
     CancelUnanswered, Release, Leave
<1>5. ASSUME RobotPicks \/ MonitorTakes \/ MonitorLoads \/ UNCHANGED state PROVE UNCHANGED stock
  BY <1>5 DEF RobotPicks, MonitorTakes, MonitorLoads, state
<1> QED BY <1>1, <1>2, <1>3, <1>4, <1>5 DEF Work

-------------------------------------------------------------------------------
(* The list of orders. *)

\* A change of status changes no number and no items.
LEMMA ChangeStatusKeeps ==
  ASSUME NEW n, NEW s \in {"Confirmed", "Cancelled", "LOADING"}, orders \in Seq(Order),
         ChangeStatus(n, s)
  PROVE  /\ DOMAIN orders' = DOMAIN orders
         /\ \A k \in DOMAIN orders : orders'[k].num = orders[k].num /\ orders'[k].items = orders[k].items
<1>1. ASSUME NEW k \in DOMAIN orders
      PROVE  orders'[k].num = orders[k].num /\ orders'[k].items = orders[k].items
  <2>1. orders[k] \in Order
    BY <1>1, ElementOfSeq, LenProperties
  <2>2. [orders[k] EXCEPT !.status = s].num = orders[k].num /\ [orders[k] EXCEPT !.status = s].items = orders[k].items
    BY <2>1 DEF Order
  <2> QED BY <1>1, <2>2 DEF ChangeStatus
<1> QED BY <1>1 DEF ChangeStatus

\* Only a confirmation, a cancellation and the truck monitor write to it.
LEMMA ListWriters ==
  ASSUME [Work]_state
  PROVE  \/ UNCHANGED orders
         \/ \E c \in Clients : ConfirmEnter(c) \/ CancelApply(c)
         \/ MonitorLoads
<1>1. ASSUME NEW c \in Clients, Client(c) PROVE UNCHANGED orders
  BY <1>1 DEF Client, Connect, DoSearch, DoAdd, DoOrder, DeclineOrder, DoCancel, Ask, Choose, Hear,
     DoQuit, Die, list
<1>2. ASSUME NEW c \in Clients, Service(c), ~ ConfirmEnter(c), ~ CancelApply(c) PROVE UNCHANGED orders
  BY <1>2 DEF Service, Handle, Open, FirstLock, FirstUnlock, Receive, Acquire, Search, AddTest, AddHold, AddRefuse,
     AddReply, ConfirmQueue, SendReply, CancelCheck, CancelTooLate, CancelUnanswered, Release, Leave, list
<1>3. ASSUME RobotPicks \/ MonitorTakes \/ UNCHANGED state PROVE UNCHANGED orders
  BY <1>3 DEF RobotPicks, MonitorTakes, state, list
<1> QED BY <1>1, <1>2, <1>3 DEF Work

\* Whatever a response says of the list stays true.
LEMMA AnswersKept ==
  ASSUME StateOK, [Work]_state, NEW r, NEW q, Answers(orders, r, q)
  PROVE  Answers(orders', r, q)
<1>o. orders \in Seq(Order) /\ DOMAIN orders = 1..Len(orders) /\ Len(orders) \in Nat
  BY LenProperties DEF StateOK
<1> DEFINE Kept == \A k \in DOMAIN orders :
                     k \in DOMAIN orders' /\ orders'[k].num = orders[k].num /\ orders'[k].items = orders[k].items
<1>1. ASSUME NEW c \in Clients, ConfirmEnter(c) PROVE Kept
  BY <1>o, <1>1 DEF ConfirmEnter
<1>2. ASSUME NEW n, NEW s \in {"Confirmed", "Cancelled", "LOADING"}, ChangeStatus(n, s) PROVE Kept
  BY <1>o, <1>2, ChangeStatusKeeps
<1>3. Kept
  BY <1>1, <1>2, ListWriters DEF CancelApply, MonitorLoads
<1> QED BY <1>3 DEF Answers

-------------------------------------------------------------------------------
LEMMA RequestsInit == Init => RequestsInv
  BY DEF Init, RequestsInv, RequestInv, Handling

\* What a step leaves alone of client d and its thread.
Same(d) ==
  /\ cpc'[d] = cpc[d] /\ asked'[d] = asked[d] /\ req'[d] = req[d] /\ resp'[d] = resp[d]
  /\ spc'[d] = spc[d] /\ msg'[d] = msg[d] /\ reply'[d] = reply[d]

LEMMA SameKeeps ==
  ASSUME StateOK, [Work]_state, NEW d \in Clients, RequestInv(d), Same(d)
  PROVE  RequestInv(d)'
  BY AnswersKept DEF RequestInv, Same

\* A step of one client and its thread is one of no other.
LEMMA OthersSame ==
  ASSUME StateOK, NEW c \in Clients, Client(c) \/ Service(c), NEW d \in Clients, d # c
  PROVE  Same(d)
<1>1. ASSUME Client(c) PROVE Same(d)
  BY <1>1 DEF Client, Connect, DoSearch, DoAdd, DoOrder, DeclineOrder, DoCancel, Ask, Choose, Hear,
     DoQuit, Die, StateOK, Same, wire, thread
<1>2. ASSUME Handle(c) PROVE Same(d)
  BY <1>2 DEF Handle, Search, AddTest, AddHold, AddRefuse, AddReply, ConfirmEnter, ConfirmQueue, SendReply, Send,
     CancelCheck, CancelApply, CancelTooLate, CancelUnanswered, Goto, StateOK, Same, client, wire
<1>3. ASSUME Service(c), ~ Handle(c) PROVE Same(d)
  BY <1>3 DEF Service, Open, FirstLock, FirstUnlock, Receive, Acquire, Release, Leave,
     Goto, StateOK, Same, client, wire
<1> QED BY <1>1, <1>2, <1>3

\* A step of a client: it asks only when nothing of its last request is left.
LEMMA ClientRequest ==
  ASSUME StateOK, MessageInv, [Work]_state, NEW c \in Clients, RequestInv(c), Client(c)
  PROVE  RequestInv(c)'
<1>1. CASE Connect(c)
  BY <1>1 DEF Connect, RequestInv, StateOK, wire, Handling
<1>2. ASSUME NEW r, Ask(c, r) PROVE RequestInv(c)'
  BY <1>2 DEF Ask, Choose, RequestInv, StateOK, thread, Handling
<1>3. CASE DoSearch(c) \/ DoAdd(c) \/ DoOrder(c) \/ DoCancel(c)
  BY <1>2, <1>3 DEF DoSearch, DoAdd, DoOrder, DoCancel
<1>4. CASE DeclineOrder(c)
  BY <1>4 DEF DeclineOrder, Choose, RequestInv, StateOK, wire, thread
<1>5. CASE Hear(c)
  BY <1>5, NullAssumption DEF Hear, RequestInv, StateOK, thread, Handling
<1>6. CASE DoQuit(c) \/ Die(c)
  BY <1>6 DEF DoQuit, Die, RequestInv, StateOK, thread
<1> QED BY <1>1, <1>3, <1>4, <1>5, <1>6 DEF Client

\* A step of the thread.
LEMMA ServiceRequest ==
  ASSUME StateOK, MessageInv, [Work]_state, NEW c \in Clients, RequestInv(c), Service(c)
  PROVE  RequestInv(c)'
<1>f. ASSUME NEW r, NEW q PROVE Answers(orders, r, q) => Answers(orders', r, q)
  BY AnswersKept
<1>0. cpc[c] = "wait" => asked[c] # Goodbye /\ asked[c] # Eof /\ asked[c] # NoMsg
  BY NullAssumption DEF MessageInv, Request, Goodbye
\* Where the thread is, and the client with it.
<1>1. CASE Open(c) \/ FirstLock(c) \/ FirstUnlock(c) \/ Acquire(c)
  BY <1>1, <1>f DEF Open, FirstLock, FirstUnlock, Acquire, Goto, RequestInv, StateOK, client, wire, Handling
<1>2. CASE Receive(c)
  BY <1>2, <1>f DEF Receive, Goto, RequestInv, StateOK, client, Handling
<1>3. CASE Release(c) \/ Leave(c)
  BY <1>3, <1>f, <1>0 DEF Release, Leave, Goto, RequestInv, StateOK, client, wire, Handling
\* A response sent at once.
<1>4. ASSUME NEW r, r # NoMsg, Send(c, r), spc[c] = "serve", spc'[c] \notin Handling,
             UNCHANGED <<client, req, msg, reply>>,
             cpc[c] = "wait" => Answers(orders, r, asked[c])
      PROVE  RequestInv(c)'
  BY <1>4, <1>f DEF Send, RequestInv, StateOK, client, Handling
<1>5. CASE Search(c)
  <2>1. PICK st \in {"OK", "ERROR"} : Send(c, [type |-> "SEARCH", results |-> Find(msg[c]), status |-> st])
    BY <1>5 DEF Search
  <2>2. [type |-> "SEARCH", results |-> Find(msg[c]), status |-> st] # NoMsg
    BY <1>5, AddReplyType, NullAssumption DEF Search, Serves, MessageInv
  <2>3. cpc[c] = "wait" => Answers(orders, [type |-> "SEARCH", results |-> Find(msg[c]), status |-> st], asked[c])
    BY <1>5 DEF Search, Serves, Answers, RequestInv
  <2> QED BY <1>4, <1>5, <2>1, <2>2, <2>3 DEF Search, Serves, Goto, Handling, StateOK
<1>6. CASE CancelCheck(c) \/ CancelTooLate(c)
  <2>1. PICK st \in {"OK", "ERROR"} : Send(c, [type |-> "CANCEL", status |-> st])
    BY <1>6 DEF CancelCheck, CancelTooLate
  <2>2. [type |-> "CANCEL", status |-> st] # NoMsg
    BY NullAssumption DEF Response
  <2>3. cpc[c] = "wait" => Answers(orders, [type |-> "CANCEL", status |-> st], asked[c])
    BY <1>6 DEF CancelCheck, CancelTooLate, Serves, Answers, RequestInv
  <2> QED BY <1>4, <1>6, <2>1, <2>2, <2>3 DEF CancelCheck, CancelTooLate, Serves, Goto, Handling, StateOK
<1>13. CASE AddTest(c)
  BY <1>13, <1>f DEF AddTest, Serves, Goto, RequestInv, StateOK, client, wire, Handling
\* A reply prepared.
<1>7. ASSUME NEW r, reply' = [reply EXCEPT ![c] = r], spc[c] \in {"serve", "hold"}, spc'[c] \in {"queue", "reply"},
             UNCHANGED <<client, wire, msg>>,
             cpc[c] = "wait" => Answers(orders', r, asked[c])
      PROVE  RequestInv(c)'
  BY <1>7, <1>f DEF RequestInv, StateOK, client, wire, Handling
<1>8. CASE AddHold(c) \/ AddRefuse(c)
  <2>1. PICK st : AddReply(c, st)
    BY <1>8 DEF AddHold, AddRefuse
  <2>2. cpc[c] = "wait" => Answers(orders', [type |-> "ADD", results |-> Find(msg[c]), status |-> st], asked[c])
    BY <1>8 DEF AddHold, AddRefuse, Serves, Answers, RequestInv, MessageInv, OneItem
  <2> QED BY <1>7, <1>8, <2>1, <2>2 DEF AddHold, AddRefuse, AddReply, Serves, Goto, StateOK
<1>9. CASE ConfirmEnter(c)
  <2>1. orders' = Append(orders, NewOrder(c)) /\ orders \in Seq(Order)
    BY <1>9 DEF ConfirmEnter, StateOK
  <2>2. LET k == Len(orders) + 1 IN k \in DOMAIN orders' /\ orders'[k] = NewOrder(c)
    BY <2>1
  <2>3. cpc[c] = "wait" => Answers(orders', [type |-> "CONFIRM", num |-> orderID, status |-> "OK"], asked[c])
    BY <1>9, <2>2 DEF ConfirmEnter, Serves, NewOrder, Answers, RequestInv
  <2> QED BY <1>7, <1>9, <2>3 DEF ConfirmEnter, Serves, Goto, StateOK
<1>10. CASE ConfirmQueue(c)
  BY <1>10, <1>f DEF ConfirmQueue, Goto, RequestInv, StateOK, client, wire, Handling
<1>11. CASE SendReply(c)
  BY <1>11, <1>f DEF SendReply, Send, Goto, RequestInv, StateOK, client, Handling
<1>12. CASE CancelApply(c) \/ CancelUnanswered(c)
  BY <1>12, <1>f DEF CancelApply, CancelUnanswered, Serves, Goto, RequestInv, StateOK, client, wire, Handling
<1> QED BY <1>1, <1>2, <1>3, <1>5, <1>6, <1>8, <1>9, <1>10, <1>11, <1>12, <1>13
        DEF Service, Handle

LEMMA RequestsNext == StateOK /\ MessageInv /\ RequestsInv /\ [Work]_state => RequestsInv'
<1> SUFFICES ASSUME StateOK, MessageInv, RequestsInv, [Work]_state, NEW d \in Clients PROVE RequestInv(d)'
  BY DEF RequestsInv
<1>r. RequestInv(d)
  BY DEF RequestsInv
<1>1. ASSUME NEW c \in Clients, Client(c) \/ Service(c) PROVE RequestInv(d)'
  <2>1. CASE d = c
    BY <1>1, <1>r, <2>1, ClientRequest, ServiceRequest
  <2>2. CASE d # c
    BY <1>1, <1>r, <2>2, OthersSame, SameKeeps
  <2> QED BY <2>1, <2>2
<1>2. ASSUME RobotPicks \/ MonitorTakes \/ MonitorLoads \/ UNCHANGED state PROVE RequestInv(d)'
  <2>1. Same(d)
    BY <1>2 DEF RobotPicks, MonitorTakes, MonitorLoads, state, client, wire, thread, Same
  <2> QED BY <1>r, <2>1, SameKeeps
<1> QED BY <1>1, <1>2 DEF Work

-------------------------------------------------------------------------------
LEMMA NumbersInit == Init => NumbersInv /\ PipelineInv
<1> SUFFICES ASSUME Init PROVE NumbersInv /\ PipelineInv
  OBVIOUS
<1>1. orders = <<>> /\ orderID = FirstOrder /\ \A c \in Clients : spc[c] # "queue"
  BY DEF Init
<1>2. NumbersInv
  BY <1>1 DEF NumbersInv, FirstOrder
<1>3. Pipeline = <<>>
  BY DEF Init, Pipeline
<1>4. Numbers(0) = <<>>
  BY DEF Numbers
<1> QED BY <1>1, <1>2, <1>3, <1>4 DEF PipelineInv

\* Only one thread enters an order at a time.
LEMMA OneEnters ==
  ASSUME MutexInv, NEW c \in Clients, spc[c] \in Serving
  PROVE  \A d \in Clients : d # c => spc[d] \notin Serving
  BY DEF MutexInv

LEMMA NumbersNext == StateOK /\ MutexInv /\ NumbersInv /\ [Work]_state => NumbersInv'
<1> SUFFICES ASSUME StateOK, MutexInv, NumbersInv, [Work]_state PROVE NumbersInv'
  OBVIOUS
<1>o. orders \in Seq(Order) /\ DOMAIN orders = 1..Len(orders) /\ Len(orders) \in Nat
  BY LenProperties DEF StateOK
<1>1. ASSUME NEW c \in Clients, ConfirmEnter(c) PROVE NumbersInv'
  <2>1. orders' = Append(orders, NewOrder(c)) /\ orderID' = orderID + 1
    BY <1>1 DEF ConfirmEnter
  <2>2. Len(orders') = Len(orders) + 1 /\ orders'[Len(orders) + 1] = NewOrder(c)
        /\ DOMAIN orders' = 1..(Len(orders) + 1)
        /\ \A k \in DOMAIN orders : orders'[k] = orders[k]
    BY <1>o, <2>1
  <2>3. NewOrder(c).num = FirstOrder + Len(orders)
    BY DEF NewOrder, NumbersInv
  <2>4. \A k \in DOMAIN orders' : orders'[k].num = FirstOrder + k - 1
    BY <1>o, <2>2, <2>3 DEF NumbersInv, FirstOrder
  <2>5. \A d \in Clients : spc'[d] = "queue" => d = c
    BY <1>1, OneEnters DEF ConfirmEnter, Serves, Serving, Goto, StateOK
  <2>6. reply'[c].num = orderID
    BY <1>1 DEF ConfirmEnter, StateOK
  <2> QED BY <1>o, <2>1, <2>2, <2>4, <2>5, <2>6 DEF NumbersInv, FirstOrder
<1>2. ASSUME NEW n, NEW s \in {"Confirmed", "Cancelled", "LOADING"}, ChangeStatus(n, s),
             UNCHANGED <<orderID, reply>>, \A d \in Clients : spc'[d] = "queue" => spc[d] = "queue"
      PROVE  NumbersInv'
  <2>1. Len(orders') = Len(orders)
    BY <1>o, <1>2, ChangeStatusType
  <2> QED BY <1>o, <1>2, <2>1, ChangeStatusKeeps DEF NumbersInv
<1>3. ASSUME NEW c \in Clients, CancelApply(c) PROVE NumbersInv'
  BY <1>2, <1>3 DEF CancelApply, Goto, StateOK
<1>4. CASE MonitorLoads
  BY <1>2, <1>4 DEF MonitorLoads, thread
<1>5. ASSUME UNCHANGED <<list, reply>>, \A d \in Clients : spc'[d] = "queue" => spc[d] = "queue"
      PROVE  NumbersInv'
  BY <1>5 DEF NumbersInv, list
<1>6. ASSUME NEW c \in Clients, Client(c) PROVE NumbersInv'
  BY <1>5, <1>6 DEF Client, Connect, DoSearch, DoAdd, DoOrder, DeclineOrder, DoCancel, Ask, Choose,
     Hear, DoQuit, Die, thread, StateOK
<1>7. ASSUME NEW c \in Clients, Service(c), ~ ConfirmEnter(c), ~ CancelApply(c) PROVE NumbersInv'
  <2>1. UNCHANGED list
    BY <1>7 DEF Service, Handle, Open, FirstLock, FirstUnlock, Receive, Acquire, Search, AddTest, AddHold,
       AddRefuse, AddReply, ConfirmQueue, SendReply, CancelCheck, CancelTooLate, CancelUnanswered,
       Release, Leave
  <2>2. \A d \in Clients : spc'[d] = "queue" => spc[d] = "queue" /\ reply'[d] = reply[d]
    BY <1>7 DEF Service, Handle, Open, FirstLock, FirstUnlock, Receive, Acquire, Search, AddTest, AddHold,
       AddRefuse, AddReply, ConfirmQueue, SendReply, CancelCheck, CancelTooLate, CancelUnanswered,
       Release, Leave, Goto, StateOK
  <2> QED BY <2>1, <2>2 DEF NumbersInv, list
<1>8. CASE RobotPicks \/ MonitorTakes \/ UNCHANGED state
  BY <1>5, <1>8 DEF RobotPicks, MonitorTakes, state, thread
<1> QED BY <1>1, <1>3, <1>4, <1>6, <1>7, <1>8 DEF Work

-------------------------------------------------------------------------------
(* The pipeline. *)
\* One more number at the end.
LEMMA NumbersAppend ==
  ASSUME NEW n \in Nat
  PROVE  Numbers(n) \in Seq(Int) /\ Append(Numbers(n), FirstOrder + n) = Numbers(n + 1)
<1>1. Numbers(n) \in Seq(Int)
  BY DEF Numbers, FirstOrder
<1>2. Len(Numbers(n)) = n
  BY DEF Numbers
<1>3. Append(Numbers(n), FirstOrder + n) \in Seq(Int) /\ Len(Append(Numbers(n), FirstOrder + n)) = n + 1
  BY <1>1, <1>2 DEF FirstOrder
<1>4. Numbers(n + 1) \in Seq(Int) /\ Len(Numbers(n + 1)) = n + 1
  BY DEF Numbers, FirstOrder
<1>5. \A i \in 1..(n + 1) : Append(Numbers(n), FirstOrder + n)[i] = Numbers(n + 1)[i]
  BY <1>1, <1>2 DEF Numbers, FirstOrder
<1> QED BY <1>1, <1>3, <1>4, <1>5, SeqEqual

\* A number moves on from the head of one part to the end of the next.
LEMMA HandOver ==
  ASSUME NEW a \in Seq(Int), NEW b \in Seq(Int), b # <<>>
  PROVE  /\ Append(a, Head(b)) \o Tail(b) = a \o b
         /\ a \o (<<Head(b)>> \o Tail(b)) = a \o b
<1>1. Head(b) \in Int /\ Tail(b) \in Seq(Int) /\ <<Head(b)>> \in Seq(Int)
  OBVIOUS
<1>2. <<Head(b)>> \o Tail(b) = b
  <2>1. Len(<<Head(b)>> \o Tail(b)) = Len(b)
    OBVIOUS
  <2>2. \A i \in 1..Len(b) : (<<Head(b)>> \o Tail(b))[i] = b[i]
    OBVIOUS
  <2>3. <<Head(b)>> \o Tail(b) \in Seq(Int)
    BY <1>1, ConcatProperties
  <2> QED BY <2>1, <2>2, <2>3, SeqEqual
<1>3. Append(a, Head(b)) = a \o <<Head(b)>>
  BY <1>1, AppendIsConcat
<1>4. (a \o <<Head(b)>>) \o Tail(b) = a \o (<<Head(b)>> \o Tail(b))
  BY <1>1, ConcatAssociative
<1> QED BY <1>2, <1>3, <1>4

\* The parts of the pipeline, and what their types say of the whole.
LEMMA PipelineParts ==
  ASSUME StateOK
  PROVE  /\ delivery \in Seq(Int) /\ completed \in Seq(Int) /\ pickup \in Seq(Int)
         /\ (IF loading = NoOrder THEN <<>> ELSE <<loading>>) \in Seq(Int)
         /\ Pipeline \in Seq(Int)
<1>1. delivery \in Seq(Int) /\ completed \in Seq(Int) /\ pickup \in Seq(Int)
  BY DEF StateOK
<1>2. (IF loading = NoOrder THEN <<>> ELSE <<loading>>) \in Seq(Int)
  BY DEF StateOK
<1> QED BY <1>1, <1>2, ConcatProperties DEF Pipeline

\* A robot and the truck monitor hand orders on; the pipeline stays what it is.
LEMMA HandedOn ==
  ASSUME StateOK, RobotPicks \/ MonitorTakes \/ MonitorLoads
  PROVE  Pipeline' = Pipeline
<1> DEFINE hand == IF loading = NoOrder THEN <<>> ELSE <<loading>>
<1>p. /\ delivery \in Seq(Int) /\ completed \in Seq(Int) /\ pickup \in Seq(Int) /\ hand \in Seq(Int)
      /\ Pipeline = ((delivery \o hand) \o completed) \o pickup
  BY PipelineParts DEF Pipeline
<1>c. delivery \o hand \in Seq(Int)
  BY <1>p, ConcatProperties
<1>1. CASE RobotPicks
  <2>1. /\ hand' = hand /\ delivery' = delivery /\ pickup # <<>>
        /\ completed' = Append(completed, Head(pickup)) /\ pickup' = Tail(pickup)
    BY <1>1 DEF RobotPicks
  <2> HIDE DEF hand
  <2>2. completed' \in Seq(Int) /\ pickup' \in Seq(Int)
    BY <1>p, <2>1, QueueFacts
  <2>3. ((delivery \o hand) \o completed') \o pickup' = (delivery \o hand) \o (completed' \o pickup')
    BY <1>c, <2>2, ConcatAssociative
  <2>4. completed' \o pickup' = completed \o pickup
    BY <1>p, <2>1, HandOver
  <2>5. ((delivery \o hand) \o completed) \o pickup = (delivery \o hand) \o (completed \o pickup)
    <3>1. completed \in Seq(Int) /\ pickup \in Seq(Int)
      BY <1>p
    <3> QED BY <1>c, <3>1, ConcatAssociative
  <2>6. Pipeline' = ((delivery' \o hand') \o completed') \o pickup'
    BY DEF Pipeline, hand
  <2> QED BY <1>p, <2>1, <2>3, <2>4, <2>5, <2>6
<1>2. CASE MonitorTakes
  <2>1. /\ delivery' = delivery /\ pickup' = pickup /\ completed # <<>>
        /\ loading = NoOrder /\ loading' = Head(completed) /\ completed' = Tail(completed)
    BY <1>2 DEF MonitorTakes
  <2>2. Head(completed) \in Int /\ completed' \in Seq(Int) /\ <<Head(completed)>> \in Seq(Int)
    BY <1>p, <2>1, QueueFacts
  <2>3. hand = <<>> /\ hand' = <<Head(completed)>>
    BY <2>1, <2>2, NullAssumption
  <2> HIDE DEF hand
  <2>4. delivery \o hand = delivery
    BY <1>p, <2>3, ConcatEmptySeq
  <2>5. (delivery \o <<Head(completed)>>) \o completed' = delivery \o (<<Head(completed)>> \o completed')
    <3>1. delivery \in Seq(Int) /\ <<Head(completed)>> \in Seq(Int) /\ completed' \in Seq(Int)
      BY <1>p, <2>2
    <3> QED BY <3>1, ConcatAssociative
  <2>6. delivery \o (<<Head(completed)>> \o completed') = delivery \o completed
    BY <1>p, <2>1, HandOver
  <2>7. Pipeline' = ((delivery' \o hand') \o completed') \o pickup'
    BY DEF Pipeline, hand
  <2> QED BY <1>p, <2>1, <2>3, <2>4, <2>5, <2>6, <2>7
<1>3. CASE MonitorLoads
  <2>1. /\ completed' = completed /\ pickup' = pickup
        /\ loading # NoOrder /\ loading' = NoOrder /\ delivery' = Append(delivery, loading)
    BY <1>3 DEF MonitorLoads
  <2>2. hand = <<loading>> /\ hand' = <<>> /\ loading \in Int
    BY <2>1 DEF StateOK
  <2> HIDE DEF hand
  <2>3. delivery' = delivery \o hand /\ delivery' \in Seq(Int)
    BY <1>p, <1>c, <2>1, <2>2, AppendIsConcat
  <2>4. delivery' \o hand' = delivery'
    BY <2>2, <2>3, ConcatEmptySeq
  <2>5. Pipeline' = ((delivery' \o hand') \o completed') \o pickup'
    BY DEF Pipeline, hand
  <2> QED BY <1>p, <2>1, <2>3, <2>4, <2>5
<1> QED BY <1>1, <1>2, <1>3

LEMMA PipelineNext ==
  StateOK /\ MutexInv /\ RequestsInv /\ NumbersInv /\ PipelineInv /\ [Work]_state => PipelineInv'
<1> SUFFICES ASSUME StateOK, MutexInv, RequestsInv, NumbersInv, PipelineInv, [Work]_state PROVE PipelineInv'
  OBVIOUS
<1> DEFINE Entering == \E c \in Clients : spc[c] = "queue"
           n == IF Entering THEN Len(orders) - 1 ELSE Len(orders)
<1>p. Pipeline = Numbers(n) /\ (Pipeline' = Numbers(n') => PipelineInv')
  BY DEF PipelineInv
<1>o. orders \in Seq(Order) /\ Len(orders) \in Nat
  BY LenProperties DEF StateOK
<1>1. ASSUME NEW c \in Clients, ConfirmEnter(c) PROVE PipelineInv'
  <2>1. ~ Entering /\ Entering'
    BY <1>1, OneEnters DEF ConfirmEnter, Serves, Serving, Goto, StateOK
  <2>2. Len(orders') = Len(orders) + 1
    BY <1>1, <1>o DEF ConfirmEnter
  <2>3. Pipeline' = Pipeline
    BY <1>1 DEF ConfirmEnter, Pipeline, robots
  <2> QED BY <1>p, <1>o, <2>1, <2>2, <2>3
<1>2. ASSUME NEW c \in Clients, ConfirmQueue(c) PROVE PipelineInv'
  <2>1. Entering /\ ~ Entering'
    BY <1>2, OneEnters DEF ConfirmQueue, Serving, Goto, StateOK
  <2>2. reply[c].num = FirstOrder + Len(orders) - 1 /\ Len(orders) > 0
    BY <1>2 DEF ConfirmQueue, NumbersInv
  <2>3. Len(orders) - 1 \in Nat /\ reply[c].num \in Int
    BY <1>o, <2>2 DEF FirstOrder
  <2> DEFINE before == (delivery \o (IF loading = NoOrder THEN <<>> ELSE <<loading>>)) \o completed
  <2>4. before \in Seq(Int) /\ pickup \in Seq(Int) /\ Pipeline = before \o pickup
    BY PipelineParts, ConcatProperties DEF Pipeline
  <2>5. before' = before /\ pickup' = Append(pickup, reply[c].num) /\ Pipeline' = before' \o pickup'
    BY <1>2 DEF ConfirmQueue, robots, Pipeline
  <2> HIDE DEF before
  <2>6. pickup' = pickup \o <<reply[c].num>>
    BY <2>3, <2>4, <2>5, AppendIsConcat
  <2>7. before \o (pickup \o <<reply[c].num>>) = (before \o pickup) \o <<reply[c].num>>
    <3>1. <<reply[c].num>> \in Seq(Int)
      BY <2>3
    <3> QED BY <2>4, <3>1, ConcatAssociative
  <2>8. Pipeline' = Append(Pipeline, reply[c].num)
    <3>1. Pipeline \in Seq(Int)
      BY PipelineParts
    <3> QED BY <2>3, <2>4, <2>5, <2>6, <2>7, <3>1, AppendIsConcat
  <2>9. Append(Numbers(Len(orders) - 1), FirstOrder + (Len(orders) - 1)) = Numbers((Len(orders) - 1) + 1)
    BY <2>3, NumbersAppend
  <2>10. Len(orders') = Len(orders)
    BY <1>2 DEF ConfirmQueue, list
  <2>11. FirstOrder + (Len(orders) - 1) = FirstOrder + Len(orders) - 1 /\ (Len(orders) - 1) + 1 = Len(orders)
    BY <1>o DEF FirstOrder
  <2> QED BY <1>p, <2>1, <2>2, <2>8, <2>9, <2>10, <2>11
<1>3. ASSUME Len(orders') = Len(orders), Entering' <=> Entering, Pipeline' = Pipeline PROVE PipelineInv'
  BY <1>p, <1>3
<1>4. ASSUME NEW c \in Clients, Client(c) PROVE PipelineInv'
  <2>1. UNCHANGED <<orders, pickup, robots>>
    BY <1>4 DEF Client, Connect, DoSearch, DoAdd, DoOrder, DeclineOrder, DoCancel, Ask, Choose, Hear,
       DoQuit, Die, list
  <2>2. CASE Connect(c)
    BY <1>3, <2>1, <2>2 DEF Connect, RequestsInv, RequestInv, Handling, StateOK, robots, Pipeline
  <2>3. ASSUME ~ Connect(c) PROVE UNCHANGED spc
    BY <1>4, <2>3 DEF Client, DoSearch, DoAdd, DoOrder, DeclineOrder, DoCancel, Ask, Choose, Hear,
       DoQuit, Die, thread
  <2> QED BY <1>3, <2>1, <2>2, <2>3 DEF robots, Pipeline
<1>5. ASSUME NEW c \in Clients, Service(c), ~ ConfirmEnter(c), ~ ConfirmQueue(c) PROVE PipelineInv'
  <2>1. UNCHANGED <<pickup, robots>> /\ spc[c] # "queue" /\ spc'[c] # "queue"
        /\ \A d \in Clients : d # c => spc'[d] = spc[d]
    BY <1>5 DEF Service, Handle, Open, FirstLock, FirstUnlock, Receive, Acquire, Search, AddTest, AddHold,
       AddRefuse, AddReply, SendReply, CancelCheck, CancelApply, CancelTooLate, CancelUnanswered,
       Release, Leave, Serves, Goto, StateOK
  <2>2. Len(orders') = Len(orders)
    <3>1. CASE CancelApply(c)
      BY <1>o, <3>1, ChangeStatusType DEF CancelApply
    <3>2. CASE ~ CancelApply(c)
      BY <1>5, <3>2 DEF Service, Handle, Open, FirstLock, FirstUnlock, Receive, Acquire, Search, AddTest, AddHold,
         AddRefuse, AddReply, SendReply, CancelCheck, CancelTooLate, CancelUnanswered, Release, Leave, list
    <3> QED BY <3>1, <3>2
  <2>3. Entering' <=> Entering
    BY <2>1
  <2> QED BY <1>3, <2>1, <2>2, <2>3 DEF robots, Pipeline
<1>6. CASE RobotPicks \/ MonitorTakes \/ MonitorLoads
  <2>1. Len(orders') = Len(orders)
    BY <1>o, <1>6, ChangeStatusType DEF RobotPicks, MonitorTakes, MonitorLoads, list
  <2>2. Entering' <=> Entering
    BY <1>6 DEF RobotPicks, MonitorTakes, MonitorLoads, thread
  <2> QED BY <1>3, <1>6, <2>1, <2>2, HandedOn
<1>7. CASE UNCHANGED state
  BY <1>3, <1>7 DEF state, list, thread, robots, Pipeline
<1> QED BY <1>1, <1>2, <1>4, <1>5, <1>6, <1>7 DEF Work

-------------------------------------------------------------------------------
LEMMA PassedOn ==
  ASSUME StateOK, MutexInv, NumbersInv, PipelineInv
  PROVE  OrdersPassedOn
<1> DEFINE entering == {c \in Clients : spc[c] = "queue"}
<1>1. Cardinality(entering) = IF \E c \in Clients : spc[c] = "queue" THEN 1 ELSE 0
  <2>1. CASE entering = {}
    BY <2>1, FS_EmptySet
  <2>2. CASE entering # {}
    <3>1. PICK c \in Clients : spc[c] = "queue"
      BY <2>2
    <3>2. entering = {c}
      BY <3>1, OneEnters DEF Serving
    <3> QED BY <3>1, <3>2, FS_Singleton
  <2> QED BY <2>1, <2>2
<1>2. Len(orders) \in Nat
  BY LenProperties DEF StateOK
<1>3. Len(orders) - Cardinality(entering)
        = IF \E c \in Clients : spc[c] = "queue" THEN Len(orders) - 1 ELSE Len(orders)
  BY <1>1, <1>2
<1> HIDE DEF entering
<1>4. Pipeline = Numbers(Len(orders) - Cardinality(entering))
  BY <1>3 DEF PipelineInv
<1> QED BY <1>4 DEF OrdersPassedOn, NumbersInv, Numbers, entering

LEMMA Matched ==
  ASSUME StateOK, RequestsInv
  PROVE  ResponsesMatch /\ ReceiptNamesOwnOrder
  BY NullAssumption DEF RequestsInv, RequestInv, ResponsesMatch, ReceiptNamesOwnOrder, Answers, Handling

-------------------------------------------------------------------------------
\* The inductive invariant: types, the messages that threads and clients go on
\* with, the owner of Server_Mutex, the stock, the place of each request, and
\* the numbers of the orders in the list and in the pipeline.
THEOREM Invariance == Spec => []Inv
<1>1. Init => Inv
  BY TypeInit, MutexInit, StockInit, RequestsInit, NumbersInit DEF Inv
<1>2. Inv /\ [Work]_state => Inv'
  BY TypeNext, MutexNext, HoldNext, StockNext, RequestsNext, NumbersNext, PipelineNext DEF Inv
<1> QED BY <1>1, <1>2, StepsWork, PTL DEF Spec

\* Every message, order and place of a thread is well-formed.
THEOREM TypeCorrect == Spec => []TypeOK
<1>1. Init => down \in BOOLEAN
  BY DEF Init
<1>2. down \in BOOLEAN /\ [Next]_vars => (down \in BOOLEAN)'
  BY DEF Next, vars, Up, Killed
<1>3. Inv /\ down \in BOOLEAN => TypeOK
  BY DEF Inv, TypeOK
<1> QED BY <1>1, <1>2, <1>3, Invariance, PTL DEF Spec

\* No request is served while another one is, whichever build of the mutex is
\* used, although threads end with the mutex locked.
THEOREM MutualExclusion == Spec => []OneThreadServes
<1>1. MutexInv => OneThreadServes
  BY DEF MutexInv, OneThreadServes
<1> QED BY <1>1, Invariance, PTL DEF Inv

\* Units of an item are never created, lost or promised beyond the stock,
\* whatever quantities users type.
THEOREM StockIsConserved == Spec => []StockConserved
  BY Invariance, PTL DEF Inv

\* A client gets no response but the one to its last request, and only one.
THEOREM ResponsesAreMatched == Spec => []ResponsesMatch
<1>1. Inv => ResponsesMatch
  BY Matched DEF Inv
<1> QED BY <1>1, Invariance, PTL

\* The number a client is told is that of an order with the items it sent.
THEOREM ReceiptsAreRight == Spec => []ReceiptNamesOwnOrder
<1>1. Inv => ReceiptNamesOwnOrder
  BY Matched DEF Inv
<1> QED BY <1>1, Invariance, PTL

\* Every order in the list goes to the robots once and in turn, however many
\* threads, robots and trucks there are.
THEOREM OrdersArePassedOn == Spec => []OrdersPassedOn
<1>1. Inv => OrdersPassedOn
  BY PassedOn DEF Inv
<1> QED BY <1>1, Invariance, PTL

-------------------------------------------------------------------------------
(***************************************************************************)
(* The refinement of OrderBook, with the program as it stands and with      *)
(* robots at work.                                                          *)
(***************************************************************************)
\* The order whose thread is about to queue it: its entry, and the reply.
EnteringInv ==
  \A c \in Clients : spc[c] = "queue" =>
    /\ msg[c] \in Request /\ msg[c].type = "CONFIRM"
    /\ orders[Len(orders)] = [num |-> orderID - 1, status |-> "Confirmed", items |-> msg[c].items]
    /\ reply[c] = [type |-> "CONFIRM", num |-> orderID - 1, status |-> "OK"]

BookInv == Inv /\ EnteringInv

LEMMA BookInvInit == Init => EnteringInv
  BY DEF Init, EnteringInv

\* How many orders of the list are in the pipeline.
Queued == IF \E c \in Clients : spc[c] = "queue" THEN Len(orders) - 1 ELSE Len(orders)

\* The order that the truck monitor loads is the one behind those on trucks: it
\* is in the list, at that place, and no robot still has to take it.
LEMMA LoadingIs ==
  ASSUME StateOK, NumbersInv, PipelineInv, loading # NoOrder
  PROVE  /\ Len(delivery) + 1 \in DOMAIN orders
         /\ Len(delivery) + 1 <= Queued - Len(pickup)
         /\ loading = FirstOrder + Len(delivery)
<1> DEFINE hand == delivery \o <<loading>>
           taken == hand \o completed
<1>1. /\ delivery \in Seq(Int) /\ completed \in Seq(Int) /\ pickup \in Seq(Int)
      /\ <<loading>> \in Seq(Int) /\ Len(<<loading>>) = 1 /\ <<loading>>[1] = loading
      /\ Len(delivery) \in Nat /\ Len(completed) \in Nat /\ Len(pickup) \in Nat
  BY LenProperties DEF StateOK
<1>2. /\ hand \in Seq(Int) /\ Len(hand) = Len(delivery) + 1
      /\ hand[Len(delivery) + 1] = loading
  BY <1>1, ConcatProperties
<1> HIDE DEF hand
<1>3. /\ taken \in Seq(Int) /\ Len(taken) = Len(delivery) + 1 + Len(completed)
      /\ taken[Len(delivery) + 1] = loading
  BY <1>1, <1>2, ConcatProperties
<1>4. Pipeline = taken \o pickup
  BY DEF Pipeline, hand
<1> HIDE DEF taken
<1>5. /\ Len(Pipeline) = Len(delivery) + 1 + Len(completed) + Len(pickup)
      /\ Pipeline[Len(delivery) + 1] = loading
  <2>1. /\ Len(Pipeline) = Len(taken) + Len(pickup)
        /\ \A i \in 1..(Len(taken) + Len(pickup)) :
             Pipeline[i] = IF i <= Len(taken) THEN taken[i] ELSE pickup[i - Len(taken)]
    <3>1. taken \in Seq(Int) /\ pickup \in Seq(Int)
      BY <1>1, <1>3
    <3>2. /\ Len(taken \o pickup) = Len(taken) + Len(pickup)
          /\ \A i \in 1..(Len(taken) + Len(pickup)) :
               (taken \o pickup)[i] = IF i <= Len(taken) THEN taken[i] ELSE pickup[i - Len(taken)]
      BY <3>1, ConcatProperties
    <3> QED BY <1>4, <3>2, Zenon
  <2>2. Len(delivery) + 1 \in 1..(Len(taken) + Len(pickup)) /\ Len(delivery) + 1 <= Len(taken)
    BY <1>1, <1>3
  <2> QED BY <1>3, <2>1, <2>2
<1>6. orders \in Seq(Order) /\ DOMAIN orders = 1..Len(orders) /\ Len(orders) \in Nat
  BY LenProperties DEF StateOK
<1>7. Queued \in Nat /\ Queued <= Len(orders)
  BY <1>6 DEF Queued, NumbersInv
<1>8. Pipeline = Numbers(Queued) /\ Len(Numbers(Queued)) = Queued
  BY <1>7 DEF PipelineInv, Queued, Numbers
<1>9. Len(delivery) + 1 \in 1..Queued
  BY <1>1, <1>5, <1>7, <1>8
<1>10. loading = FirstOrder + (Len(delivery) + 1) - 1
  BY <1>5, <1>8, <1>9 DEF Numbers
<1> QED BY <1>1, <1>5, <1>6, <1>7, <1>8, <1>9, <1>10 DEF FirstOrder

\* What loading it does to the list.
LEMMA LoadedOrder ==
  ASSUME StateOK, NumbersInv, PipelineInv, MonitorLoads
  PROVE  orders' = [orders EXCEPT ![Len(delivery) + 1].status = "LOADING"]
<1>1. /\ Len(delivery) + 1 \in DOMAIN orders
      /\ loading = FirstOrder + Len(delivery)
  BY LoadingIs DEF MonitorLoads
<1>2. DOMAIN orders = 1..Len(orders) /\ orders \in [1..Len(orders) -> Order] /\ Len(orders) \in Nat
      /\ Len(delivery) \in Nat
  BY LenProperties DEF StateOK
<1>3. \A k \in DOMAIN orders : orders[k].num = loading <=> k = Len(delivery) + 1
  BY <1>1, <1>2 DEF NumbersInv, FirstOrder
<1>4. orders' = [k \in DOMAIN orders |->
                   IF k = Len(delivery) + 1 THEN [orders[k] EXCEPT !.status = "LOADING"] ELSE orders[k]]
  BY <1>3 DEF MonitorLoads, ChangeStatus
<1> QED BY <1>1, <1>2, <1>4

LEMMA EnteringNext == Inv /\ EnteringInv /\ [Work]_state => EnteringInv'
<1> SUFFICES ASSUME Inv, EnteringInv, [Work]_state PROVE EnteringInv'
  OBVIOUS
<1>o. /\ StateOK /\ MessageInv /\ MutexInv /\ RequestsInv
      /\ orders \in Seq(Order) /\ Len(orders) \in Nat /\ orderID \in Int
  BY LenProperties DEF Inv, StateOK
<1>1. ASSUME NEW c \in Clients, ConfirmEnter(c) PROVE EnteringInv'
  <2>1. \A d \in Clients : spc'[d] = "queue" => d = c
    BY <1>1, <1>o, OneEnters DEF ConfirmEnter, Serves, Serving, Goto, StateOK
  <2>2. msg[c] \in Request /\ msg[c].type = "CONFIRM"
    BY <1>1, <1>o DEF ConfirmEnter, Serves, MessageInv, Goodbye
  <2>3. orders'[Len(orders')] = NewOrder(c) /\ orderID' - 1 = orderID
    BY <1>1, <1>o DEF ConfirmEnter
  <2>4. reply'[c] = [type |-> "CONFIRM", num |-> orderID, status |-> "OK"] /\ msg' = msg
    BY <1>1, <1>o DEF ConfirmEnter, StateOK
  <2> QED BY <2>1, <2>2, <2>3, <2>4 DEF EnteringInv, NewOrder
<1>2. ASSUME NEW c \in Clients, CancelApply(c) PROVE EnteringInv'
  BY <1>2, <1>o, OneEnters DEF CancelApply, Serving, Goto, StateOK, EnteringInv
<1>3. ASSUME NEW c \in Clients, Client(c) PROVE EnteringInv'
  <2>1. UNCHANGED <<list, msg, reply>> /\ \A d \in Clients : spc'[d] = "queue" => spc[d] = "queue"
    BY <1>3, <1>o DEF Client, Connect, DoSearch, DoAdd, DoOrder, DeclineOrder, DoCancel, Ask, Choose, Hear,
       DoQuit, Die, thread, StateOK
  <2> QED BY <2>1 DEF EnteringInv, list
<1>4. ASSUME NEW c \in Clients, Service(c), ~ ConfirmEnter(c), ~ CancelApply(c) PROVE EnteringInv'
  <2>1. UNCHANGED list
    BY <1>4 DEF Service, Handle, Open, FirstLock, FirstUnlock, Receive, Acquire, Search, AddTest, AddHold, AddRefuse,
       AddReply, ConfirmQueue, SendReply, CancelCheck, CancelTooLate, CancelUnanswered, Release, Leave
  <2>2. ~ (spc'[c] = "queue") /\ \A d \in Clients : d # c => Same(d)
    <3>1. spc'[c] # "queue"
      BY <1>4, <1>o DEF Service, Handle, Open, FirstLock, FirstUnlock, Receive, Acquire, Search, AddTest, AddHold,
         AddRefuse, AddReply, ConfirmQueue, SendReply, CancelCheck, CancelTooLate, CancelUnanswered,
         Release, Leave, Goto, StateOK
    <3> QED BY <1>4, <1>o, <3>1, OthersSame
  <2> QED BY <2>1, <2>2 DEF EnteringInv, list, Same
<1>5. CASE RobotPicks \/ MonitorTakes \/ UNCHANGED state
  BY <1>5 DEF RobotPicks, MonitorTakes, state, thread, list, EnteringInv
\* The order is not in the pipeline, so it is not the one that is loaded.
<1>6. CASE MonitorLoads
  <2> SUFFICES ASSUME NEW c \in Clients, spc'[c] = "queue"
               PROVE  /\ msg'[c] \in Request /\ msg'[c].type = "CONFIRM"
                      /\ orders'[Len(orders')]
                           = [num |-> orderID' - 1, status |-> "Confirmed", items |-> msg'[c].items]
                      /\ reply'[c] = [type |-> "CONFIRM", num |-> orderID' - 1, status |-> "OK"]
    BY DEF EnteringInv
  <2>1. UNCHANGED <<spc, msg, reply, orderID>>
    BY <1>6 DEF MonitorLoads, thread
  <2>2. Len(delivery) + 1 <= (Len(orders) - 1) - Len(pickup) /\ Len(delivery) + 1 \in DOMAIN orders
    BY <1>6, <2>1, LoadingIs DEF Inv, MonitorLoads, Queued
  <2>3. Len(delivery) \in Nat /\ Len(pickup) \in Nat /\ DOMAIN orders = 1..Len(orders)
    BY <1>o, LenProperties DEF StateOK
  <2>4. Len(orders) \in DOMAIN orders /\ Len(orders) # Len(delivery) + 1
    <3>1. Len(orders) \in Nat
      BY <1>o
    <3>2. \A n, d, p \in Nat : d + 1 <= (n - 1) - p /\ d + 1 \in 1..n => n \in 1..n /\ n # d + 1
      OBVIOUS
    <3>3. Len(orders) \in 1..Len(orders) /\ Len(orders) # Len(delivery) + 1
      BY <2>2, <2>3, <3>1, <3>2
    <3> QED BY <2>3, <3>3
  <2>5. orders' = [orders EXCEPT ![Len(delivery) + 1].status = "LOADING"]
    BY <1>6, LoadedOrder DEF Inv
  <2>6. orders' \in Seq(Order) /\ Len(orders') = Len(orders)
    BY <1>6, <1>o, ChangeStatusType DEF MonitorLoads
  <2>7. orders'[Len(orders')] = orders[Len(orders)]
    BY <2>4, <2>5, <2>6
  <2> QED BY <2>1, <2>7 DEF EnteringInv
<1> QED BY <1>1, <1>2, <1>3, <1>4, <1>5, <1>6 DEF Work

-------------------------------------------------------------------------------
(* What OrderBook sees. *)
BookOrdersShown ==
  /\ (\A c \in Clients : spc[c] # "queue" /\ spc[c] # "cancel") => BookOrders = orders
  /\ \A c \in Clients : spc[c] = "queue" =>
       BookOrders = [k \in 1..(Len(orders) - 1) |-> orders[k]]
  /\ \A c \in Clients : spc[c] = "cancel" =>
       BookOrders = [k \in DOMAIN orders |->
                       IF orders[k].num = msg[c].num
                       THEN [orders[k] EXCEPT !.status = "Cancelled"] ELSE orders[k]]

LEMMA ShownOrders == StateOK /\ MutexInv => BookOrdersShown
<1> SUFFICES ASSUME StateOK, MutexInv PROVE BookOrdersShown
  OBVIOUS
<1> DEFINE entering == {c \in Clients : spc[c] = "queue"}
           Doomed(k) == \E c \in Clients : spc[c] = "cancel" /\ msg[c].num = orders[k].num
           Seen(n) == [k \in 1..n |-> IF Doomed(k) THEN [orders[k] EXCEPT !.status = "Cancelled"] ELSE orders[k]]
<1>o. orders \in Seq(Order) /\ DOMAIN orders = 1..Len(orders) /\ Len(orders) \in Nat
  BY LenProperties DEF StateOK
<1>b. BookOrders = Seen(Len(orders) - Cardinality(entering))
  BY DEF BookOrders
<1>1. ASSUME \A c \in Clients : spc[c] # "queue" PROVE BookOrders = Seen(Len(orders))
  <2>1. entering = {}
    BY <1>1
  <2>2. Cardinality(entering) = 0
    BY <2>1, FS_EmptySet
  <2>3. Len(orders) - Cardinality(entering) = Len(orders)
    BY <1>o, <2>2
  <2> HIDE DEF entering, Doomed
  <2> QED BY <1>b, <2>3
<1>2. ASSUME \A c \in Clients : spc[c] # "queue" /\ spc[c] # "cancel" PROVE BookOrders = orders
  <2>1. Seen(Len(orders)) = [k \in 1..Len(orders) |-> orders[k]]
    BY <1>2
  <2>2. orders = [k \in 1..Len(orders) |-> orders[k]]
    BY <1>o
  <2> QED BY <1>1, <1>2, <2>1, <2>2
<1>3. ASSUME NEW c \in Clients, spc[c] = "queue"
      PROVE  BookOrders = [k \in 1..(Len(orders) - 1) |-> orders[k]]
  <2>1. \A d \in Clients : d # c => spc[d] \notin Serving
    BY <1>3, OneEnters DEF Serving
  <2>2. entering = {c}
    BY <1>3, <2>1 DEF Serving
  <2>3. Cardinality(entering) = 1
    BY <2>2, FS_Singleton
  <2>4. \A k : ~ Doomed(k)
    BY <1>3, <2>1 DEF Serving
  <2> HIDE DEF entering, Doomed
  <2>5. BookOrders = Seen(Len(orders) - 1)
    BY <1>b, <2>3
  <2> QED BY <2>4, <2>5
<1>4. ASSUME NEW c \in Clients, spc[c] = "cancel"
      PROVE  BookOrders = [k \in DOMAIN orders |->
                             IF orders[k].num = msg[c].num
                             THEN [orders[k] EXCEPT !.status = "Cancelled"] ELSE orders[k]]
  <2>1. \A d \in Clients : d # c => spc[d] \notin Serving
    BY <1>4, OneEnters DEF Serving
  <2>2. \A k : Doomed(k) <=> orders[k].num = msg[c].num
    BY <1>4, <2>1 DEF Serving
  <2>3. BookOrders = Seen(Len(orders))
    BY <1>1, <1>4, <2>1 DEF Serving
  <2> QED BY <1>o, <2>2, <2>3
<1> QED BY <1>2, <1>3, <1>4 DEF BookOrdersShown

LEMMA BookInit == Init => Book!Init
<1> SUFFICES ASSUME Init PROVE Book!Init
  OBVIOUS
<1>1. BookOrders = <<>>
  <2>1. StateOK /\ MutexInv
    BY TypeInit, MutexInit
  <2>2. BookOrders = orders
    BY <2>1, ShownOrders DEF BookOrdersShown, Init
  <2> QED BY <2>2 DEF Init
<1>2. BookJob = [c \in Clients |-> NoMsg] /\ BookAnswer = [c \in Clients |-> NoMsg]
  BY DEF Init, BookJob, BookAnswer
<1> QED BY <1>1, <1>2 DEF Init, Book!Init

\* A step of one client and its thread changes no other's request or answer.
LEMMA OneAnswered ==
  ASSUME StateOK, NEW c \in Clients, Client(c) \/ Service(c)
  PROVE  /\ BookJob' = [BookJob EXCEPT ![c] = BookJob'[c]]
         /\ BookAnswer' = [BookAnswer EXCEPT ![c] = BookAnswer'[c]]
<1>1. ASSUME NEW d \in Clients, d # c
      PROVE  BookJob'[d] = BookJob[d] /\ BookAnswer'[d] = BookAnswer[d]
  <2>1. Same(d)
    BY <1>1, OthersSame
  <2> QED BY <2>1 DEF Same, BookJob, BookAnswer
<1>2. BookJob = [d \in Clients |-> BookJob[d]] /\ BookJob' = [d \in Clients |-> BookJob'[d]]
  BY DEF BookJob
<1>3. BookAnswer = [d \in Clients |-> BookAnswer[d]] /\ BookAnswer' = [d \in Clients |-> BookAnswer'[d]]
  BY DEF BookAnswer
<1> HIDE DEF BookJob, BookAnswer
<1> QED BY <1>1, <1>2, <1>3

\* The list looks the same after a step that neither writes to it nor lets a
\* thread enter or leave a place where it looks ahead.
LEMMA ListLooksSame ==
  ASSUME orders' = orders,
         \A d \in Clients : /\ spc'[d] = "queue" <=> spc[d] = "queue"
                            /\ spc'[d] = "cancel" <=> spc[d] = "cancel"
                            /\ spc[d] = "cancel" => msg'[d] = msg[d]
  PROVE  BookOrders' = BookOrders
<1> DEFINE entering == {c \in Clients : spc[c] = "queue"}
           Doomed(k) == \E c \in Clients : spc[c] = "cancel" /\ msg[c].num = orders[k].num
           Seen(n) == [k \in 1..n |-> IF Doomed(k) THEN [orders[k] EXCEPT !.status = "Cancelled"] ELSE orders[k]]
<1>1. entering' = entering
  OBVIOUS
<1>2. ASSUME NEW k PROVE Doomed(k)' <=> Doomed(k)
  OBVIOUS
<1>3. BookOrders = Seen(Len(orders) - Cardinality(entering))
  BY DEF BookOrders
<1>4. BookOrders' = [k \in 1..(Len(orders') - Cardinality(entering')) |->
                       IF Doomed(k)' THEN [orders'[k] EXCEPT !.status = "Cancelled"] ELSE orders'[k]]
  BY DEF BookOrders
<1> HIDE DEF entering, Doomed
<1> QED BY <1>1, <1>2, <1>3, <1>4

\* The request of a client that has one, and what has become of it.
LEMMA BookJobFacts ==
  ASSUME StateOK, RequestsInv, MessageInv, NEW c \in Clients
  PROVE  /\ spc[c] \in {"lock", "serve", "hold", "queue"} => BookJob[c] = IF msg[c] \in Request THEN msg[c] ELSE NoMsg
         /\ spc[c] = "reply" => BookJob[c] = NoMsg
         /\ cpc[c] \in {"off", "menu"} => BookJob[c] = NoMsg
         /\ BookJob[c] \in Request \cup {NoMsg}
  BY DEF BookJob, RequestsInv, RequestInv, Handling, StateOK

LEMMA ClientBook ==
  ASSUME BookInv, [Work]_state, NEW c \in Clients, Client(c)
  PROVE  Book!Next \/ UNCHANGED Book!vars
<1>i. /\ StateOK /\ MessageInv /\ MutexInv /\ RequestsInv /\ RequestInv(c)
      /\ BookJob' = [BookJob EXCEPT ![c] = BookJob'[c]]
      /\ BookAnswer' = [BookAnswer EXCEPT ![c] = BookAnswer'[c]]
      /\ BookJob = [d \in Clients |-> BookJob[d]] /\ BookAnswer = [d \in Clients |-> BookAnswer[d]]
  BY OneAnswered DEF BookInv, Inv, RequestsInv, BookJob, BookAnswer
<1>l. UNCHANGED <<stock, pickup>> /\ BookOrders' = BookOrders /\ delivery' = delivery
  <2>1. UNCHANGED <<stock, pickup, orders, msg, delivery>>
    BY DEF Client, Connect, DoSearch, DoAdd, DoOrder, DeclineOrder, DoCancel, Ask, Choose, Hear, DoQuit,
       Die, list, thread, robots
  <2>2. \A d \in Clients : /\ spc'[d] = "queue" <=> spc[d] = "queue"
                           /\ spc'[d] = "cancel" <=> spc[d] = "cancel"
    BY <1>i DEF Client, Connect, DoSearch, DoAdd, DoOrder, DeclineOrder, DoCancel, Ask, Choose, Hear,
       DoQuit, Die, list, thread, StateOK, RequestInv, Handling
  <2> QED BY <2>1, <2>2, ListLooksSame
<1>n. ASSUME BookJob'[c] = BookJob[c], BookAnswer'[c] = BookAnswer[c] PROVE UNCHANGED Book!vars
  <2>1. BookJob' = BookJob /\ BookAnswer' = BookAnswer
    BY <1>i, <1>n
  <2> QED BY <1>l, <2>1 DEF Book!vars, stock
<1>1. CASE Connect(c) \/ DeclineOrder(c)
  <2>1. BookJob'[c] = BookJob[c] /\ BookAnswer'[c] = BookAnswer[c]
    BY <1>1, <1>i DEF Connect, DeclineOrder, Choose, BookJob, BookAnswer, RequestInv, Handling, StateOK,
       wire, thread
  <2> QED BY <1>n, <2>1
<1>2. ASSUME NEW r \in Request, Ask(c, r) PROVE Book!Submit(c)
  <2>1. BookJob[c] = NoMsg
    BY <1>2, <1>i, BookJobFacts DEF Ask, Choose
  <2>2. BookJob'[c] = r
    <3>1. r # NoMsg /\ r # Goodbye
      BY NullAssumption DEF Request, Goodbye
    <3>2. req'[c] = r
      BY <1>2, <1>i DEF Ask, StateOK
    <3> QED BY <3>1, <3>2 DEF BookJob
  <2>3. BookAnswer' = BookAnswer
    BY <1>2, <1>i DEF Ask, thread, BookAnswer
  <2> QED BY <1>i, <1>l, <2>1, <2>2, <2>3 DEF Book!Submit, Book!stock, stock
<1>3. CASE DoSearch(c) \/ DoAdd(c) \/ DoOrder(c) \/ DoCancel(c)
  <2>1. \E r \in Request : Ask(c, r)
    <3>1. CASE DoSearch(c)
      <4>1. PICK q \in Queries : Ask(c, [type |-> "SEARCH", match |-> q.match, id |-> q.id])
        BY <3>1 DEF DoSearch
      <4>2. [type |-> "SEARCH", match |-> q.match, id |-> q.id] \in Request
        BY InventoryAssumption DEF Request
      <4> QED BY <4>1, <4>2
    <3>2. CASE DoAdd(c)
      <4>1. PICK q \in Queries, n \in Quantities :
              Ask(c, [type |-> "ADD", match |-> q.match, id |-> q.id, qty |-> n])
        BY <3>2 DEF DoAdd
      <4>2. [type |-> "ADD", match |-> q.match, id |-> q.id, qty |-> n] \in Request
        BY InventoryAssumption DEF Request
      <4> QED BY <4>1, <4>2
    <3>3. CASE DoOrder(c)
      <4>1. [type |-> "CONFIRM", items |-> cart[c]] \in Request
        BY <1>i DEF Request, StateOK
      <4> QED BY <3>3, <4>1 DEF DoOrder
    <3>4. CASE DoCancel(c)
      <4>1. PICK n \in CancelNums : Ask(c, [type |-> "CANCEL", num |-> n])
        BY <3>4 DEF DoCancel
      <4>2. [type |-> "CANCEL", num |-> n] \in Request
        BY InventoryAssumption DEF Request
      <4> QED BY <4>1, <4>2
    <3> QED BY <1>3, <3>1, <3>2, <3>3, <3>4
  <2> QED BY <1>2, <2>1 DEF Book!Next
\* The response is heard, or lost with its client.
<1>4. ASSUME resp[c] # NoMsg, resp' = [resp EXCEPT ![c] = NoMsg], UNCHANGED <<req, thread>>
      PROVE  Book!Deliver(c)
  <2>1. spc[c] # "reply"
    BY <1>4, <1>i DEF RequestInv, Handling
  <2>2. BookAnswer[c] = resp[c] /\ BookAnswer'[c] = NoMsg /\ BookJob' = BookJob
    BY <1>4, <1>i, <2>1 DEF BookAnswer, BookJob, thread, StateOK
  <2> QED BY <1>4, <1>i, <1>l, <2>2 DEF Book!Deliver, Book!stock, stock
<1>5. CASE Hear(c)
  BY <1>4, <1>5 DEF Hear, Book!Next
<1>6. CASE Die(c)
  <2>1. CASE resp[c] # NoMsg
    BY <1>4, <1>6, <2>1 DEF Die, Book!Next
  <2>2. CASE resp[c] = NoMsg
    <3>1. resp' = resp
      BY <1>6, <1>i, <2>2 DEF Die, StateOK
    <3>2. BookJob'[c] = BookJob[c] /\ BookAnswer'[c] = BookAnswer[c]
      BY <1>6, <3>1 DEF Die, BookJob, BookAnswer, thread
    <3> QED BY <1>n, <3>2
  <2> QED BY <2>1, <2>2
<1>7. CASE DoQuit(c)
  <2>1. BookJob[c] = NoMsg
    BY <1>7, <1>i, BookJobFacts DEF DoQuit
  <2>2. BookJob'[c] = NoMsg /\ BookAnswer'[c] = BookAnswer[c]
    BY <1>7, <1>i DEF DoQuit, BookJob, BookAnswer, RequestInv, Handling, StateOK, thread
  <2> QED BY <1>n, <2>1, <2>2
<1> QED BY <1>1, <1>3, <1>5, <1>6, <1>7 DEF Client

\* A search by ID finds the item alone, if it finds one item and the ID is one.
LEMMA FoundAlone ==
  ASSUME NEW r \in Request, r.type = "ADD", r.id \in Items
  PROVE  Cardinality(Find(r)) = 1 <=> Find(r) = {r.id}
<1>1. Find(r) \in SUBSET Items /\ r.id \in Find(r)
  BY RequestFields DEF Find
<1>2. IsFiniteSet(Find(r))
  BY <1>1, InventoryAssumption, FS_Subset
<1>3. Cardinality(Find(r)) = 1 <=> \E x : Find(r) = {x}
  BY <1>2, FS_Singleton
<1> QED BY <1>1, <1>3

\* The status of an order, when numbers are positions.
LEMMA StatusFact ==
  ASSUME NumbersInv, NEW n, NEW k \in DOMAIN orders, orders[k].num = n, orders \in Seq(Order)
  PROVE  StatusOf(n) = orders[k].status
<1>1. DOMAIN orders = 1..Len(orders)
  BY LenProperties
<1>2. \A j \in DOMAIN orders : orders[j].num = n => j = k
  BY <1>1 DEF NumbersInv, FirstOrder
<1>3. (CHOOSE j \in DOMAIN orders : orders[j].num = n) = k
  BY <1>2
<1> QED BY <1>3 DEF StatusOf

\* The thread's steps that OrderBook does not see.
LEMMA UnseenSteps ==
  ASSUME BookInv, [Work]_state, NEW c \in Clients,
         \/ Open(c) \/ FirstLock(c) \/ FirstUnlock(c) \/ Receive(c) \/ Acquire(c)
         \/ AddTest(c) \/ ConfirmEnter(c) \/ CancelApply(c) \/ Release(c) \/ Leave(c)
  PROVE  UNCHANGED Book!vars
<1>i. /\ StateOK /\ MessageInv /\ MutexInv /\ RequestsInv /\ RequestInv(c)
      /\ BookJob' = [BookJob EXCEPT ![c] = BookJob'[c]]
      /\ BookAnswer' = [BookAnswer EXCEPT ![c] = BookAnswer'[c]]
      /\ BookJob = [d \in Clients |-> BookJob[d]] /\ BookAnswer = [d \in Clients |-> BookAnswer[d]]
  BY OneAnswered DEF BookInv, Inv, RequestsInv, BookJob, BookAnswer, Service, Handle
<1>j. BookOrdersShown /\ BookOrdersShown'
  <2>1. StateOK' /\ MutexInv'
    BY <1>i, TypeNext, MutexNext
  <2>2. (StateOK /\ MutexInv => BookOrdersShown)'
    BY ShownOrders, PTL
  <2> QED BY <1>i, <2>1, <2>2, ShownOrders
<1>n. ASSUME BookOrders' = BookOrders, BookJob'[c] = BookJob[c], BookAnswer'[c] = BookAnswer[c]
      PROVE  UNCHANGED Book!vars
  <2>1. BookJob' = BookJob /\ BookAnswer' = BookAnswer
    BY <1>i, <1>n
  <2>2. UNCHANGED <<available, onHold, pickup, delivery>>
    BY DEF Open, FirstLock, FirstUnlock, Receive, Acquire, AddTest, ConfirmEnter, CancelApply, Release, Leave, stock,
       robots
  <2> QED BY <1>n, <2>1, <2>2 DEF Book!vars
<1>a. BookAnswer'[c] = BookAnswer[c]
  BY <1>i DEF Open, FirstLock, FirstUnlock, Receive, Acquire, AddTest, ConfirmEnter, CancelApply, Release, Leave,
     Goto, Serves, wire, StateOK, BookAnswer
<1>l. ASSUME ~ ConfirmEnter(c), ~ CancelApply(c) PROVE BookOrders' = BookOrders
  <2>1. UNCHANGED orders /\ spc[c] \notin {"queue", "cancel"} /\ spc'[c] \notin {"queue", "cancel"}
    BY <1>i, <1>l DEF Open, FirstLock, FirstUnlock, Receive, Acquire, AddTest, Serves, Release, Leave, Goto,
       StateOK, list
  <2>2. \A d \in Clients : d # c => spc'[d] = spc[d] /\ msg'[d] = msg[d]
    BY <1>i, OthersSame DEF Service, Handle, Same
  <2> QED BY <2>1, <2>2, ListLooksSame
<1>1. CASE Open(c) \/ FirstLock(c) \/ FirstUnlock(c) \/ Acquire(c) \/ AddTest(c) \/ Release(c)
  <2>1. BookJob'[c] = BookJob[c]
    BY <1>1, <1>i DEF Open, FirstLock, FirstUnlock, Acquire, AddTest, Serves, Release, Goto, wire, StateOK,
       BookJob
  <2> QED BY <1>1, <1>a, <1>l, <1>n, <2>1 DEF Open, FirstLock, FirstUnlock, Acquire, AddTest, Goto, StateOK, Release,
          ConfirmEnter, CancelApply, Serves
<1>2. CASE Receive(c)
  <2>1. req'[c] = NoMsg /\ spc'[c] = "lock"
    BY <1>2, <1>i DEF Receive, Goto, StateOK
  <2>2. \/ req[c] # NoMsg /\ msg'[c] = req[c]
        \/ req[c] = NoMsg /\ msg'[c] = Eof
    BY <1>2, <1>i DEF Receive, StateOK
  <2>3. Goodbye \notin Request /\ Eof \notin Request
    BY NullAssumption DEF Request, Goodbye
  <2>4. req[c] \in Request \cup {Goodbye, NoMsg} /\ spc[c] = "recv"
    BY <1>2, <1>i DEF Receive, StateOK
  <2>5. BookJob'[c] = BookJob[c]
    BY <2>1, <2>2, <2>3, <2>4 DEF BookJob
  <2> QED BY <1>2, <1>a, <1>l, <1>n, <2>5 DEF Receive, ConfirmEnter, CancelApply, Serves
<1>3. CASE Leave(c)
  <2>1. spc[c] = "serve" /\ spc'[c] = "exit" /\ msg[c] \notin Request /\ req[c] = NoMsg /\ req'[c] = NoMsg
    BY <1>3, <1>i, NullAssumption DEF Leave, Goto, StateOK, RequestInv, Handling, wire, Request, Goodbye
  <2>2. BookJob'[c] = BookJob[c]
    BY <2>1 DEF BookJob
  <2> QED BY <1>3, <1>a, <1>l, <1>n, <2>1, <2>2 DEF ConfirmEnter, CancelApply, Serves, Leave, Goodbye
\* The new order is not shown before it is queued.
<1>4. CASE ConfirmEnter(c)
  <2>1. BookOrders = orders
    BY <1>4, <1>i, <1>j, OneEnters DEF BookOrdersShown, ConfirmEnter, Serves, Serving
  <2>2. spc'[c] = "queue" /\ Len(orders') - 1 = Len(orders) /\ orders \in Seq(Order)
        /\ orders' = Append(orders, NewOrder(c))
    BY <1>4, <1>i DEF ConfirmEnter, Goto, StateOK
  <2>3. BookOrders' = [k \in 1..(Len(orders') - 1) |-> orders'[k]]
    BY <1>j, <2>2 DEF BookOrdersShown
  <2>4. [k \in 1..Len(orders) |-> orders'[k]] = orders
    BY <2>2
  <2>5. BookJob'[c] = BookJob[c]
    BY <1>4, <1>i DEF ConfirmEnter, Serves, Goto, wire, StateOK, BookJob
  <2> QED BY <1>a, <1>n, <2>1, <2>2, <2>3, <2>4, <2>5
\* A cancelled order has been shown as such.
<1>5. CASE CancelApply(c)
  <2>1. BookOrders = [k \in DOMAIN orders |->
                        IF orders[k].num = msg[c].num
                        THEN [orders[k] EXCEPT !.status = "Cancelled"] ELSE orders[k]]
    BY <1>5, <1>j DEF BookOrdersShown, CancelApply
  <2>2. BookOrders = orders'
    BY <1>5, <2>1 DEF CancelApply, ChangeStatus
  <2>3. \A d \in Clients : spc'[d] # "queue" /\ spc'[d] # "cancel"
    BY <1>5, <1>i, OneEnters DEF CancelApply, Serving, Goto, StateOK
  <2>4. BookOrders' = orders'
    BY <1>j, <2>3 DEF BookOrdersShown
  <2>5. BookJob'[c] = BookJob[c]
    BY <1>5, <1>i DEF CancelApply, Goto, wire, StateOK, BookJob
  <2> QED BY <1>a, <1>n, <2>2, <2>4, <2>5
<1> QED BY <1>1, <1>2, <1>3, <1>4, <1>5

\* The thread's steps in which a request takes effect, or is answered.
LEMMA SeenSteps ==
  ASSUME BookInv, [Work]_state, NEW c \in Clients,
         \/ Search(c) \/ AddHold(c) \/ AddRefuse(c) \/ ConfirmQueue(c) \/ SendReply(c)
         \/ CancelCheck(c) \/ CancelTooLate(c) \/ CancelUnanswered(c)
  PROVE  Book!Next \/ UNCHANGED Book!vars
<1>i. /\ StateOK /\ MessageInv /\ MutexInv /\ HoldInv /\ RequestsInv /\ RequestInv(c) /\ NumbersInv
      /\ BookJob' = [BookJob EXCEPT ![c] = BookJob'[c]]
      /\ BookAnswer' = [BookAnswer EXCEPT ![c] = BookAnswer'[c]]
      /\ BookJob = [d \in Clients |-> BookJob[d]] /\ BookAnswer = [d \in Clients |-> BookAnswer[d]]
  BY OneAnswered DEF BookInv, Inv, RequestsInv, BookJob, BookAnswer, Service, Handle
<1>o. orders \in Seq(Order) /\ DOMAIN orders = 1..Len(orders) /\ Len(orders) \in Nat
  BY <1>i, LenProperties DEF StateOK
<1>d. delivery' = delivery
  BY DEF Search, AddTest, AddHold, AddRefuse, AddReply, ConfirmQueue, SendReply, CancelCheck, CancelTooLate,
     CancelUnanswered, robots
<1>j. BookOrdersShown /\ BookOrdersShown'
  <2>1. StateOK' /\ MutexInv'
    BY <1>i, TypeNext, MutexNext
  <2>2. (StateOK /\ MutexInv => BookOrdersShown)'
    BY ShownOrders, PTL
  <2> QED BY <1>i, <2>1, <2>2, ShownOrders
\* A request that is served is one of OrderBook's jobs.
<1>q. ASSUME spc[c] \in {"serve", "hold"}, msg[c] \in Request
      PROVE  /\ msg[c] # NoMsg /\ BookJob[c] = msg[c] /\ BookAnswer[c] = resp[c] /\ req[c] = NoMsg
             /\ BookOrders = orders
  <2>1. BookJob[c] = msg[c] /\ BookAnswer[c] = resp[c] /\ req[c] = NoMsg
    BY <1>i, <1>q, BookJobFacts DEF BookAnswer, RequestInv, Handling
  <2>2. \A d \in Clients : spc[d] # "queue" /\ spc[d] # "cancel"
    BY <1>i, <1>q, OneEnters DEF Serving
  <2> QED BY <1>j, <1>q, <2>1, <2>2, NullAssumption DEF BookOrdersShown
<1>s. ASSUME NEW type \in {"SEARCH", "ADD", "CONFIRM", "CANCEL"}, Serves(c, type)
      PROVE  /\ msg[c] \in Request /\ msg[c].type = type /\ msg[c] # NoMsg
             /\ BookJob[c] = msg[c] /\ BookAnswer[c] = resp[c] /\ req[c] = NoMsg
             /\ BookOrders = orders
  <2>1. spc[c] = "serve" /\ msg[c] \in Request /\ msg[c].type = type
    BY <1>s, <1>i DEF Serves, MessageInv, Goodbye
  <2> QED BY <1>q, <2>1
\* A response sent at once: heard by the client, or lost because it is gone.
<1>r. ASSUME NEW r, Send(c, r), BookJob[c] = msg[c], BookAnswer[c] = resp[c], req[c] = NoMsg, req' = req,
             spc'[c] \in {"unlock", "cancel"}
      PROVE  Book!Reply(c, r)
  <2>1. BookJob'[c] = NoMsg
    BY <1>r DEF BookJob
  <2>2. BookAnswer'[c] = IF cpc[c] = "wait" THEN r ELSE NoMsg
    BY <1>i, <1>r DEF Send, BookAnswer, StateOK
  <2>3. CASE cpc[c] = "wait"
    BY <1>i, <2>1, <2>2, <2>3 DEF Book!Reply
  <2>4. CASE cpc[c] # "wait"
    <3>1. BookAnswer[c] = NoMsg
      BY <1>i, <1>r, <2>4 DEF RequestInv
    <3>2. BookAnswer' = BookAnswer
      BY <1>i, <2>2, <2>4, <3>1
    <3> QED BY <1>i, <2>1, <3>2 DEF Book!Reply
  <2> QED BY <2>3, <2>4
\* A reply prepared, to be sent in a step of its own.
<1>p. ASSUME NEW r, reply'[c] = r, req[c] = NoMsg, req' = req, spc'[c] = "reply"
      PROVE  Book!Reply(c, r)
  <2>1. BookJob'[c] = NoMsg /\ BookAnswer'[c] = r
    BY <1>p DEF BookJob, BookAnswer
  <2> QED BY <1>i, <2>1 DEF Book!Reply
\* Steps that leave the list alone and put no thread where it looks ahead.
<1>l. ASSUME UNCHANGED orders, spc[c] \notin {"queue", "cancel"}, spc'[c] \notin {"queue", "cancel"}
      PROVE  BookOrders' = BookOrders
  <2>1. \A d \in Clients : d # c => spc'[d] = spc[d] /\ msg'[d] = msg[d]
    BY <1>i, OthersSame DEF Service, Handle, Same
  <2> QED BY <1>l, <2>1, ListLooksSame
<1>1. CASE Search(c)
  <2>1. Serves(c, "SEARCH") /\ spc'[c] = "unlock" /\ UNCHANGED <<req, orders, stock, pickup>>
    BY <1>1, <1>i DEF Search, Goto, StateOK, list
  <2>2. BookOrders' = BookOrders
    BY <1>l, <2>1 DEF Serves
  <2>3. Book!Reply(c, [type |-> "SEARCH", results |-> Find(msg[c]),
                        status |-> IF Find(msg[c]) = {} THEN "ERROR" ELSE "OK"])
    BY <1>1, <1>r, <1>s, <2>1 DEF Search
  <2>4. Book!Search(c)
    BY <1>d, <1>s, <2>1, <2>2, <2>3 DEF Book!Search, Book!Found, Find, Book!stock, stock
  <2> QED BY <1>s, <2>1, <2>4 DEF Book!Process, Book!Next
<1>2. CASE AddHold(c)
  <2>1. spc[c] = "hold" /\ spc'[c] = "reply" /\ UNCHANGED <<req, orders, pickup>>
    BY <1>2, <1>i DEF AddHold, AddReply, Goto, StateOK, list, wire
  <2>2. BookOrders' = BookOrders
    BY <1>l, <2>1
  <2>8. OneItem(msg[c]) /\ msg[c].qty <= available[msg[c].id]
    BY <1>i, <2>1 DEF MessageInv, HoldInv
  <2>3. msg[c].id \in Items /\ Find(msg[c]) = {msg[c].id}
    BY <2>8, FoundAlone DEF OneItem
  <2>9. /\ msg[c] # NoMsg /\ BookJob[c] = msg[c] /\ BookAnswer[c] = resp[c] /\ req[c] = NoMsg
        /\ BookOrders = orders /\ msg[c].type = "ADD"
    BY <1>q, <2>1, <2>8 DEF OneItem
  <2>4. reply'[c] = [type |-> "ADD", results |-> Find(msg[c]), status |-> "OK"]
    BY <1>2, <1>i DEF AddHold, AddReply, StateOK
  <2>5. Book!Reply(c, [type |-> "ADD", results |-> {msg[c].id}, status |-> "OK"])
    BY <1>p, <2>1, <2>3, <2>4, <2>9
  <2>6. /\ available' = [available EXCEPT ![msg[c].id] = @ - msg[c].qty]
        /\ onHold' = [onHold EXCEPT ![msg[c].id] = @ + msg[c].qty]
    BY <1>2 DEF AddHold
  <2>7. Book!Reserve(c)
    BY <1>d, <2>1, <2>2, <2>3, <2>5, <2>6, <2>8, <2>9 DEF Book!Reserve, Book!Found, Find
  <2> QED BY <2>7, <2>9 DEF Book!Process, Book!Next
<1>3. CASE AddRefuse(c)
  <2>1. Serves(c, "ADD") /\ spc'[c] = "reply" /\ UNCHANGED <<req, orders, stock, pickup>>
    BY <1>3, <1>i DEF AddRefuse, AddReply, Goto, StateOK, list, wire
  <2>2. BookOrders' = BookOrders
    BY <1>l, <2>1 DEF Serves
  <2>3. ASSUME msg[c].id \in Items, Find(msg[c]) = {msg[c].id} PROVE msg[c].qty > available[msg[c].id]
    <3>1. ~ (msg[c].qty <= available[msg[c].id])
      BY <1>3, <1>s, <2>1, <2>3, FoundAlone DEF AddRefuse, Holdable
    <3>2. msg[c].qty \in Int /\ available[msg[c].id] \in Int
      BY <1>i, <1>s, <2>1, <2>3, RequestFields DEF StateOK
    <3> QED BY <3>1, <3>2
  <2>4. reply'[c] = [type |-> "ADD", results |-> Find(msg[c]), status |-> "ERROR"]
    BY <1>3, <1>i DEF AddRefuse, AddReply, StateOK
  <2>5. Book!Reply(c, [type |-> "ADD", results |-> Find(msg[c]), status |-> "ERROR"])
    BY <1>p, <1>s, <2>1, <2>4
  <2>6. Book!Refuse(c)
    BY <1>d, <1>s, <2>1, <2>2, <2>3, <2>5 DEF Book!Refuse, Book!Found, Find, Book!stock, stock
  <2> QED BY <1>s, <2>1, <2>6 DEF Book!Process, Book!Next
\* The order counts from here on.
<1>4. CASE ConfirmQueue(c)
  <2> DEFINE num == FirstOrder + Len(BookOrders)
             entry == [num |-> num, status |-> "Confirmed", items |-> msg[c].items]
  <2>1. /\ spc[c] = "queue" /\ spc'[c] = "reply" /\ pickup' = Append(pickup, reply[c].num)
        /\ UNCHANGED <<req, orders, stock, reply, msg>>
    BY <1>4, <1>i DEF ConfirmQueue, Goto, StateOK, list, wire
  <2>2. /\ msg[c] \in Request /\ msg[c].type = "CONFIRM"
        /\ orders[Len(orders)] = [num |-> orderID - 1, status |-> "Confirmed", items |-> msg[c].items]
        /\ reply[c] = [type |-> "CONFIRM", num |-> orderID - 1, status |-> "OK"]
    BY <2>1 DEF BookInv, EnteringInv
  <2>3. Len(orders) > 0 /\ orderID - 1 = FirstOrder + (Len(orders) - 1)
    BY <1>i, <1>o, <2>1 DEF NumbersInv, FirstOrder
  <2>4. BookOrders = [k \in 1..(Len(orders) - 1) |-> orders[k]]
    BY <1>j, <2>1 DEF BookOrdersShown
  <2>5. BookOrders \in Seq(Order) /\ Len(BookOrders) = Len(orders) - 1
    <3>1. Len(orders) - 1 \in Nat
      BY <1>o, <2>3
    <3>2. \A k \in 1..(Len(orders) - 1) : orders[k] \in Order
      BY <1>o, ElementOfSeq
    <3> QED BY <2>4, <3>1, <3>2
  <2>6. BookOrders' = orders
    <3>1. \A d \in Clients : spc'[d] # "queue" /\ spc'[d] # "cancel"
      BY <1>i, <2>1, OneEnters, OthersSame DEF Serving, Service, Handle, Same
    <3> QED BY <1>j, <2>1, <3>1 DEF BookOrdersShown
  <2>7. orders[Len(orders)] = entry
    BY <2>2, <2>3, <2>5
  <2>8. entry \in Order
    BY <1>o, <2>3, <2>7, ElementOfSeq
  <2> HIDE DEF entry, num
  <2>9. BookOrders' = Append(BookOrders, entry)
    <3> DEFINE longer == Append(BookOrders, entry)
    <3>1. /\ longer \in Seq(Order) /\ Len(longer) = Len(BookOrders) + 1
          /\ \A k \in 1..Len(BookOrders) : longer[k] = BookOrders[k]
          /\ longer[Len(BookOrders) + 1] = entry
      BY <2>5, <2>8, AppendProperties
    <3> HIDE DEF longer
    <3>2. Len(longer) = Len(orders) /\ longer[Len(orders)] = entry
      BY <1>o, <2>3, <2>5, <3>1
    <3>3. \A k \in 1..(Len(orders) - 1) : longer[k] = orders[k]
      BY <2>4, <2>5, <3>1
    <3>4. \A k \in 1..Len(orders) : longer[k] = orders[k]
      BY <1>o, <2>7, <3>2, <3>3
    <3>5. longer = orders
      BY <1>o, <3>1, <3>2, <3>4, SeqEqual
    <3> QED BY <2>6, <3>5 DEF longer
  <2>10. orderID - 1 = num
    BY <2>3, <2>5 DEF num
  <2>11. BookJob[c] = msg[c] /\ msg[c] # NoMsg /\ req[c] = NoMsg
    BY <1>i, <2>1, <2>2, BookJobFacts, NullAssumption DEF RequestInv, Handling
  <2>12. Book!Reply(c, [type |-> "CONFIRM", num |-> num, status |-> "OK"])
    BY <1>p, <2>1, <2>2, <2>10, <2>11
  <2>13. Book!Confirm(c)
    BY <1>d, <2>1, <2>2, <2>9, <2>10, <2>11, <2>12 DEF Book!Confirm, Book!stock, stock, entry, num
  <2> QED BY <2>11, <2>13 DEF Book!Process, Book!Next
<1>5. CASE SendReply(c)
  <2>1. /\ spc[c] = "reply" /\ spc'[c] = "unlock" /\ Send(c, reply[c])
        /\ UNCHANGED <<req, orders, stock, pickup, msg>>
    BY <1>5, <1>i DEF SendReply, Goto, StateOK, list
  <2>2. BookOrders' = BookOrders
    BY <1>l, <2>1
  <2>3. BookJob'[c] = BookJob[c]
    BY <2>1 DEF BookJob
  <2>4. BookAnswer[c] = reply[c] /\ BookAnswer'[c] = IF cpc[c] = "wait" THEN reply[c] ELSE NoMsg
    BY <1>i, <2>1 DEF Send, BookAnswer, StateOK
  <2>5. BookJob' = BookJob
    BY <1>i, <2>3
  <2>6. CASE cpc[c] = "wait"
    <3>1. BookAnswer' = BookAnswer
      BY <1>i, <2>4, <2>6
    <3> QED BY <1>d, <2>1, <2>2, <2>5, <3>1 DEF Book!vars, stock
  <2>7. CASE cpc[c] # "wait"
    <3>1. reply[c] # NoMsg
      BY <1>i, <2>1, NullAssumption DEF MessageInv
    <3>2. Book!Deliver(c)
      BY <1>d, <1>i, <2>1, <2>2, <2>4, <2>5, <2>7, <3>1 DEF Book!Deliver, Book!stock, stock
    <3> QED BY <3>2 DEF Book!Next
  <2> QED BY <2>6, <2>7
<1>c. ASSUME Serves(c, "CANCEL"), NEW k \in DOMAIN orders, orders[k].num = msg[c].num
      PROVE  StatusOf(msg[c].num) = orders[k].status
  BY <1>i, <1>o, <1>c, StatusFact
\* The cancellation counts when it is acknowledged.
<1>6. CASE CancelCheck(c)
  <2>1. /\ Serves(c, "CANCEL") /\ spc'[c] = "cancel" /\ StatusOf(msg[c].num) = "Confirmed"
        /\ UNCHANGED <<req, orders, stock, pickup, msg>>
    BY <1>6, <1>i DEF CancelCheck, Goto, StateOK, list
  <2>2. BookOrders' = [k \in DOMAIN orders |->
                         IF orders[k].num = msg[c].num
                         THEN [orders[k] EXCEPT !.status = "Cancelled"] ELSE orders[k]]
    BY <1>j, <2>1 DEF BookOrdersShown
  <2>3. \A k \in DOMAIN orders : orders[k].num = msg[c].num => orders[k].status = "Confirmed"
    BY <1>c, <2>1
  <2>4. Book!Reply(c, [type |-> "CANCEL", status |-> "OK"])
    BY <1>6, <1>r, <1>s, <2>1 DEF CancelCheck
  <2>5. Book!Cancel(c)
    BY <1>d, <1>s, <2>1, <2>2, <2>3, <2>4 DEF Book!Cancel, Book!stock, stock
  <2> QED BY <1>s, <2>1, <2>5 DEF Book!Process, Book!Next
<1>7. CASE CancelTooLate(c)
  <2>1. /\ Serves(c, "CANCEL") /\ spc'[c] = "unlock" /\ StatusOf(msg[c].num) = "Cancelled"
        /\ UNCHANGED <<req, orders, stock, pickup, msg>>
    BY <1>7, <1>i DEF CancelTooLate, Goto, StateOK, list
  <2>2. BookOrders' = BookOrders
    BY <1>l, <2>1 DEF Serves
  <2>3. \E k \in DOMAIN orders : orders[k].num = msg[c].num /\ orders[k].status = "Cancelled"
    <3>1. PICK k \in DOMAIN orders : orders[k].num = msg[c].num
      BY <2>1 DEF StatusOf
    <3> QED BY <1>c, <2>1, <3>1
  <2>4. Book!Reply(c, [type |-> "CANCEL", status |-> "ERROR"])
    BY <1>7, <1>r, <1>s, <2>1 DEF CancelTooLate
  <2>5. Book!CancelTooLate(c)
    BY <1>d, <1>s, <2>1, <2>2, <2>3, <2>4 DEF Book!CancelTooLate, Book!Late, Book!stock, stock
  <2> QED BY <1>s, <2>1, <2>5 DEF Book!Process, Book!Next
\* A request that is dropped.
<1>8. CASE CancelUnanswered(c)
  <2>1. /\ Serves(c, "CANCEL") /\ spc'[c] = "unlock" /\ StatusOf(msg[c].num) = "LOADING"
        /\ UNCHANGED <<req, resp, orders, stock, pickup, msg>>
    BY <1>8, <1>i DEF CancelUnanswered, Goto, StateOK, list, wire
  <2>2. BookOrders' = BookOrders
    BY <1>l, <2>1 DEF Serves
  <2>3. \E k \in DOMAIN orders : orders[k].num = msg[c].num /\ orders[k].status = "LOADING"
    <3>1. PICK k \in DOMAIN orders : orders[k].num = msg[c].num
      BY <2>1 DEF StatusOf
    <3> QED BY <1>c, <2>1, <3>1
  <2>4. BookJob'[c] = NoMsg /\ BookAnswer'[c] = BookAnswer[c]
    BY <1>s, <2>1 DEF BookJob, BookAnswer, Serves
  <2>5. BookJob' = [BookJob EXCEPT ![c] = NoMsg] /\ BookAnswer' = BookAnswer
    BY <1>i, <2>4
  <2>6. Book!CancelDropped(c)
    BY <1>d, <1>s, <2>1, <2>2, <2>3, <2>5 DEF Book!CancelDropped, Book!Late, Book!stock, stock
  <2> QED BY <1>s, <2>1, <2>6 DEF Book!Process, Book!Next
<1> QED BY <1>1, <1>2, <1>3, <1>4, <1>5, <1>6, <1>7, <1>8

\* A robot and the truck monitor hand orders on; a thread between the check of a
\* status and its change does not see the monitor write over it.
LEMMA HandedOnBook ==
  ASSUME BookInv, [Work]_state, RobotPicks \/ MonitorTakes \/ MonitorLoads
  PROVE  Book!Next \/ UNCHANGED Book!vars
<1>i. StateOK /\ MutexInv /\ NumbersInv /\ PipelineInv
  BY DEF BookInv, Inv
<1>u. UNCHANGED <<stock, spc, msg>> /\ BookJob' = BookJob /\ BookAnswer' = BookAnswer
  BY DEF RobotPicks, MonitorTakes, MonitorLoads, wire, thread, BookJob, BookAnswer
<1>l. ASSUME orders' = orders PROVE BookOrders' = BookOrders
  BY <1>l, <1>u, ListLooksSame
<1>1. CASE RobotPicks
  <2>1. BookOrders' = BookOrders
    BY <1>1, <1>l DEF RobotPicks, list
  <2>2. Book!Pick
    BY <1>1, <1>u, <2>1 DEF RobotPicks, Book!Pick, Book!stock, stock
  <2> QED BY <2>2 DEF Book!Next
<1>2. CASE MonitorTakes
  <2>1. BookOrders' = BookOrders
    BY <1>2, <1>l DEF MonitorTakes, list
  <2> QED BY <1>2, <1>u, <2>1 DEF MonitorTakes, Book!vars, stock
<1>3. CASE MonitorLoads
  <2> DEFINE k == Len(delivery) + 1
  <2>o. /\ orders \in Seq(Order) /\ DOMAIN orders = 1..Len(orders) /\ Len(orders) \in Nat
        /\ delivery \in Seq(Int) /\ loading \in Int /\ pickup' = pickup
        /\ Len(delivery) \in Nat /\ Len(pickup) \in Nat
    BY <1>3, <1>i, LenProperties DEF StateOK, MonitorLoads
  <2>1. k \in DOMAIN orders /\ k <= Queued - Len(pickup) /\ loading = FirstOrder + k - 1
    BY <1>3, <1>i, <2>o, LoadingIs DEF MonitorLoads, FirstOrder
  <2>2. orders' = [orders EXCEPT ![k].status = "LOADING"]
    BY <1>3, <1>i, LoadedOrder
  <2>3. Len(delivery') = k
    BY <1>3, <2>o DEF MonitorLoads
  <2>4. BookOrdersShown /\ BookOrdersShown'
    <3>1. StateOK' /\ MutexInv'
      BY <1>i, TypeNext, MutexNext DEF BookInv, Inv
    <3>2. (StateOK /\ MutexInv => BookOrdersShown)'
      BY ShownOrders, PTL
    <3> QED BY <1>i, <3>1, <3>2, ShownOrders
  <2> HIDE DEF k
  <2>5. Len(orders') = Len(orders) /\ DOMAIN orders' = DOMAIN orders
    BY <1>3, <2>o, <2>2, ChangeStatusType, LenProperties DEF MonitorLoads
  <2>6. ASSUME k <= Len(BookOrders), \/ BookOrders' = [BookOrders EXCEPT ![k].status = "LOADING"]
                                     \/ BookOrders[k].status = "Cancelled" /\ BookOrders' = BookOrders,
               Len(BookOrders) = Queued
        PROVE  Book!Load
    BY <1>3, <1>u, <2>1, <2>3, <2>6, <2>o DEF MonitorLoads, Book!Load, Book!stock, stock, k
  <2>7. CASE \A c \in Clients : spc[c] # "queue" /\ spc[c] # "cancel"
    <3>1. BookOrders = orders /\ BookOrders' = orders' /\ Queued = Len(orders)
      BY <1>u, <2>4, <2>7 DEF BookOrdersShown, Queued
    <3> QED BY <2>1, <2>2, <2>6, <2>o, <3>1 DEF Book!Next
  <2>8. ASSUME NEW c \in Clients, spc[c] = "queue" PROVE Book!Load
    <3>1. /\ BookOrders = [j \in 1..(Len(orders) - 1) |-> orders[j]]
          /\ BookOrders' = [j \in 1..(Len(orders) - 1) |-> orders'[j]]
      BY <1>u, <2>4, <2>5, <2>8 DEF BookOrdersShown
    <3>2. Queued = Len(orders) - 1 /\ Len(orders) - 1 \in Nat
      <4>1. Len(orders) > 0
        BY <1>i, <2>8 DEF NumbersInv
      <4>2. Queued = Len(orders) - 1
        BY <2>8 DEF Queued
      <4> QED BY <2>o, <4>1, <4>2
    <3>3. Len(BookOrders) = Queued
      BY <3>1, <3>2
    <3>4. k \in 1..(Len(orders) - 1)
      BY <2>1, <2>o, <3>2
    <3>5. BookOrders' = [BookOrders EXCEPT ![k].status = "LOADING"]
      <4> DEFINE seen == 1..(Len(orders) - 1)
      <4>1. k \in seen /\ seen \subseteq DOMAIN orders
        BY <2>o, <3>4
      <4>2. /\ orders'[k] = [orders[k] EXCEPT !.status = "LOADING"]
            /\ \A j \in DOMAIN orders : j # k => orders'[j] = orders[j]
        BY <2>1, <2>2
      <4> HIDE DEF seen
      <4>3. BookOrders = [j \in seen |-> orders[j]] /\ BookOrders' = [j \in seen |-> orders'[j]]
        BY <3>1 DEF seen
      <4> QED BY <4>1, <4>2, <4>3
    <3> QED BY <2>6, <3>2, <3>3, <3>4, <3>5
  <2>9. ASSUME NEW c \in Clients, spc[c] = "cancel" PROVE Book!Load
    <3> DEFINE n == msg[c].num
               Shows(l) == [j \in DOMAIN orders |->
                              IF l[j].num = n THEN [l[j] EXCEPT !.status = "Cancelled"] ELSE l[j]]
    <3>1. BookOrders = Shows(orders) /\ BookOrders' = Shows(orders')
      BY <1>u, <2>4, <2>5, <2>9 DEF BookOrdersShown
    <3>2. \A d \in Clients : spc[d] # "queue"
      BY <1>i, <2>9, OneEnters DEF Serving
    <3>4. \A j \in DOMAIN orders : orders[j] \in Order
      BY <2>o, ElementOfSeq
    <3>3. Queued = Len(orders) /\ Len(BookOrders) = Len(orders)
      <4>1. BookOrders \in [1..Len(orders) -> Order]
        <5>1. \A j \in DOMAIN orders : [orders[j] EXCEPT !.status = "Cancelled"] \in Order
          BY <3>4 DEF Order
        <5> QED BY <2>o, <3>1, <3>4, <5>1
      <4>2. Len(BookOrders) = Len(orders)
        BY <2>o, <4>1
      <4> QED BY <3>2, <4>2 DEF Queued
    <3>5. /\ \A j \in DOMAIN orders : j # k => orders'[j] = orders[j]
          /\ orders'[k] = [orders[k] EXCEPT !.status = "LOADING"]
          /\ orders'[k].num = orders[k].num
      BY <2>1, <2>2, <3>4 DEF Order
    <3>6. CASE orders[k].num = n
      <4>1. [orders'[k] EXCEPT !.status = "Cancelled"] = [orders[k] EXCEPT !.status = "Cancelled"]
        BY <2>1, <3>4, <3>5 DEF Order
      <4>2. Shows(orders') = Shows(orders)
        BY <3>5, <3>6, <4>1
      <4>3. BookOrders[k].status = "Cancelled"
        BY <2>1, <3>1, <3>4, <3>6 DEF Order
      <4>4. k <= Len(BookOrders)
        BY <2>1, <2>o, <3>3
      <4>5. BookOrders' = BookOrders
        BY <3>1, <4>2
      <4> HIDE DEF Shows, n
      <4> QED BY <2>6, <3>3, <4>3, <4>4, <4>5
    <3>7. CASE orders[k].num # n
      <4>1. Shows(orders') = [Shows(orders) EXCEPT ![k].status = "LOADING"]
        BY <2>1, <3>5, <3>7
      <4>2. k <= Len(BookOrders)
        BY <2>1, <2>o, <3>3
      <4>3. BookOrders' = [BookOrders EXCEPT ![k].status = "LOADING"]
        BY <3>1, <4>1
      <4> HIDE DEF Shows, n
      <4> QED BY <2>6, <3>3, <4>2, <4>3
    <3> QED BY <3>6, <3>7
  <2> QED BY <2>7, <2>8, <2>9 DEF Book!Next
<1> QED BY <1>1, <1>2, <1>3

LEMMA BookNext == BookInv /\ [Work]_state => [Book!Next]_(Book!vars)
<1> SUFFICES ASSUME BookInv, [Work]_state PROVE Book!Next \/ UNCHANGED Book!vars
  OBVIOUS
<1>1. CASE RobotPicks \/ MonitorTakes \/ MonitorLoads
  BY <1>1, HandedOnBook
<1>2. ASSUME NEW c \in Clients, Service(c) PROVE Book!Next \/ UNCHANGED Book!vars
  BY <1>2, UnseenSteps, SeenSteps DEF Service, Handle
<1>3. CASE UNCHANGED state
  <2>1. BookOrders' = BookOrders
    BY <1>3, ListLooksSame DEF state, thread, list
  <2>2. BookJob' = BookJob /\ BookAnswer' = BookAnswer
    BY <1>3 DEF state, wire, thread, BookJob, BookAnswer
  <2> QED BY <1>3, <2>1, <2>2 DEF state, stock, robots, Book!vars
<1> QED BY <1>1, <1>2, <1>3, ClientBook DEF Work

\* Every request takes effect in one step, between being sent and being
\* answered, although the thread takes several, clients may vanish, and robots
\* and the truck monitor pass on orders meanwhile without the mutex.
THEOREM ServiceIsAtomic == Spec => ImplementsOrderBook
<1>1. Inv /\ EnteringInv /\ [Work]_state => EnteringInv'
  BY EnteringNext
<1>2. BookInv /\ [Work]_state => [Book!Next]_(Book!vars)
  BY BookNext
<1> QED BY <1>1, <1>2, StepsWork, BookInvInit, BookInit, Invariance, PTL DEF Spec, BookInv, Book!Spec, ImplementsOrderBook
-------------------------------------------------------------------------------
(***************************************************************************)
(* What clients are promised.  The inventory counts what is on hold, and no *)
(* one counts for whom: that the holds cover every cart, order on its way   *)
(* and order in the list follows from where each request is.  Between the   *)
(* hold and the client that hears of it the units are in no cart; Pending   *)
(* makes the invariant inductive.                                           *)
(***************************************************************************)
\* No unit count in the request r is negative.
NoDebt(r) ==
  /\ r.type = "ADD" => r.qty >= 0
  /\ r.type = "CONFIRM" => \A i \in Items : Units(r.items, i) >= 0

\* Quantities typed are natural numbers here: what a client has or sends is.
NoDebtOf(c) ==
  /\ \A i \in Items : Units(cart[c], i) >= 0
  /\ asked[c] # NoMsg => NoDebt(asked[c])
  /\ req[c] # NoMsg => NoDebt(req[c])
  /\ msg[c] \notin {NoMsg, Eof} => NoDebt(msg[c])

NoDebtInv == \A c \in Clients : NoDebtOf(c)

\* The response r tells of units of item i that are now on hold.
Granted(r, i) == r.type = "ADD" /\ r.status = "OK" /\ i \in r.results

\* Units reserved for client c that it has not heard of yet.
Pending(c, i) ==
  IF /\ cpc[c] = "wait" /\ asked[c].type = "ADD"
     /\ \/ spc[c] = "reply" /\ Granted(reply[c], i)
        \/ resp[c] # NoMsg /\ Granted(resp[c], i)
  THEN asked[c].qty ELSE 0

\* The units of an item that client c may count on.
Claim(c, i) == Promised(c, i) + Pending(c, i)

\* Units of an item promised to all clients, and in all orders of the list.
Claims(i) == Total([c \in Clients |-> Claim(c, i)])
Ordered(i) == Total([k \in DOMAIN orders |-> Units(orders[k].items, i)])

HeldInv == \A i \in Items : Claims(i) + Ordered(i) <= onHold[i]

HoldsInv == Inv /\ NoDebtInv /\ HeldInv

-------------------------------------------------------------------------------
(* Units of an item in a cart. *)
LEMMA UnitsInt ==
  ASSUME NEW k \in Cart, NEW i \in Items
  PROVE  Units(k, i) \in Int
  BY DEF Units, Cart

LEMMA NothingInEmptyCart == \A i \in Items : Units(EmptyCart, i) = 0
  BY DEF Units, EmptyCart

LEMMA CartUnits ==
  ASSUME NEW k \in Cart, NEW i \in Items, NEW results, NEW n \in Int, n >= 0, Units(k, i) >= 0
  PROVE  /\ Units(CartWith(k, results, n), i) >= 0
         /\ Units(CartWith(k, results, n), i) <= Units(k, i) + (IF i \in results THEN n ELSE 0)
<1> DEFINE new == IF i \notin results THEN k[i] ELSE IF k[i] = Absent THEN n ELSE k[i] + n
<1>1. CartWith(k, results, n)[i] = new
  BY DEF CartWith
<1>2. k[i] \in Int \cup {Absent}
  BY DEF Cart
<1>3. Units(CartWith(k, results, n), i) = IF new = Absent THEN 0 ELSE new
  BY <1>1 DEF Units
<1>4. CASE i \notin results
  BY <1>2, <1>3, <1>4 DEF Units
<1>5. CASE i \in results /\ k[i] = Absent
  BY <1>3, <1>5 DEF Units
<1>6. CASE i \in results /\ k[i] # Absent
  <2>1. k[i] \in Int /\ Units(k, i) = k[i]
    BY <1>2, <1>6 DEF Units
  <2> QED BY <1>3, <1>6, <2>1
<1> QED BY <1>4, <1>5, <1>6

-------------------------------------------------------------------------------
LEMMA NoDebtInit == Init => NoDebtInv
<1> SUFFICES ASSUME Init, NEW c \in Clients PROVE NoDebtOf(c)
  BY DEF NoDebtInv
<1> QED BY NothingInEmptyCart DEF Init, NoDebtOf

LEMMA NoDebtNext == Quantities \subseteq Nat /\ StateOK /\ MessageInv /\ NoDebtInv /\ [Work]_state => NoDebtInv'
<1> SUFFICES ASSUME Quantities \subseteq Nat, StateOK, MessageInv, NoDebtInv, [Work]_state, NEW d \in Clients
             PROVE  NoDebtOf(d)'
  BY DEF NoDebtInv
<1>d. \A c \in Clients : NoDebtOf(c)
  BY DEF NoDebtInv
<1>0. ASSUME cart'[d] = cart[d], asked'[d] = asked[d], req'[d] = req[d], msg'[d] = msg[d]
      PROVE  NoDebtOf(d)'
  BY <1>0, <1>d DEF NoDebtOf, NoDebt
<1>1. ASSUME NEW c \in Clients, Client(c), c # d PROVE NoDebtOf(d)'
  <2>1. Same(d)
    BY <1>1, OthersSame
  <2>2. cart'[d] = cart[d]
    BY <1>1 DEF Client, Connect, DoSearch, DoAdd, DoOrder, DeclineOrder, DoCancel, Ask, Choose, Hear,
       DoQuit, Die, StateOK
  <2> QED BY <1>0, <2>1, <2>2 DEF Same
<1>2. ASSUME NEW c \in Clients, Service(c), c # d PROVE NoDebtOf(d)'
  <2>1. Same(d)
    BY <1>2, OthersSame
  <2>2. cart'[d] = cart[d]
    BY <1>2 DEF Service, Handle, Open, FirstLock, FirstUnlock, Receive, Acquire, Search, AddTest, AddHold, AddRefuse,
       AddReply, ConfirmEnter, ConfirmQueue, SendReply, CancelCheck, CancelApply, CancelTooLate, CancelUnanswered,
       Release, Leave, client
  <2> QED BY <1>0, <2>1, <2>2 DEF Same
<1>3. CASE Client(d)
  <2>1. CASE Connect(d)
    BY <1>0, <2>1 DEF Connect, wire
  <2>2. ASSUME NEW r, Ask(d, r), NoDebt(r),
               UNCHANGED cart \/ cart' = [cart EXCEPT ![d] = EmptyCart]
        PROVE  NoDebtOf(d)'
    <3>1. cart'[d] \in {cart[d], EmptyCart} /\ asked'[d] = r /\ req'[d] = r /\ msg'[d] = msg[d]
      BY <2>2 DEF Ask, Choose, StateOK, thread
    <3>2. \A i \in Items : Units(cart'[d], i) >= 0
      BY <1>d, <3>1, NothingInEmptyCart DEF NoDebtOf
    <3> QED BY <1>d, <2>2, <3>1, <3>2 DEF NoDebtOf
  <2>3. CASE DoSearch(d)
    BY <2>2, <2>3 DEF DoSearch, NoDebt
  <2>4. CASE DoAdd(d)
    <3>1. PICK q \in Queries, n \in Quantities :
            Ask(d, [type |-> "ADD", match |-> q.match, id |-> q.id, qty |-> n]) /\ UNCHANGED cart
      BY <2>4 DEF DoAdd
    <3>2. NoDebt([type |-> "ADD", match |-> q.match, id |-> q.id, qty |-> n])
      BY DEF NoDebt
    <3> QED BY <2>2, <3>1, <3>2
  <2>5. CASE DoOrder(d)
    <3>1. NoDebt([type |-> "CONFIRM", items |-> cart[d]])
      BY <1>d DEF NoDebtOf, NoDebt
    <3> QED BY <2>2, <2>5, <3>1 DEF DoOrder
  <2>6. CASE DoCancel(d)
    BY <2>2, <2>6 DEF DoCancel, NoDebt
  <2>7. CASE DeclineOrder(d)
    BY <1>d, <2>7, NothingInEmptyCart DEF DeclineOrder, Choose, NoDebtOf, NoDebt, StateOK, wire, thread
  <2>8. CASE Hear(d)
    <3>1. asked[d] \in Request /\ asked[d] # NoMsg /\ NoDebt(asked[d])
      BY <1>d, <2>8, NullAssumption DEF Hear, MessageInv, NoDebtOf
    <3>2. \A i \in Items : Units(cart'[d], i) >= 0
      <4>1. CASE asked[d].type = "ADD" /\ resp[d].status = "OK"
        <5>1. asked[d].qty \in Int /\ asked[d].qty >= 0
          BY <3>1, <4>1, RequestFields DEF NoDebt
        <5>2. cart'[d] = CartWith(cart[d], resp[d].results, asked[d].qty) /\ cart[d] \in Cart
          BY <2>8, <4>1 DEF Hear, StateOK
        <5> QED BY <1>d, <5>1, <5>2, CartUnits DEF NoDebtOf
      <4>2. CASE ~ (asked[d].type = "ADD" /\ resp[d].status = "OK")
        BY <1>d, <2>8, <4>2 DEF Hear, NoDebtOf, StateOK
      <4> QED BY <4>1, <4>2
    <3> QED BY <1>d, <2>8, <3>2 DEF Hear, NoDebtOf, NoDebt, StateOK, thread
  <2>9. CASE DoQuit(d) \/ Die(d)
    BY <1>d, <2>9, NothingInEmptyCart DEF DoQuit, Die, NoDebtOf, NoDebt, StateOK, thread, Goodbye
  <2> QED BY <1>3, <2>1, <2>3, <2>4, <2>5, <2>6, <2>7, <2>8, <2>9 DEF Client
<1>4. CASE Service(d)
  <2>1. CASE Receive(d)
    BY <1>d, <2>1 DEF Receive, NoDebtOf, NoDebt, StateOK, client
  <2>2. CASE Release(d) \/ Leave(d)
    BY <1>d, <2>2 DEF Release, Leave, NoDebtOf, NoDebt, StateOK, client, wire
  <2>3. CASE Service(d) /\ ~ Receive(d) /\ ~ Release(d) /\ ~ Leave(d)
    <3>1. cart' = cart /\ asked' = asked /\ req' = req /\ msg' = msg
      BY <2>3 DEF Service, Handle, Open, FirstLock, FirstUnlock, Acquire, Search, AddTest, AddHold, AddRefuse,
         AddReply, ConfirmEnter, ConfirmQueue, SendReply, CancelCheck, CancelApply, CancelTooLate, CancelUnanswered,
         client, wire
    <3> QED BY <1>0, <3>1
  <2> QED BY <1>4, <2>1, <2>2, <2>3
<1>5. CASE RobotPicks \/ MonitorTakes \/ MonitorLoads \/ UNCHANGED state
  BY <1>0, <1>5 DEF RobotPicks, MonitorTakes, MonitorLoads, state, client, wire, thread
<1> QED BY <1>1, <1>2, <1>3, <1>4, <1>5 DEF Work

-------------------------------------------------------------------------------
(* Types of the sums. *)
LEMMA ClaimType ==
  ASSUME StateOK, MessageInv, NEW c \in Clients, NEW i \in Items
  PROVE  Claim(c, i) \in Int /\ Promised(c, i) \in Int /\ Pending(c, i) \in Int
<1>1. Units(cart[c], i) \in Int
  BY UnitsInt DEF StateOK
<1>2. ASSUME NEW r \in Request \cup {Goodbye}, r.type = "CONFIRM" PROVE Units(r.items, i) \in Int
  BY <1>2, RequestFields, UnitsInt
<1>3. req[c] # NoMsg => req[c] \in Request \cup {Goodbye}
  BY DEF StateOK
<1>4. spc[c] \in {"lock", "serve"} /\ msg[c] # Eof => msg[c] \in Request \cup {Goodbye}
  BY DEF MessageInv
<1>5. cpc[c] = "wait" /\ asked[c].type = "ADD" => asked[c].qty \in Int
  BY RequestFields DEF MessageInv
<1>6. Promised(c, i) \in Int
  BY <1>1, <1>2, <1>3, <1>4 DEF Promised
<1>7. Pending(c, i) \in Int
  BY <1>5 DEF Pending
<1> QED BY <1>6, <1>7 DEF Claim

LEMMA OrderUnitsType ==
  ASSUME StateOK, NEW i \in Items
  PROVE  /\ IsFiniteSet(DOMAIN orders)
         /\ [k \in DOMAIN orders |-> Units(orders[k].items, i)] \in [DOMAIN orders -> Int]
         /\ Ordered(i) \in Int
<1>1. orders \in Seq(Order) /\ DOMAIN orders = 1..Len(orders) /\ Len(orders) \in Nat
  BY LenProperties DEF StateOK
<1>2. IsFiniteSet(DOMAIN orders)
  BY <1>1, FS_Interval
<1>3. ASSUME NEW k \in DOMAIN orders PROVE Units(orders[k].items, i) \in Int
  <2>1. orders[k] \in Order
    BY <1>1
  <2> QED BY <2>1, UnitsInt DEF Order
<1>4. [k \in DOMAIN orders |-> Units(orders[k].items, i)] \in [DOMAIN orders -> Int]
  BY <1>3
<1>5. Ordered(i) \in Int
  BY <1>2, <1>4, SumInt DEF Ordered
<1> QED BY <1>2, <1>4, <1>5

\* The sum over the list depends on the items only, and an order adds its own.
LEMMA OrderedKept ==
  ASSUME NEW i \in Items, DOMAIN orders' = DOMAIN orders,
         \A k \in DOMAIN orders : orders'[k].items = orders[k].items
  PROVE  Ordered(i)' = Ordered(i)
<1>1. [k \in DOMAIN orders' |-> Units(orders'[k].items, i)] = [k \in DOMAIN orders |-> Units(orders[k].items, i)]
  OBVIOUS
<1>2. Ordered(i)' = Total([k \in DOMAIN orders' |-> Units(orders'[k].items, i)])
  BY DEF Ordered
<1> QED BY <1>1, <1>2 DEF Ordered

\* The function h has one argument more than f, namely x.
OneMore(S, f, x, h) ==
  /\ IsFiniteSet(S) /\ x \notin S
  /\ f \in [S -> Int] /\ h \in [S \cup {x} -> Int] /\ \A y \in S : h[y] = f[y]

LEMMA OneMoreSum == \A S, f, x, h : OneMore(S, f, x, h) => Total(h) = Total(f) + h[x]
  BY SumNext DEF OneMore

LEMMA OrderedGrows ==
  ASSUME StateOK, StateOK', NEW i \in Items, NEW o \in Order, orders' = Append(orders, o)
  PROVE  Ordered(i)' = Ordered(i) + Units(o.items, i)
<1> DEFINE f == [k \in DOMAIN orders |-> Units(orders[k].items, i)]
           h == [k \in DOMAIN orders' |-> Units(orders'[k].items, i)]
           n == Len(orders) + 1
<1>1. orders \in Seq(Order) /\ DOMAIN orders = 1..Len(orders) /\ Len(orders) \in Nat
  BY LenProperties DEF StateOK
<1>2. DOMAIN orders' = DOMAIN orders \cup {n} /\ n \notin DOMAIN orders /\ orders'[n] = o
      /\ \A k \in DOMAIN orders : orders'[k] = orders[k]
  BY <1>1
<1>3. IsFiniteSet(DOMAIN orders) /\ f \in [DOMAIN orders -> Int] /\ Total(f) = Ordered(i)
  BY OrderUnitsType DEF Ordered
<1>4. h \in [DOMAIN orders' -> Int]
  <2>1. orders' \in Seq(Order)
    BY DEF StateOK
  <2>2. ASSUME NEW k \in DOMAIN orders' PROVE Units(orders'[k].items, i) \in Int
    <3>1. orders'[k] \in Order
      BY <2>1, <2>2, ElementOfSeq, LenProperties
    <3> QED BY <3>1, UnitsInt DEF Order
  <2> QED BY <2>2
<1>5. h \in [DOMAIN orders \cup {n} -> Int]
  BY <1>2, <1>4
<1>6. \A k \in DOMAIN orders : h[k] = f[k]
  BY <1>2
<1>7. h[n] = Units(o.items, i)
  BY <1>2
<1>8. Ordered(i)' = Total(h)
  BY DEF Ordered
<1> HIDE DEF f, h, n
<1>9. Total(h) = Total(f) + h[n]
  <2>1. OneMore(DOMAIN orders, f, n, h)
    BY <1>2, <1>3, <1>5, <1>6 DEF OneMore
  <2> QED BY <2>1, OneMoreSum
<1> QED BY <1>3, <1>7, <1>8, <1>9
-------------------------------------------------------------------------------
LEMMA ClaimTypes == StateOK /\ MessageInv => \A d \in Clients, j \in Items : Claim(d, j) \in Int
  BY ClaimType

LEMMA NextClaimTypes ==
  StateOK' /\ MessageInv' => \A d \in Clients, j \in Items : Claim(d, j)' \in Int
<1>1. (StateOK /\ MessageInv => \A d \in Clients, j \in Items : Claim(d, j) \in Int)'
  BY ClaimTypes, PTL
<1> QED BY <1>1

\* What a step does to the units that clients are promised, when it changes
\* them for one client at most.
LEMMA ClaimsMove ==
  ASSUME IsFiniteSet(Clients), StateOK, MessageInv, StateOK', MessageInv',
         NEW c \in Clients, NEW i \in Items,
         \A d \in Clients : d # c => Claim(d, i)' = Claim(d, i)
  PROVE  /\ Claims(i)' = Claims(i) - Claim(c, i) + Claim(c, i)'
         /\ Claims(i) \in Int /\ Claim(c, i) \in Int /\ Claim(c, i)' \in Int
<1> DEFINE f == [d \in Clients |-> Claim(d, i)]
           h == [d \in Clients |-> Claim(d, i)']
<1>1. \A d \in Clients : Claim(d, i) \in Int
  BY ClaimTypes
<1>2. \A d \in Clients : Claim(d, i)' \in Int
  BY NextClaimTypes
<1>3. f \in [Clients -> Int] /\ h \in [Clients -> Int] /\ \A d \in Clients \ {c} : h[d] = f[d]
  BY <1>1, <1>2
<1>4. f[c] = Claim(c, i) /\ h[c] = Claim(c, i)'
  OBVIOUS
<1>5. Claims(i) = Total(f) /\ Claims(i)' = Total(h)
  BY DEF Claims
<1> HIDE DEF f, h
<1>6. Total(h) = Total(f) - f[c] + h[c]
  BY <1>3, SumAt
<1>7. Total(f) \in Int
  BY <1>3, SumInt
<1> QED BY <1>1, <1>2, <1>4, <1>5, <1>6, <1>7

\* A client whose part of the state a step leaves alone keeps its claim.
LEMMA SameClaim ==
  ASSUME NEW d \in Clients, Same(d), cart'[d] = cart[d], NEW i \in Items
  PROVE  Claim(d, i)' = Claim(d, i)
<1>1. Promised(d, i)' = Promised(d, i)
  BY DEF Same, Promised
<1>2. Pending(d, i)' = Pending(d, i)
  BY DEF Same, Pending
<1> QED BY <1>1, <1>2 DEF Claim

LEMMA OthersClaim ==
  ASSUME StateOK, NEW c \in Clients, Client(c) \/ Service(c), NEW i \in Items
  PROVE  \A d \in Clients : d # c => Claim(d, i)' = Claim(d, i)
<1> SUFFICES ASSUME NEW d \in Clients, d # c PROVE Claim(d, i)' = Claim(d, i)
  OBVIOUS
<1>1. Same(d)
  BY OthersSame
<1>2. CASE Client(c)
  <2>1. cart'[d] = cart[d]
    BY <1>2 DEF Client, Connect, DoSearch, DoAdd, DoOrder, DeclineOrder, DoCancel, Ask, Choose, Hear,
       DoQuit, Die, StateOK
  <2> QED BY <1>1, <2>1, SameClaim
<1>3. CASE Service(c)
  <2>1. cart' = cart
    BY <1>3 DEF Service, Handle, Open, FirstLock, FirstUnlock, Receive, Acquire, Search, AddTest, AddHold, AddRefuse,
       AddReply, ConfirmEnter, ConfirmQueue, SendReply, CancelCheck, CancelApply, CancelTooLate, CancelUnanswered,
       Release, Leave, client
  <2> QED BY <1>1, <2>1, SameClaim
<1> QED BY <1>2, <1>3

-------------------------------------------------------------------------------
\* A client's own steps move its units from one place to another, or give
\* them up.
LEMMA ClientClaim ==
  ASSUME StateOK, MessageInv, RequestsInv, NoDebtInv, NEW c \in Clients, Client(c), NEW i \in Items,
         Claim(c, i) \in Int
  PROVE  Claim(c, i)' <= Claim(c, i)
<1>r. RequestInv(c) /\ NoDebtOf(c)
  BY DEF RequestsInv, NoDebtInv
<1>u. Promised(c, i) \in Int /\ Pending(c, i) \in Int /\ Units(cart[c], i) \in Int
  BY ClaimType, UnitsInt DEF StateOK
<1>e. Units(EmptyCart, i) = 0 /\ Units(cart[c], i) >= 0
  BY <1>r, NothingInEmptyCart DEF NoDebtOf
<1>p. Pending(c, i) >= 0
  BY <1>r, NullAssumption DEF NoDebtOf, NoDebt, Pending, MessageInv
<1>1. CASE Connect(c)
  <2>1. Promised(c, i)' = Promised(c, i)
    BY <1>1, <1>r DEF Connect, Promised, RequestInv, Handling, StateOK, wire
  <2>2. Pending(c, i)' = 0
    BY <1>1 DEF Connect, Pending, StateOK
  <2> QED BY <1>u, <1>p, <2>1, <2>2 DEF Claim
\* Nothing is pending after a request is sent or a menu entry refused.
<1>2. ASSUME NEW r \in Request, Ask(c, r), r.type # "CONFIRM", UNCHANGED cart
      PROVE  Claim(c, i)' <= Claim(c, i)
  <2>1. Promised(c, i)' = Promised(c, i)
    BY <1>2, <1>r DEF Ask, Choose, Promised, RequestInv, Handling, StateOK, thread
  <2>2. Pending(c, i)' = 0
    BY <1>2, <1>r DEF Ask, Choose, Pending, RequestInv, Handling, StateOK, thread
  <2> QED BY <1>u, <1>p, <2>1, <2>2 DEF Claim
<1>3. CASE DoSearch(c)
  <2>1. PICK q \in Queries : Ask(c, [type |-> "SEARCH", match |-> q.match, id |-> q.id]) /\ UNCHANGED cart
    BY <1>3 DEF DoSearch
  <2>2. [type |-> "SEARCH", match |-> q.match, id |-> q.id] \in Request
    BY InventoryAssumption DEF Request
  <2> QED BY <1>2, <2>1, <2>2
<1>4. CASE DoAdd(c)
  <2>1. PICK q \in Queries, n \in Quantities :
          Ask(c, [type |-> "ADD", match |-> q.match, id |-> q.id, qty |-> n]) /\ UNCHANGED cart
    BY <1>4 DEF DoAdd
  <2>2. [type |-> "ADD", match |-> q.match, id |-> q.id, qty |-> n] \in Request
    BY InventoryAssumption DEF Request
  <2> QED BY <1>2, <2>1, <2>2
<1>5. CASE DoCancel(c)
  <2>1. PICK n \in CancelNums : Ask(c, [type |-> "CANCEL", num |-> n]) /\ UNCHANGED cart
    BY <1>5 DEF DoCancel
  <2>2. [type |-> "CANCEL", num |-> n] \in Request
    BY InventoryAssumption DEF Request
  <2> QED BY <1>2, <2>1, <2>2
<1>6. CASE DoOrder(c)
  <2> DEFINE r == [type |-> "CONFIRM", items |-> cart[c]]
  <2>1. cpc[c] = "menu" /\ req[c] = NoMsg /\ spc[c] \notin Handling /\ resp[c] = NoMsg
    BY <1>6, <1>r DEF DoOrder, Ask, Choose, RequestInv
  <2>2. req'[c] = r /\ asked'[c] = r /\ cart'[c] = EmptyCart /\ UNCHANGED <<spc, msg, resp>>
    BY <1>6 DEF DoOrder, Ask, StateOK, thread
  <2>3. r # NoMsg /\ r.type = "CONFIRM" /\ r.items = cart[c]
    BY NullAssumption DEF Request, StateOK
  <2>4. Promised(c, i) = Units(cart[c], i)
    BY <1>u, <2>1 DEF Promised, Handling
  <2>5. Promised(c, i)' = Units(cart[c], i)
    BY <1>u, <1>e, <2>1, <2>2, <2>3 DEF Promised, Handling
  <2>6. Pending(c, i)' = 0
    BY <2>2, <2>3 DEF Pending
  <2> QED BY <1>u, <1>p, <2>4, <2>5, <2>6 DEF Claim
<1>7. CASE DeclineOrder(c)
  <2>1. Promised(c, i)' = Promised(c, i) - Units(cart[c], i)
    <3>1. cart'[c] = EmptyCart /\ UNCHANGED <<req, spc, msg>>
      BY <1>7 DEF DeclineOrder, Choose, StateOK, wire, thread
    <3>2. cpc[c] = "menu"
      BY <1>7 DEF DeclineOrder, Choose
    <3>3. Promised(c, i)' = 0 /\ Promised(c, i) = Units(cart[c], i)
      BY <1>r, <1>u, <1>e, <3>1, <3>2 DEF Promised, RequestInv, Handling
    <3> QED BY <1>u, <3>3
  <2>2. Pending(c, i)' = 0
    BY <1>7 DEF DeclineOrder, Choose, Pending, StateOK
  <2> QED BY <1>u, <1>p, <1>e, <2>1, <2>2 DEF Claim
<1>8. CASE Hear(c)
  <2>1. /\ cpc[c] = "wait" /\ resp[c] # NoMsg /\ asked[c] \in Request /\ req[c] = NoMsg /\ spc[c] \notin Handling
        /\ resp[c].type = asked[c].type
    BY <1>8, <1>r DEF Hear, MessageInv, RequestInv, Answers
  <2>2. cpc'[c] = "menu" /\ UNCHANGED <<req, spc, msg>>
    BY <1>8 DEF Hear, StateOK, thread
  <2>3. Pending(c, i)' = 0
    BY <2>2 DEF Pending
  <2>4. Promised(c, i) = Units(cart[c], i)
    BY <1>u, <2>1 DEF Promised, Handling
  <2>5. Promised(c, i)' = Units(cart'[c], i)
    <3>1. Units(cart'[c], i) \in Int
      BY ClientTypes, UnitsInt DEF StateOK
    <3> QED BY <2>1, <2>2, <3>1 DEF Promised, Handling
  <2>6. CASE asked[c].type = "ADD" /\ resp[c].status = "OK"
    <3>1. asked[c].qty \in Int /\ asked[c].qty >= 0
      BY <1>r, <2>1, <2>6, RequestFields, NullAssumption DEF NoDebtOf, NoDebt
    <3>2. cart'[c] = CartWith(cart[c], resp[c].results, asked[c].qty) /\ cart[c] \in Cart
      BY <1>8, <2>6 DEF Hear, StateOK
    <3>3. /\ Units(cart'[c], i) \in Int
          /\ Units(cart'[c], i) <= Units(cart[c], i) + (IF i \in resp[c].results THEN asked[c].qty ELSE 0)
      <4>1. Units(cart'[c], i) \in Int
        BY ClientTypes, UnitsInt DEF StateOK
      <4>2. Units(cart[c], i) >= 0
        BY <1>e
      <4>3. Units(CartWith(cart[c], resp[c].results, asked[c].qty), i)
              <= Units(cart[c], i) + (IF i \in resp[c].results THEN asked[c].qty ELSE 0)
        BY <3>1, <3>2, <4>2, CartUnits
      <4> QED BY <3>2, <4>1, <4>3
    <3>4. Pending(c, i) = IF i \in resp[c].results THEN asked[c].qty ELSE 0
      BY <2>1, <2>6 DEF Pending, Granted, Handling
    <3> QED BY <1>u, <2>3, <2>4, <2>5, <3>1, <3>3, <3>4 DEF Claim
  <2>7. CASE ~ (asked[c].type = "ADD" /\ resp[c].status = "OK")
    <3>1. cart'[c] = cart[c]
      BY <1>8, <2>7 DEF Hear, StateOK
    <3> QED BY <1>u, <1>p, <2>3, <2>4, <2>5, <3>1 DEF Claim
  <2> QED BY <2>6, <2>7
<1>9. CASE DoQuit(c) \/ Die(c)
  <2>1. cart'[c] = EmptyCart /\ UNCHANGED <<spc, msg>> /\ cpc'[c] = "gone"
    BY <1>9 DEF DoQuit, Die, StateOK, thread
  <2>2. (req'[c] = Goodbye /\ req[c] = NoMsg) \/ req'[c] = req[c]
    BY <1>9, <1>r DEF DoQuit, Die, StateOK, RequestInv
  <2>3. Promised(c, i)' = Promised(c, i) - Units(cart[c], i)
    <3> DEFINE sent(q) == IF q # NoMsg /\ q.type = "CONFIRM" THEN Units(q.items, i) ELSE 0
               held == IF spc[c] \in {"lock", "serve"} /\ msg[c] # Eof /\ msg[c].type = "CONFIRM"
                       THEN Units(msg[c].items, i) ELSE 0
    <3>1. sent(req'[c]) = sent(req[c])
      BY <2>2 DEF Goodbye
    <3>2. sent(req[c]) \in Int
      <4>1. req[c] # NoMsg => req[c] \in Request \cup {Goodbye}
        BY DEF StateOK
      <4>2. req[c] # NoMsg /\ req[c].type = "CONFIRM" => Units(req[c].items, i) \in Int
        BY <4>1, UnitsInt, RequestFields
      <4> QED BY <4>2
    <3>3. held \in Int
      BY UnitsInt, RequestFields DEF MessageInv
    <3>4. Promised(c, i) = Units(cart[c], i) + sent(req[c]) + held
      BY DEF Promised
    <3>5. Promised(c, i)' = Units(EmptyCart, i) + sent(req'[c]) + held
      BY <2>1 DEF Promised
    <3> HIDE DEF sent, held
    <3> QED BY <1>u, <1>e, <3>1, <3>2, <3>3, <3>4, <3>5
  <2>4. Pending(c, i)' = 0
    BY <2>1 DEF Pending
  <2> QED BY <1>u, <1>p, <1>e, <2>3, <2>4 DEF Claim
<1> QED BY <1>1, <1>3, <1>4, <1>5, <1>6, <1>7, <1>8, <1>9 DEF Client
-------------------------------------------------------------------------------
\* The steps of the thread that neither hold units nor enter an order.
LEMMA ServiceClaim ==
  ASSUME StateOK, MessageInv, RequestsInv, NoDebtInv, NEW c \in Clients, Service(c),
         ~ AddHold(c), ~ ConfirmEnter(c), NEW i \in Items
  PROVE  Claim(c, i)' <= Claim(c, i)
<1>r. RequestInv(c) /\ NoDebtOf(c)
  BY DEF RequestsInv, NoDebtInv
<1>u. Promised(c, i) \in Int /\ Pending(c, i) \in Int
  BY ClaimType
<1>p. Pending(c, i) >= 0
  BY <1>r, NullAssumption DEF NoDebtOf, NoDebt, Pending, MessageInv
<1> DEFINE sent(q) == IF q # NoMsg /\ q.type = "CONFIRM" THEN Units(q.items, i) ELSE 0
           held(pc, m) == IF pc \in {"lock", "serve"} /\ m # Eof /\ m.type = "CONFIRM"
                          THEN Units(m.items, i) ELSE 0
<1>s. /\ Promised(c, i) = Units(cart[c], i) + sent(req[c]) + held(spc[c], msg[c])
      /\ Promised(c, i)' = Units(cart'[c], i) + sent(req'[c]) + held(spc'[c], msg'[c])
  BY DEF Promised
<1>t. sent(req[c]) \in Int /\ sent(req[c]) >= 0
  <2>1. req[c] # NoMsg => req[c] \in Request \cup {Goodbye}
    BY DEF StateOK
  <2>2. req[c] # NoMsg /\ req[c].type = "CONFIRM" => Units(req[c].items, i) \in Int
    BY <2>1, UnitsInt, RequestFields
  <2> QED BY <1>r, <2>2 DEF NoDebtOf, NoDebt
<1>h. held(spc[c], msg[c]) \in Int /\ held(spc[c], msg[c]) >= 0
  <2>1. spc[c] \in {"lock", "serve"} => msg[c] \in Request \cup {Goodbye, Eof}
    BY DEF MessageInv
  <2>2. spc[c] \in {"lock", "serve"} /\ msg[c] # Eof /\ msg[c].type = "CONFIRM" => Units(msg[c].items, i) \in Int
    BY <2>1, UnitsInt, RequestFields
  <2> QED BY <1>r, <2>1, <2>2, NullAssumption DEF NoDebtOf, NoDebt
<1>k. Units(cart[c], i) \in Int
  BY UnitsInt DEF StateOK
\* Whatever is not pending and not newly held is no claim.
<1>0. ASSUME cart' = cart, sent(req'[c]) + held(spc'[c], msg'[c]) <= sent(req[c]) + held(spc[c], msg[c]),
             sent(req'[c]) \in Int, held(spc'[c], msg'[c]) \in Int,
             Pending(c, i)' = Pending(c, i) \/ Pending(c, i)' = 0
      PROVE  Claim(c, i)' <= Claim(c, i)
  <2>1. Promised(c, i)' <= Promised(c, i) /\ Promised(c, i)' \in Int
    <3> HIDE DEF sent, held
    <3>1. Units(cart'[c], i) = Units(cart[c], i)
      BY <1>0
    <3> QED BY <1>0, <1>s, <1>t, <1>h, <1>k, <3>1
  <2> QED BY <1>0, <1>u, <1>p, <2>1 DEF Claim
<1>1. CASE Open(c) \/ FirstLock(c) \/ FirstUnlock(c) \/ Acquire(c)
  <2>1. UNCHANGED <<cart, req, msg>> /\ UNCHANGED <<cpc, asked, resp, reply>>
    BY <1>1 DEF Open, FirstLock, FirstUnlock, Acquire, client, wire
  <2>2. /\ spc[c] # "reply" /\ spc'[c] # "reply"
        /\ spc'[c] \in {"lock", "serve"} => spc[c] \in {"lock", "serve"}
    BY <1>1 DEF Open, FirstLock, FirstUnlock, Acquire, Goto, StateOK
  <2>3. Pending(c, i)' = Pending(c, i)
    BY <2>1, <2>2 DEF Pending
  <2>4. held(spc'[c], msg'[c]) = held(spc[c], msg[c]) \/ held(spc'[c], msg'[c]) = 0
    BY <2>1, <2>2
  <2> HIDE DEF sent, held
  <2> QED BY <1>0, <1>t, <1>h, <2>1, <2>3, <2>4
<1>2. CASE Receive(c)
  <2>1. UNCHANGED <<cart, cpc, asked, resp, reply>> /\ spc[c] = "recv" /\ spc'[c] = "lock" /\ req'[c] = NoMsg
        /\ \/ msg'[c] = req[c] /\ req[c] # NoMsg
           \/ msg'[c] = Eof /\ req[c] = NoMsg
    BY <1>2 DEF Receive, Goto, StateOK, client
  <2>2. Pending(c, i)' = Pending(c, i)
    BY <2>1 DEF Pending
  <2>3. sent(req'[c]) = 0 /\ held(spc[c], msg[c]) = 0 /\ held(spc'[c], msg'[c]) = sent(req[c])
    <3>1. req[c] # Eof \/ req[c] = NoMsg
      BY NullAssumption DEF StateOK
    <3> QED BY <2>1, <3>1
  <2> HIDE DEF sent, held
  <2> QED BY <1>0, <1>t, <1>h, <2>1, <2>2, <2>3
\* From here on the thread leaves the places where it holds a request.
<1>3. ASSUME cart' = cart, req' = req, spc'[c] \notin {"lock", "serve"},
             Pending(c, i)' = Pending(c, i) \/ Pending(c, i)' = 0
      PROVE  Claim(c, i)' <= Claim(c, i)
  <2>1. held(spc'[c], msg'[c]) = 0
    BY <1>3
  <2> HIDE DEF sent, held
  <2> QED BY <1>0, <1>3, <1>t, <1>h, <2>1
<1>4. CASE Release(c) \/ Leave(c)
  <2>1. UNCHANGED <<cart, cpc, asked, req, resp, reply>> /\ spc[c] # "reply" /\ spc'[c] \in {"recv", "exit"}
    BY <1>4 DEF Release, Leave, Goto, StateOK, client, wire
  <2>2. Pending(c, i)' = Pending(c, i)
    BY <2>1 DEF Pending
  <2> QED BY <1>3, <2>1, <2>2
\* An answer sent at once is no grant of units.
<1>5. CASE Search(c) \/ CancelCheck(c) \/ CancelTooLate(c) \/ CancelUnanswered(c)
  <2>1. /\ UNCHANGED <<cart, cpc, asked, req, reply>>
        /\ spc[c] = "serve" /\ msg[c].type # "ADD" /\ spc'[c] \in {"unlock", "cancel"}
    BY <1>5 DEF Search, CancelCheck, CancelTooLate, CancelUnanswered, Serves, Goto, StateOK, client, wire
  <2>2. cpc[c] = "wait" => asked[c].type # "ADD"
    BY <1>r, <2>1 DEF RequestInv
  <2>3. Pending(c, i)' = 0
    BY <2>1, <2>2 DEF Pending
  <2> QED BY <1>3, <2>1, <2>3
<1>6. CASE AddRefuse(c)
  <2>1. /\ UNCHANGED <<cart, cpc, asked, req, resp>> /\ reply'[c].status = "ERROR"
        /\ spc[c] = "serve" /\ spc'[c] = "reply"
    BY <1>6 DEF AddRefuse, AddReply, Serves, Goto, StateOK, client, wire
  <2>2. Pending(c, i)' = Pending(c, i)
    BY <2>1 DEF Pending, Granted
  <2> QED BY <1>3, <2>1, <2>2
<1>10. CASE AddTest(c)
  <2>1. UNCHANGED <<cart, cpc, asked, req, resp, reply>> /\ spc[c] = "serve" /\ spc'[c] = "hold"
    BY <1>10 DEF AddTest, Serves, Goto, StateOK, client, wire
  <2>2. Pending(c, i)' = Pending(c, i)
    BY <2>1 DEF Pending
  <2> QED BY <1>3, <2>1, <2>2
<1>7. CASE ConfirmQueue(c)
  <2>1. /\ UNCHANGED <<cart, cpc, asked, req, resp, reply>> /\ reply[c].type = "CONFIRM"
        /\ spc[c] = "queue" /\ spc'[c] = "reply"
    BY <1>7 DEF ConfirmQueue, Goto, StateOK, MessageInv, client, wire
  <2>2. Pending(c, i)' = Pending(c, i)
    BY <2>1 DEF Pending, Granted
  <2> QED BY <1>3, <2>1, <2>2
<1>8. CASE SendReply(c)
  <2>1. /\ UNCHANGED <<cart, cpc, asked, req>> /\ spc[c] = "reply" /\ spc'[c] = "unlock"
        /\ cpc[c] = "wait" => resp'[c] = reply[c]
    BY <1>8 DEF SendReply, Send, Goto, StateOK, client
  <2>2. reply[c] # NoMsg /\ (cpc[c] = "wait" => resp[c] = NoMsg)
    BY <1>r, <2>1, NullAssumption DEF RequestInv, MessageInv, Handling
  <2>3. Pending(c, i)' = Pending(c, i)
    BY <2>1, <2>2 DEF Pending
  <2> QED BY <1>3, <2>1, <2>3
<1>9. CASE CancelApply(c)
  <2>1. UNCHANGED <<cart, cpc, asked, req, resp, reply>> /\ spc[c] = "cancel" /\ spc'[c] = "unlock"
    BY <1>9 DEF CancelApply, Goto, StateOK, client, wire
  <2>2. Pending(c, i)' = Pending(c, i)
    BY <2>1 DEF Pending
  <2> QED BY <1>3, <2>1, <2>2
<1> QED BY <1>1, <1>2, <1>4, <1>5, <1>6, <1>7, <1>8, <1>9, <1>10 DEF Service, Handle

\* An order that is entered takes the units its client was promised with it.
LEMMA EnterClaim ==
  ASSUME StateOK, MessageInv, RequestsInv, NEW c \in Clients, ConfirmEnter(c), NEW i \in Items
  PROVE  Claim(c, i)' + Units(msg[c].items, i) = Claim(c, i)
         /\ Units(msg[c].items, i) \in Int
<1>r. RequestInv(c)
  BY DEF RequestsInv
<1>u. Units(cart[c], i) \in Int
  BY UnitsInt DEF StateOK
<1>1. /\ UNCHANGED <<cart, cpc, asked, req, resp, msg>> /\ spc[c] = "serve" /\ spc'[c] = "queue"
      /\ msg[c] # Eof /\ msg[c].type = "CONFIRM"
  BY DEF ConfirmEnter, Serves, Goto, StateOK, client, wire
<1>2. Units(msg[c].items, i) \in Int
  BY <1>1, UnitsInt, RequestFields DEF MessageInv
<1>3. Pending(c, i)' = Pending(c, i) /\ Pending(c, i) \in Int
  BY <1>1, ClaimType DEF Pending
<1>4. req[c] = NoMsg
  BY <1>r, <1>1 DEF RequestInv, Handling
<1>5. Promised(c, i) = Units(cart[c], i) + Units(msg[c].items, i)
  BY <1>u, <1>2, <1>1, <1>4 DEF Promised
<1>6. Promised(c, i)' = Units(cart[c], i)
  BY <1>u, <1>1, <1>4 DEF Promised
<1> QED BY <1>u, <1>2, <1>3, <1>5, <1>6 DEF Claim

\* What a client is granted is put on hold, also when the client is gone.
LEMMA HoldClaim ==
  ASSUME StateOK, MessageInv, RequestsInv, NoDebtInv, NEW c \in Clients, AddHold(c), NEW i \in Items
  PROVE  Claim(c, i)' - Claim(c, i) <= onHold'[i] - onHold[i]
<1>r. RequestInv(c) /\ NoDebtOf(c)
  BY DEF RequestsInv, NoDebtInv
<1> DEFINE r == msg[c]
<1>1. /\ UNCHANGED <<cart, cpc, asked, req, resp, msg>> /\ spc[c] = "hold" /\ spc'[c] = "reply"
      /\ r \in Request /\ r.type = "ADD" /\ Cardinality(Find(r)) = 1 /\ r.id \in Items
      /\ onHold' = [onHold EXCEPT ![r.id] = @ + r.qty]
      /\ reply'[c] = [type |-> "ADD", results |-> Find(r), status |-> "OK"]
  BY DEF AddHold, AddReply, MessageInv, OneItem, Goto, StateOK, client, wire
<1>2. r.qty \in Int /\ r.qty >= 0
  <2>1. r \notin {NoMsg, Eof}
    BY <1>1, NullAssumption
  <2> QED BY <1>r, <1>1, <2>1, RequestFields DEF NoDebtOf, NoDebt
<1>3. Find(r) = {r.id}
  <2>1. r.id \in Find(r)
    BY <1>1 DEF Find
  <2>2. IsFiniteSet(Find(r))
    BY <1>1, <1>2, AddReplyType, InventoryAssumption, FS_Subset
  <2>3. PICK x : Find(r) = {x}
    BY <1>1, <2>2, FS_Singleton
  <2> QED BY <2>1, <2>3
<1>4. Promised(c, i)' = Promised(c, i)
  BY <1>1 DEF Promised
<1>5. Pending(c, i) = 0
  BY <1>1, <1>r DEF Pending, RequestInv, Handling
<1>6. Pending(c, i)' <= IF i = r.id THEN r.qty ELSE 0
  <2>1. cpc[c] = "wait" => asked[c].qty = r.qty /\ resp[c] = NoMsg
    BY <1>1, <1>r DEF RequestInv, Handling
  <2> QED BY <1>1, <1>2, <1>3, <2>1 DEF Pending, Granted
<1>7. onHold'[i] - onHold[i] = IF i = r.id THEN r.qty ELSE 0
  BY <1>1, <1>2 DEF StateOK
<1>8. Promised(c, i) \in Int /\ Pending(c, i)' \in Int
  <2>1. Promised(c, i) \in Int
    BY ClaimType
  <2>2. cpc[c] = "wait" => asked[c].qty = r.qty /\ resp[c] = NoMsg
    BY <1>1, <1>r DEF RequestInv, Handling
  <2> QED BY <1>1, <1>2, <2>1, <2>2 DEF Pending
<1> QED BY <1>2, <1>4, <1>5, <1>6, <1>7, <1>8 DEF Claim
-------------------------------------------------------------------------------
(* The invariant. *)
LEMMA HeldInit == IsFiniteSet(Clients) /\ Init => HeldInv
<1> SUFFICES ASSUME IsFiniteSet(Clients), Init, NEW i \in Items PROVE Claims(i) + Ordered(i) <= onHold[i]
  BY DEF HeldInv
<1>1. \A c \in Clients : Claim(c, i) = 0
  BY NothingInEmptyCart DEF Init, Claim, Promised, Pending
<1> DEFINE f == [c \in Clients |-> Claim(c, i)]
<1>2. f \in [Clients -> Int] /\ \A c \in Clients : f[c] = 0
  BY <1>1
<1>3. Claims(i) = Total(f)
  BY DEF Claims
<1> HIDE DEF f
<1>4. Total(f) = 0
  BY <1>2, SumZero
<1>5. Ordered(i) = 0
  <2> DEFINE g == [k \in DOMAIN orders |-> Units(orders[k].items, i)]
  <2>1. DOMAIN orders = {}
    BY DEF Init
  <2>2. g \in [{} -> Int]
    BY <2>1
  <2> HIDE DEF g
  <2>3. Total(g) = 0
    BY <2>2, SumEmpty
  <2> QED BY <2>3 DEF g, Ordered
<1>6. onHold[i] = 0
  BY DEF Init
<1> QED BY <1>3, <1>4, <1>5, <1>6

LEMMA HeldNext ==
  ASSUME IsFiniteSet(Clients), HoldsInv, StateOK', MessageInv', [Work]_state
  PROVE  HeldInv'
<1> SUFFICES ASSUME NEW i \in Items PROVE (Claims(i) + Ordered(i) <= onHold[i])'
  BY DEF HeldInv
<1>i. StateOK /\ MessageInv /\ RequestsInv /\ NoDebtInv /\ Claims(i) + Ordered(i) <= onHold[i]
  BY DEF HoldsInv, Inv, HeldInv
<1>t. Ordered(i) \in Int /\ onHold[i] \in Int /\ onHold'[i] \in Int
  BY <1>i, OrderUnitsType DEF StateOK
\* The list keeps its items, and nothing on hold is taken back.
<1>o. ASSUME UNCHANGED orders \/ \E n : \E s \in {"Confirmed", "Cancelled", "LOADING"} : ChangeStatus(n, s)
      PROVE  Ordered(i)' = Ordered(i)
  <2>1. CASE UNCHANGED orders
    BY <2>1, OrderedKept
  <2>2. CASE \E n : \E s \in {"Confirmed", "Cancelled", "LOADING"} : ChangeStatus(n, s)
    BY <1>i, <2>2, ChangeStatusKeeps, OrderedKept DEF StateOK
  <2> QED BY <1>o, <2>1, <2>2
<1>m. ASSUME NEW c \in Clients, Client(c) \/ Service(c)
      PROVE  /\ Claims(i)' = Claims(i) - Claim(c, i) + Claim(c, i)'
             /\ Claims(i) \in Int /\ Claim(c, i) \in Int /\ Claim(c, i)' \in Int
  <2>1. \A d \in Clients : d # c => Claim(d, i)' = Claim(d, i)
    BY <1>i, <1>m, OthersClaim
  <2> QED BY <1>i, <2>1, ClaimsMove
<1>1. ASSUME NEW c \in Clients, Client(c) PROVE (Claims(i) + Ordered(i) <= onHold[i])'
  <2>1. UNCHANGED <<orders, onHold>>
    BY <1>1 DEF Client, Connect, DoSearch, DoAdd, DoOrder, DeclineOrder, DoCancel, Ask, Choose, Hear,
       DoQuit, Die, list, stock
  <2>2. Claim(c, i)' <= Claim(c, i)
    BY <1>1, <1>i, <1>m, ClientClaim
  <2>3. Ordered(i)' = Ordered(i)
    BY <1>o, <2>1
  <2> QED BY <1>1, <1>i, <1>t, <1>m, <2>1, <2>2, <2>3
<1>2. ASSUME NEW c \in Clients, Service(c), ~ AddHold(c), ~ ConfirmEnter(c)
      PROVE  (Claims(i) + Ordered(i) <= onHold[i])'
  <2>1. onHold' = onHold /\ (UNCHANGED orders \/ CancelApply(c))
    BY <1>2 DEF Service, Handle, Open, FirstLock, FirstUnlock, Receive, Acquire, Search, AddTest, AddRefuse,
       AddReply, ConfirmQueue, SendReply, CancelCheck, CancelApply, CancelTooLate, CancelUnanswered,
       Release, Leave, list, stock
  <2>2. Claim(c, i)' <= Claim(c, i)
    BY <1>2, <1>i, ServiceClaim
  <2>3. Ordered(i)' = Ordered(i)
    BY <1>o, <2>1 DEF CancelApply
  <2> QED BY <1>2, <1>i, <1>t, <1>m, <2>1, <2>2, <2>3
<1>3. ASSUME NEW c \in Clients, AddHold(c) PROVE (Claims(i) + Ordered(i) <= onHold[i])'
  <2>1. Service(c)
    BY <1>3 DEF Service, Handle
  <2>2. UNCHANGED orders
    BY <1>3 DEF AddHold, AddReply, list
  <2>3. Ordered(i)' = Ordered(i)
    BY <1>o, <2>2
  <2>4. Claim(c, i)' - Claim(c, i) <= onHold'[i] - onHold[i]
    BY <1>3, <1>i, HoldClaim
  <2> QED BY <1>i, <1>t, <1>m, <2>1, <2>3, <2>4
<1>4. ASSUME NEW c \in Clients, ConfirmEnter(c) PROVE (Claims(i) + Ordered(i) <= onHold[i])'
  <2>1. Service(c)
    BY <1>4 DEF Service, Handle
  <2>2. orders' = Append(orders, NewOrder(c)) /\ UNCHANGED onHold /\ NewOrder(c).items = msg[c].items
    BY <1>4 DEF ConfirmEnter, stock, NewOrder
  <2>3. NewOrder(c) \in Order
    BY <1>4, <1>i, RequestFields DEF ConfirmEnter, Serves, MessageInv, NewOrder, Order, StateOK
  <2>4. Ordered(i)' = Ordered(i) + Units(msg[c].items, i)
    BY <1>i, <2>2, <2>3, OrderedGrows
  <2>5. Claim(c, i)' + Units(msg[c].items, i) = Claim(c, i) /\ Units(msg[c].items, i) \in Int
    BY <1>4, <1>i, EnterClaim
  <2> QED BY <1>i, <1>t, <1>m, <2>1, <2>2, <2>4, <2>5
<1>5. ASSUME RobotPicks \/ MonitorTakes \/ MonitorLoads \/ UNCHANGED state
      PROVE  (Claims(i) + Ordered(i) <= onHold[i])'
  <2>1. onHold' = onHold /\ \A c \in Clients : Same(c) /\ cart'[c] = cart[c]
    BY <1>5 DEF RobotPicks, MonitorTakes, MonitorLoads, state, client, wire, thread, stock, Same
  <2>2. [c \in Clients |-> Claim(c, i)'] = [c \in Clients |-> Claim(c, i)]
    BY <2>1, SameClaim
  <2>3. Claims(i)' = Total([c \in Clients |-> Claim(c, i)']) /\ Claims(i) = Total([c \in Clients |-> Claim(c, i)])
    BY DEF Claims
  <2>4. Claims(i)' = Claims(i)
    BY <2>2, <2>3
  <2>5. Ordered(i)' = Ordered(i)
    BY <1>5, <1>o DEF RobotPicks, MonitorTakes, MonitorLoads, state, list
  <2> QED BY <1>i, <2>1, <2>4, <2>5
<1> QED BY <1>1, <1>2, <1>3, <1>4, <1>5 DEF Work

\* A claim is what a client is promised and what it will hear of.
LEMMA HeldPromises ==
  ASSUME IsFiniteSet(Clients), HoldsInv
  PROVE  PromisesAreHeld
<1> SUFFICES ASSUME NEW i \in Items
             PROVE  Total([c \in Clients |-> Promised(c, i)])
                      + Total([k \in DOMAIN orders |-> Units(orders[k].items, i)]) <= onHold[i]
  BY DEF PromisesAreHeld
<1> DEFINE p == [c \in Clients |-> Promised(c, i)]
           f == [c \in Clients |-> Claim(c, i)]
<1>i. StateOK /\ MessageInv /\ NoDebtInv /\ Claims(i) + Ordered(i) <= onHold[i]
  BY DEF HoldsInv, Inv, HeldInv
<1>1. ASSUME NEW c \in Clients
      PROVE  Claim(c, i) \in Int /\ Promised(c, i) \in Int /\ Promised(c, i) <= Claim(c, i)
  <2>1. Promised(c, i) \in Int /\ Pending(c, i) \in Int
    BY <1>i, ClaimType
  <2>2. Pending(c, i) >= 0
    BY <1>i, NullAssumption DEF NoDebtInv, NoDebtOf, NoDebt, Pending, MessageInv
  <2> QED BY <2>1, <2>2 DEF Claim
<1>2. p \in [Clients -> Int] /\ f \in [Clients -> Int] /\ \A c \in Clients : p[c] <= f[c]
  BY <1>1
<1>3. Claims(i) = Total(f)
  BY DEF Claims
<1> HIDE DEF p, f
<1>4. Total(p) <= Total(f) /\ Total(p) \in Int /\ Total(f) \in Int
  BY <1>2, SumUp, SumInt
<1>5. Ordered(i) \in Int /\ onHold[i] \in Int
  BY <1>i, OrderUnitsType DEF StateOK
<1>6. Total(p) + Ordered(i) <= onHold[i]
  BY <1>i, <1>3, <1>4, <1>5
<1> QED BY <1>6 DEF p, Ordered

\* No two clients are promised the same unit, however their requests
\* interleave, and also when clients die between the hold and the answer: the
\* units in carts, in orders sent and in orders entered are all on hold.  Users
\* type no negative quantities here; with them a hold is no hold.
THEOREM PromisesAreKept ==
  ASSUME IsFiniteSet(Clients), Quantities \subseteq Nat
  PROVE  Spec => []PromisesAreHeld
<1>1. Init => HoldsInv
  BY TypeInit, MutexInit, StockInit, RequestsInit, NumbersInit, NoDebtInit, HeldInit DEF Inv, HoldsInv
<1>2. HoldsInv /\ [Work]_state => HoldsInv'
  <2> SUFFICES ASSUME HoldsInv, [Work]_state PROVE HoldsInv'
    OBVIOUS
  <2>1. Inv'
    BY TypeNext, MutexNext, HoldNext, StockNext, RequestsNext, NumbersNext, PipelineNext DEF Inv, HoldsInv
  <2>2. NoDebtInv'
    BY NoDebtNext DEF HoldsInv, Inv
  <2>3. HeldInv'
    BY <2>1, HeldNext DEF Inv
  <2> QED BY <2>1, <2>2, <2>3 DEF HoldsInv
<1>3. HoldsInv => PromisesAreHeld
  BY HeldPromises
<1> QED BY <1>1, <1>2, <1>3, StepsWork, PTL DEF Spec
================================================================================
