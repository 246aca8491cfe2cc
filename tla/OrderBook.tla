------------------------------- MODULE OrderBook -------------------------------
(***************************************************************************)
(* What the order service promises its clients: every request takes effect *)
(* in one step, some time between being sent and being answered.  This is   *)
(* what the comment at warehouseComputer.cpp:77-80 wants the server mutex   *)
(* for.  The robots and the truck monitor, who do not use that mutex, take  *)
(* and load orders in single steps too.  OrderDesk is the detailed           *)
(* specification.                                                           *)
(***************************************************************************)
EXTENDS Integers, Sequences

CONSTANTS Clients, Items, Stock, Requests, NoMsg, FirstOrder

VARIABLES available, onHold,  \* stock of each item
          orders,             \* the order list
          pickup,             \* numbers of the orders queued for picking
          loaded,             \* how many orders a truck has got
          job,                \* each client's request, until it takes effect
          answer              \* each client's reply, until it is delivered

stock == <<available, onHold>>
vars == <<available, onHold, orders, pickup, loaded, job, answer>>

Init == /\ available = Stock
        /\ onHold = [i \in Items |-> 0]
        /\ orders = <<>>
        /\ pickup = <<>>
        /\ loaded = 0
        /\ job = [c \in Clients |-> NoMsg]
        /\ answer = [c \in Clients |-> NoMsg]

\* The client may be gone when its reply is sent.
Reply(c, a) == /\ job' = [job EXCEPT ![c] = NoMsg]
               /\ answer' \in {[answer EXCEPT ![c] = a], answer}

Found(r) == r.match \cup ({r.id} \cap Items)

Submit(c) == /\ job[c] = NoMsg
             /\ job'[c] \in Requests
             /\ job' = [job EXCEPT ![c] = job'[c]]
             /\ UNCHANGED <<stock, orders, pickup, loaded, answer>>

Search(c) ==
  /\ job[c].type = "SEARCH"
  /\ Reply(c, [type |-> "SEARCH", results |-> Found(job[c]),
               status |-> IF Found(job[c]) = {} THEN "ERROR" ELSE "OK"])
  /\ UNCHANGED <<stock, orders, pickup, loaded>>

\* One item is meant, and there is enough of it: it moves from available to
\* on hold in one step.
Reserve(c) ==
  LET r == job[c] IN
  /\ r.type = "ADD"
  /\ r.id \in Items /\ Found(r) = {r.id} /\ r.qty <= available[r.id]
  /\ available' = [available EXCEPT ![r.id] = @ - r.qty]
  /\ onHold' = [onHold EXCEPT ![r.id] = @ + r.qty]
  /\ Reply(c, [type |-> "ADD", results |-> {r.id}, status |-> "OK"])
  /\ UNCHANGED <<orders, pickup, loaded>>

Refuse(c) ==
  LET r == job[c] IN
  /\ r.type = "ADD"
  /\ r.id \in Items /\ Found(r) = {r.id} => r.qty > available[r.id]
  /\ Reply(c, [type |-> "ADD", results |-> Found(r), status |-> "ERROR"])
  /\ UNCHANGED <<stock, orders, pickup, loaded>>

\* The order enters the list and the pickup queue together, under the next
\* number.
Confirm(c) ==
  LET num == FirstOrder + Len(orders) IN
  /\ job[c].type = "CONFIRM"
  /\ orders' = Append(orders, [num |-> num, status |-> "Confirmed", items |-> job[c].items])
  /\ pickup' = Append(pickup, num)
  /\ Reply(c, [type |-> "CONFIRM", num |-> num, status |-> "OK"])
  /\ UNCHANGED <<stock, loaded>>

\* A confirmed order becomes cancelled; a number that names no order is
\* acknowledged too, and changes nothing.
Cancel(c) ==
  LET Named(k) == orders[k].num = job[c].num IN
  /\ job[c].type = "CANCEL"
  /\ \A k \in DOMAIN orders : Named(k) => orders[k].status = "Confirmed"
  /\ orders' = [k \in DOMAIN orders |->
                  IF Named(k) THEN [orders[k] EXCEPT !.status = "Cancelled"] ELSE orders[k]]
  /\ Reply(c, [type |-> "CANCEL", status |-> "OK"])
  /\ UNCHANGED <<stock, pickup, loaded>>

\* The order c wants to cancel has left "Confirmed".
Late(c, status) ==
  /\ job[c].type = "CANCEL"
  /\ \E k \in DOMAIN orders : orders[k].num = job[c].num /\ orders[k].status = status

CancelTooLate(c) ==
  /\ Late(c, "Cancelled")
  /\ Reply(c, [type |-> "CANCEL", status |-> "ERROR"])
  /\ UNCHANGED <<stock, orders, pickup, loaded>>

\* A request to cancel an order that is being loaded is not answered.
CancelDropped(c) ==
  /\ Late(c, "LOADING")
  /\ job' = [job EXCEPT ![c] = NoMsg]
  /\ UNCHANGED <<stock, orders, pickup, loaded, answer>>

Deliver(c) == /\ answer[c] # NoMsg
              /\ answer' = [answer EXCEPT ![c] = NoMsg]
              /\ UNCHANGED <<stock, orders, pickup, loaded, job>>

Process(c) == /\ job[c] # NoMsg
              /\ \/ Search(c) \/ Reserve(c) \/ Refuse(c)
                 \/ Confirm(c) \/ Cancel(c) \/ CancelTooLate(c) \/ CancelDropped(c)

\* A robot takes the oldest order.
Pick == /\ pickup # <<>>
        /\ pickup' = Tail(pickup)
        /\ UNCHANGED <<stock, orders, loaded, job, answer>>

\* The orders that robots have taken are loaded one after the other, the cancelled
\* ones too.  A cancelled one is marked as being loaded, unless its thread writes
\* "Cancelled" after the monitor.
Load ==
  LET k == loaded + 1 IN
  /\ k <= Len(orders) - Len(pickup)
  /\ loaded' = k
  /\ \/ orders' = [orders EXCEPT ![k].status = "LOADING"]
     \/ orders[k].status = "Cancelled" /\ orders' = orders
  /\ UNCHANGED <<stock, pickup, job, answer>>

Next == (\E c \in Clients : Submit(c) \/ Process(c) \/ Deliver(c)) \/ Pick \/ Load

Spec == Init /\ [][Next]_vars
===============================================================================
