-------------------------------- MODULE Shelves --------------------------------
(***************************************************************************)
(* The shelves of the warehouse as data: Shelf.h and moveItem of            *)
(* WarehouseObjects.h.  A vector of items is a sequence of records          *)
(* [name, qty, weight]; a shelf is [at, inventory, weight], at = <<X, Y>>,  *)
(* its row and column.                                                     *)
(***************************************************************************)
EXTENDS Integers, Sequences, FiniteSetsExt, Totals

CONSTANT MaxWeight       \* MAX_SHELF_CAPACITY

EmptyShelf(cell) == [at |-> cell, inventory |-> <<>>, weight |-> 0]

\* Mistake: the weight is not added up.
StoreItem_NoSum(shelf, item) ==
  IF shelf.weight + item.weight > MaxWeight THEN shelf
  ELSE [shelf EXCEPT !.inventory = Append(@, item), !.weight = item.weight]

\* storeItem counts the weight of one unit, whatever the quantity; an item
\* that does not fit is refused.
StoreItem(shelf, item) ==
  IF shelf.weight + item.weight > MaxWeight THEN shelf
  ELSE [shelf EXCEPT !.inventory = Append(@, item), !.weight = @ + item.weight]

\* Units of an item in a vector.
Units(items, name) ==
  Total([i \in {j \in DOMAIN items : items[j].name = name} |-> items[i].qty])

Received(to, elem, quantity) ==
  IF \E j \in DOMAIN to : to[j].name = elem.name
  THEN [j \in DOMAIN to |-> IF to[j].name = elem.name
                            THEN [to[j] EXCEPT !.qty = @ + quantity] ELSE to[j]]
  ELSE Append(to, [elem EXCEPT !.qty = quantity])

\* Mistake: as much is moved as there is.
MoveItem_Partial(from, to, name, quantity) ==
  LET found == {i \in DOMAIN from : from[i].name = name}
  IN IF found = {} THEN [from |-> from, to |-> to]
     ELSE LET i == Min(found)
              q == Min({quantity, from[i].qty})
          IN [from |-> [from EXCEPT ![i].qty = @ - q], to |-> Received(to, from[i], q)]

\* moveItem takes the first entry of that name with enough units.  Its
\* iterator never leaves begin(), because std::next does not advance its
\* argument: when the entry runs out, it is the first entry that is erased.
MoveItem(from, to, name, quantity) ==
  LET able == {i \in DOMAIN from : from[i].name = name /\ from[i].qty >= quantity}
  IN IF able = {} THEN [from |-> from, to |-> to]
     ELSE LET i == Min(able)
              left == [from EXCEPT ![i].qty = @ - quantity]
          IN [from |-> IF left[i].qty = 0 THEN Tail(left) ELSE left,
              to |-> Received(to, from[i], quantity)]
================================================================================
