------------------------------- MODULE Messages -------------------------------
(***************************************************************************)
(* The messages of the clients and the service (Message.h) and their         *)
(* conversion to JSON and back (JsonConverter.h).  A JSON object is a record *)
(* whose fields are its keys, an array a sequence.  Prices are whole: the    *)
(* constructor of an entry takes an int, and so are those of the inventory.  *)
(***************************************************************************)
EXTENDS Sequences

CONSTANT Null   \* the JSON null, what a JSON is before anything is put in it

\* The objects, built with the arguments in the order of their constructors.
ItemEntry(itemName, quantityAvailable, ID, weight, cost) ==
  [itemName |-> itemName, ID |-> ID, weight |-> weight, quantityOnHold |-> 0,
   quantityAvailable |-> quantityAvailable, cost |-> cost, shelfLocations |-> <<>>]
AddMessage(name, ID, quantity) ==
  [type |-> "ADD", itemName |-> name, itemID |-> ID, itemQuantity |-> quantity]
AddResponseMessage(results, status, info) ==
  [type |-> "ADD_RESPONSE", results |-> results, status |-> status, info |-> info]
SearchMessage(name, ID) == [type |-> "SEARCH", itemName |-> name, itemID |-> ID]
SearchResponseMessage(results, status, info) ==
  [type |-> "SEARCH_RESPONSE", results |-> results, status |-> status, info |-> info]
ConfirmOrder(order) == [type |-> "CONFIRM_ORDER", order |-> order]
ConfirmOrderResponseMessage(num, status, info) ==
  [type |-> "CONFIRM_ORDER_RESPONSE", orderNum |-> num, status |-> status, info |-> info]
CancelOrder(num) == [type |-> "CANCEL_ORDER", orderNum |-> num]
CancelOrderResponseMessage(status, info) ==
  [type |-> "CANCEL_ORDER_RESPONSE", status |-> status, info |-> info]
GoodbyeMessage == [type |-> "GOODBYE"]

-------------------------------------------------------------------------------
(* To JSON.  Of an entry, what is on hold and its shelves stay behind; of an *)
(* empty vector, nothing is pushed and the JSON stays null.                  *)
EntryToJSON(entry) ==
  [item_name_regex |-> entry.itemName, item_ID |-> entry.ID, item_price |-> entry.cost,
   item_quantity |-> entry.quantityAvailable, item_weight |-> entry.weight]

EntriesToJSON(entries) ==
  IF entries = <<>> THEN Null ELSE [i \in DOMAIN entries |-> EntryToJSON(entries[i])]

AddToJSON(m) == [msg |-> "add", item_name_regex |-> m.itemName,
                 item_quantity |-> m.itemQuantity, item_ID |-> m.itemID]
AddResponseToJSON(m) == [msg |-> "add_response", results |-> EntriesToJSON(m.results),
                         status |-> m.status, info |-> m.info]
SearchToJSON(m) == [msg |-> "search", item_name_regex |-> m.itemName, item_ID |-> m.itemID]
SearchResponseToJSON(m) == [msg |-> "search_response", status |-> m.status, info |-> m.info,
                            results |-> EntriesToJSON(m.results)]
ConfirmToJSON(m) == [msg |-> "confirm", cart |-> EntriesToJSON(m.order)]
ConfirmResponseToJSON(m) == [msg |-> "confirm_response", info |-> m.info, status |-> m.status,
                             order_num |-> m.orderNum]
CancelToJSON(m) == [msg |-> "cancel", order_num |-> m.orderNum]
CancelResponseToJSON(m) == [msg |-> "cancel_response", info |-> m.info, status |-> m.status]
GoodbyeToJSON(m) == [msg |-> "goodbye"]

ToJSON(m) ==
  CASE m.type = "ADD" -> AddToJSON(m)
    [] m.type = "ADD_RESPONSE" -> AddResponseToJSON(m)
    [] m.type = "SEARCH" -> SearchToJSON(m)
    [] m.type = "SEARCH_RESPONSE" -> SearchResponseToJSON(m)
    [] m.type = "CONFIRM_ORDER" -> ConfirmToJSON(m)
    [] m.type = "CONFIRM_ORDER_RESPONSE" -> ConfirmResponseToJSON(m)
    [] m.type = "CANCEL_ORDER" -> CancelToJSON(m)
    [] m.type = "CANCEL_ORDER_RESPONSE" -> CancelResponseToJSON(m)
    [] m.type = "GOODBYE" -> GoodbyeToJSON(m)

\* Messages as their constructors make them, with vectors of entries whose JSON
\* is an array, or null when they are empty.
AreEntries(entries) ==
  /\ entries \in Seq({entries[i] : i \in DOMAIN entries})
  /\ EntriesToJSON(entries) = Null => entries = <<>>
IsMessage(m) ==
  CASE m.type = "ADD" -> m = AddMessage(m.itemName, m.itemID, m.itemQuantity)
    [] m.type = "ADD_RESPONSE" -> /\ m = AddResponseMessage(m.results, m.status, m.info)
                                  /\ AreEntries(m.results)
    [] m.type = "SEARCH" -> m = SearchMessage(m.itemName, m.itemID)
    [] m.type = "SEARCH_RESPONSE" -> /\ m = SearchResponseMessage(m.results, m.status, m.info)
                                     /\ AreEntries(m.results)
    [] m.type = "CONFIRM_ORDER" -> m = ConfirmOrder(m.order) /\ AreEntries(m.order)
    [] m.type = "CONFIRM_ORDER_RESPONSE" ->
         m = ConfirmOrderResponseMessage(m.orderNum, m.status, m.info)
    [] m.type = "CANCEL_ORDER" -> m = CancelOrder(m.orderNum)
    [] m.type = "CANCEL_ORDER_RESPONSE" -> m = CancelOrderResponseMessage(m.status, m.info)
    [] m.type = "GOODBYE" -> m = GoodbyeMessage
    [] OTHER -> FALSE

-------------------------------------------------------------------------------
(* From JSON.                                                                *)
\* Mistake: the arguments in the order of the constructor of an Item.
ParseEntry_AsItem(j) ==
  ItemEntry(j.item_name_regex, j.item_ID, j.item_quantity, j.item_weight, j.item_price)

ParseEntry(j) ==
  ItemEntry(j.item_name_regex, j.item_quantity, j.item_ID, j.item_weight, j.item_price)

\* A loop over null finds nothing.
ParseEntries(j) == IF j = Null THEN <<>> ELSE [i \in DOMAIN j |-> ParseEntry(j[i])]

ParseAdd(j) == AddMessage(j.item_name_regex, j.item_ID, j.item_quantity)
ParseAddResponse(j) == AddResponseMessage(ParseEntries(j.results), j.status, j.info)
ParseSearch(j) == SearchMessage(j.item_name_regex, j.item_ID)
ParseSearchResponse(j) == SearchResponseMessage(ParseEntries(j.results), j.status, j.info)
ParseConfirm(j) == ConfirmOrder(ParseEntries(j.cart))
ParseConfirmMessage(j) == ConfirmOrderResponseMessage(j.order_num, j.status, j.info)
ParseCancel(j) == CancelOrder(j.order_num)
ParseCancelMessage(j) == CancelOrderResponseMessage(j.status, j.info)
ParseGoodbye(j) == GoodbyeMessage

\* The type of a message is told by its name alone.
ParseType(j) ==
  CASE j.msg = "add" -> "ADD"
    [] j.msg = "add_response" -> "ADD_RESPONSE"
    [] j.msg = "search" -> "SEARCH"
    [] j.msg = "search_response" -> "SEARCH_RESPONSE"
    [] j.msg = "confirm_response" -> "CONFIRM_ORDER_RESPONSE"
    [] j.msg = "confirm" -> "CONFIRM_ORDER"
    [] j.msg = "cancel" -> "CANCEL_ORDER"
    [] j.msg = "cancel_response" -> "CANCEL_ORDER_RESPONSE"
    [] j.msg = "goodbye" -> "GOODBYE"
    [] OTHER -> "UNKNOWN"

ParseMessage(j) ==
  LET type == ParseType(j) IN
  CASE type = "ADD" -> ParseAdd(j)
    [] type = "ADD_RESPONSE" -> ParseAddResponse(j)
    [] type = "SEARCH" -> ParseSearch(j)
    [] type = "SEARCH_RESPONSE" -> ParseSearchResponse(j)
    [] type = "CONFIRM_ORDER" -> ParseConfirm(j)
    [] type = "CONFIRM_ORDER_RESPONSE" -> ParseConfirmMessage(j)
    [] type = "CANCEL_ORDER" -> ParseCancel(j)
    [] type = "CANCEL_ORDER_RESPONSE" -> ParseCancelMessage(j)
    [] type = "GOODBYE" -> ParseGoodbye(j)
    [] OTHER -> Null
===============================================================================
