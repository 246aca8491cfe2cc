--------------------------------- MODULE Wire ---------------------------------
(***************************************************************************)
(* One direction of a connection between a client and the service:           *)
(* JsonUserClientApi over a socket.  A message is framed by an indicator     *)
(* byte and its size in four bytes; the socket takes and gives what it can   *)
(* at a time, and may break at any byte.                                     *)
(***************************************************************************)
EXTENDS Sequences, FiniteSetsExt, Totals, Messages

CONSTANTS
  Mail,           \* messages that may be sent
  MaxSent,        \* how many are sent (bound)
  TextLength(_),  \* characters of the text of a JSON
  Base, Digits,   \* the size is written with four digits of base 256
  SizeWord,       \* the values of size_t: 2^64, or 2^32 in a 32-bit build
  BufferSize,     \* of readString: 256
  Window          \* bytes the sockets hold (bound)

\* What the k-th digit from the right counts: a shift by k digits.
Place[k \in 0..Digits] == IF k = 0 THEN 1 ELSE Base * Place[k - 1]

\* No text is empty, and the size of every message, its terminating zero
\* included, fits the digits.  All that is ever sent is less than what a wider
\* size_t has beyond the digits.
ASSUME WireAssumption ==
  /\ MaxSent \in Nat /\ Digits \in Nat /\ BufferSize \in Nat \ {0} /\ Window \in Nat \ {0}
  /\ Base \in Nat /\ Base > 1
  /\ SizeWord \in Nat
  /\ \/ SizeWord = Place[Digits]
     \/ SizeWord > Place[Digits] + MaxSent * (1 + Digits + Place[Digits])
  /\ \A m \in Mail : /\ TextLength(ToJSON(m)) \in Nat \ {0}
                     /\ TextLength(ToJSON(m)) + 1 < Place[Digits]

\* The messages are made by their constructors.
ASSUME MailAssumption == \A m \in Mail : IsMessage(m)

VARIABLES
  posted,     \* the messages sendMessage was called with
  buffers,    \* what its writes have still to hand over, one for each
  connected,  \* the connection stands
  stream,     \* bytes on their way
  want,       \* what the receiver reads: "id", "size", "text", or "end"
  nsize,      \* the size it has read
  str,        \* the text it has read
  cbuff,      \* what read_all has read
  delivered   \* the messages recvMessage returned

wireVars == <<posted, buffers, connected, stream, want, nsize, str, cbuff, delivered>>

JSON_ID == <<"id">>
Zero == <<"zero">>

\* JSON::dump and JSON::parse (external): a text is that of one JSON only, and
\* parsing ends at the terminating zero.
Dump(j) == [k \in 1..TextLength(j) |-> <<"char", j, k>>]
Parses(text, j) == text = Dump(j) \o <<Zero>>

\* Mistake: least significant digit first, as the comment on the format has it
\* (JsonUserClientApi.h:13 and the example below it).
SizeBytes_Little(n) == [i \in 1..Digits |-> <<"digit", (n \div Place[i - 1]) % Base>>]

\* The size, most significant digit first.
SizeBytes(n) == [i \in 1..Digits |-> <<"digit", (n \div Place[Digits - i]) % Base>>]

\* The digits are put together as an int, whose sign is extended to a size_t: a
\* size of 2^31 or more is read as one that is far too big.
SizeOf(bytes) ==
  LET n == Total([i \in 1..Digits |-> bytes[i][2] * Place[Digits - i]])
  IN  IF 2 * n < Place[Digits] THEN n ELSE n + (SizeWord - Place[Digits])

WireInit ==
  /\ posted = <<>> /\ buffers = <<>> /\ connected = TRUE /\ stream = <<>>
  /\ want = "id" /\ nsize = 0 /\ str = <<>> /\ cbuff = <<>> /\ delivered = <<>>

-------------------------------------------------------------------------------
(* The sender.                                                               *)
SendMessage(m) ==
  /\ buffers = <<>> /\ Len(posted) < MaxSent
  /\ posted' = Append(posted, m)
  /\ LET j == ToJSON(m) IN
     buffers' = << <<JSON_ID>>, SizeBytes(TextLength(j) + 1), Dump(j) \o <<Zero>> >>
  /\ UNCHANGED <<connected, stream, want, nsize, str, cbuff, delivered>>

\* ::write takes some of the bytes; write() calls it until it has taken all.
Write ==
  /\ buffers # <<>> /\ connected
  /\ \E n \in 1..Len(Head(buffers)) :
       /\ Len(stream) + n <= Window
       /\ stream' = stream \o SubSeq(Head(buffers), 1, n)
       /\ buffers' = IF n = Len(Head(buffers)) THEN Tail(buffers)
                     ELSE <<SubSeq(Head(buffers), n + 1, Len(Head(buffers)))>> \o Tail(buffers)
  /\ UNCHANGED <<posted, connected, want, nsize, str, cbuff, delivered>>

\* ::write fails: write() and with it sendMessage() return false.  A write of
\* the text that is still to come fails as well.  On POSIX a SIGPIPE ends the
\* sender's process instead (OrderDesk): a sender that sends nothing more.
WriteFails ==
  /\ buffers # <<>> /\ ~ connected
  /\ buffers' = <<>>
  /\ UNCHANGED <<posted, connected, stream, want, nsize, str, cbuff, delivered>>

\* The connection breaks, and some of the bytes on their way with it.
Break ==
  /\ connected /\ connected' = FALSE
  /\ \E n \in 0..Len(stream) : stream' = SubSeq(stream, 1, n)
  /\ UNCHANGED <<posted, buffers, want, nsize, str, cbuff, delivered>>

-------------------------------------------------------------------------------
(* The receiver.                                                             *)
Requested ==
  CASE want = "id" -> 1
    [] want = "size" -> Digits
    [] want = "text" -> Min({nsize - Len(str), BufferSize})

\* ::read gives some of the bytes; read_all() calls it until it has all.
Read ==
  /\ want # "end" /\ Len(cbuff) < Requested
  /\ \E n \in 1..Min({Len(stream), Requested - Len(cbuff)}) :
       /\ cbuff' = cbuff \o SubSeq(stream, 1, n)
       /\ stream' = SubSeq(stream, n + 1, Len(stream))
  /\ UNCHANGED <<posted, buffers, connected, want, nsize, str, delivered>>

\* The end of the stream: recvMessage returns null, and the caller ends.
ReadEnd ==
  /\ want # "end" /\ Len(cbuff) < Requested
  /\ ~ connected /\ stream = <<>>
  /\ want' = "end"
  /\ UNCHANGED <<posted, buffers, connected, stream, nsize, str, cbuff, delivered>>

ReadAll(what) == want = what /\ Len(cbuff) = Requested /\ cbuff' = <<>>

\* recvMessage: anything but a JSON is an error.
GetId ==
  /\ ReadAll("id")
  /\ want' = IF cbuff = <<JSON_ID>> THEN "size" ELSE "end"
  /\ UNCHANGED <<posted, buffers, connected, stream, nsize, str, delivered>>

GetSize ==
  /\ ReadAll("size")
  /\ nsize' = SizeOf(cbuff) /\ str' = <<>> /\ want' = "text"
  /\ UNCHANGED <<posted, buffers, connected, stream, delivered>>

\* readString: a block more, and the message when it was the last.
GetBlock ==
  /\ ReadAll("text")
  /\ str' = str \o cbuff
  /\ IF Len(str') < nsize THEN UNCHANGED <<want, delivered>>
     ELSE \E m \in Mail :
            LET j == ToJSON(m) IN
            /\ Parses(str', j)
            /\ delivered' = Append(delivered, ParseMessage(j)) /\ want' = "id"
  /\ UNCHANGED <<posted, buffers, connected, stream, nsize>>

Sender == Write \/ WriteFails
Receiver == Read \/ ReadEnd \/ GetId \/ GetSize \/ GetBlock

WireNext == (\E m \in Mail : SendMessage(m)) \/ Break \/ Sender \/ Receiver

WireFairness == WF_wireVars(Sender) /\ WF_wireVars(Receiver)

WireSpec == WireInit /\ [][WireNext]_wireVars /\ WireFairness

-------------------------------------------------------------------------------
\* What is left of a message on the other side: all but what its entries say of
\* quantities on hold and shelves, which the other side does not use and which
\* are as in a new entry.
AsNew(e) == ItemEntry(e.itemName, e.quantityAvailable, e.ID, e.weight, e.cost)
Shown(entries) == [i \in DOMAIN entries |-> AsNew(entries[i])]
ImageOf(m) ==
  [f \in DOMAIN m |-> IF f \in {"results", "order"} THEN Shown(m[f]) ELSE m[f]]

LinkOfWire == INSTANCE Link WITH
  Image <- ImageOf, sent <- posted, received <- delivered, ended <- want = "end"

\* However the socket cuts the stream, and wherever it breaks, messages arrive
\* whole, in order and with every field in its place, and none is made up.
ImplementsLink == LinkOfWire!Spec

\* A message whose size has the sign bit.
Oversize(m) == 2 * (TextLength(ToJSON(m)) + 1) >= Place[Digits]
NoneOversize == \A m \in Range(posted) : ~ Oversize(m)

\* While the connection stands, every message sent is received, unless it or one
\* before it is oversize.
MessagesArrive ==
  \A n \in 1..MaxSent :
    Len(posted) = n /\ NoneOversize ~> Len(delivered) >= n \/ ~ connected
===============================================================================
