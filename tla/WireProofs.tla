------------------------------ MODULE WireProofs ------------------------------
(***************************************************************************)
(* Proofs about Wire, for any messages, any base and number of digits, any   *)
(* sizes of buffers, and a socket that cuts the stream anywhere and breaks   *)
(* at any byte: what is received is what was sent, in order.                 *)
(***************************************************************************)
EXTENDS Wire, FiniteSums, SequenceTheorems, FiniteSetTheorems, TLAPS

(***************************************************************************)
(* Numbers written in digits.                                              *)
(***************************************************************************)
\* p is the table of powers up to n.
IsPlaces(p, n) == p = [k \in 0..n |-> IF k = 0 THEN 1 ELSE Base * p[k - 1]]

LEMMA PlacesExist == \A n \in Nat : \E p : IsPlaces(p, n)
<1> DEFINE F == {n \in Nat : ~ \E p : IsPlaces(p, n)}
<1> SUFFICES ASSUME F # {} PROVE FALSE
  OBVIOUS
<1>1. PICK n \in F : \A m \in F : n <= m
  <2>1. F \in SUBSET Nat
    OBVIOUS
  <2> HIDE DEF F
  <2> QED BY <2>1, SmallestNumber
<1>2. n # 0
  <2>1. IsPlaces([k \in 0..0 |-> 1], 0)
    BY DEF IsPlaces
  <2> QED BY <1>1, <2>1
<1>3. PICK p : IsPlaces(p, n - 1)
  <2>1. n - 1 \in Nat /\ ~ (n <= n - 1)
    BY <1>2
  <2> QED BY <1>1, <2>1
<1> DEFINE q == [k \in 0..n |-> IF k = n THEN Base * p[n - 1] ELSE p[k]]
<1>4. IsPlaces(q, n)
  <2>1. ASSUME NEW k \in 0..n PROVE q[k] = IF k = 0 THEN 1 ELSE Base * q[k - 1]
    <3>1. CASE k = n
      BY <1>2, <3>1
    <3>2. CASE k # n
      <4>1. k \in 0..(n - 1)
        BY <3>2
      <4>2. p[k] = IF k = 0 THEN 1 ELSE Base * p[k - 1]
        BY <1>3, <4>1 DEF IsPlaces
      <4>3. k # 0 => q[k - 1] = p[k - 1]
        BY <4>1
      <4> QED BY <3>2, <4>2, <4>3
    <3> QED BY <3>1, <3>2
  <2> QED BY <2>1 DEF IsPlaces
<1> QED BY <1>1, <1>4

LEMMA PlaceValues ==
  /\ Place[0] = 1
  /\ \A k \in 1..Digits : Place[k] = Base * Place[k - 1]
<1>1. Digits \in Nat
  BY WireAssumption
<1>2. PICK p : IsPlaces(p, Digits)
  BY <1>1, PlacesExist
<1>3. Place = [k \in 0..Digits |-> IF k = 0 THEN 1 ELSE Base * Place[k - 1]]
  <2>1. p = [k \in 0..Digits |-> IF k = 0 THEN 1 ELSE Base * p[k - 1]]
    BY <1>2 DEF IsPlaces
  <2> QED BY <2>1, Zenon DEF Place
<1> QED BY <1>1, <1>3

LEMMA TimesGrows ==
  ASSUME NEW M \in Nat \ {0}, NEW t \in Int
  PROVE  /\ t >= 1 => M * t >= M
         /\ t <= -1 => M * t <= -M
OBVIOUS

\* Quotient and remainder are unique.
LEMMA Remainder ==
  ASSUME NEW M \in Nat \ {0}, NEW a \in Int, NEW b \in 0..(M - 1), NEW n \in Int, n = M * a + b
  PROVE  n % M = b
<1> DEFINE c == n \div M
           r == n % M
<1>1. c \in Int /\ r \in 0..(M - 1) /\ n = M * c + r
  OBVIOUS
<1> HIDE DEF c, r
<1>2. c - a \in Int /\ M * (c - a) = b - r
  BY <1>1
<1>3. c = a
  BY <1>1, <1>2, TimesGrows
<1>4. r = b
  BY <1>1, <1>3
<1> QED BY <1>4 DEF r

\* One digit more.
LEMMA DigitSplit ==
  ASSUME NEW n \in Nat, NEW P \in Nat \ {0}, NEW B \in Nat \ {0}
  PROVE  n % (B * P) = (n % P) + (((n \div P) % B) * P)
<1> DEFINE q == n \div P
           r == n % P
           e == q \div B
           d == q % B
           M == B * P
<1>1. q \in Nat /\ r \in 0..(P - 1) /\ n = P * q + r
  OBVIOUS
<1>2. e \in Nat /\ d \in 0..(B - 1) /\ q = B * e + d
  <2> HIDE DEF q
  <2> QED BY <1>1
<1> HIDE DEF q, r, e, d
<1>3. M \in Nat \ {0}
  <2>1. P * B >= P
    BY TimesGrows
  <2> QED BY <2>1
<1>4. P * q = M * e + d * P
  BY <1>1, <1>2
<1>5. d * P + r \in 0..(M - 1)
  <2>1. d * P >= 0
    BY <1>2
  <2>2. (B - 1 - d) * P >= 0
    BY <1>2
  <2>3. (B - 1 - d) * P = M - P - d * P
    BY <1>2
  <2> QED BY <1>1, <1>2, <2>1, <2>2, <2>3
<1> HIDE DEF M
<1>6. d * P \in Int
  BY <1>2
<1>7. n = M * e + (d * P + r)
  BY <1>1, <1>2, <1>3, <1>4, <1>6
<1>8. n % M = d * P + r
  <2> DEFINE b == d * P + r
  <2>1. b \in 0..(M - 1) /\ n = M * e + b
    BY <1>5, <1>7
  <2>2. n % M = b
    <3> HIDE DEF b
    <3> QED BY <1>2, <1>3, <2>1, Remainder
  <2> QED BY <2>2
<1> QED BY <1>1, <1>6, <1>8 DEF M, q, r, d

LEMMA PlacesGrow == \A k \in 0..Digits : Place[k] \in Nat \ {0}
<1>1. Digits \in Nat /\ Base \in Nat \ {0}
  BY WireAssumption
<1> DEFINE F == {k \in 0..Digits : Place[k] \notin Nat \ {0}}
<1> SUFFICES ASSUME F # {} PROVE FALSE
  OBVIOUS
<1>2. PICK k \in F : \A j \in F : k <= j
  <2>1. F \in SUBSET Nat
    BY <1>1
  <2> HIDE DEF F
  <2> QED BY <2>1, SmallestNumber
<1>3. k \in 1..Digits
  BY <1>1, <1>2, PlaceValues
<1>4. Place[k - 1] \in Nat \ {0}
  BY <1>1, <1>2, <1>3
<1>5. Place[k] = Base * Place[k - 1]
  BY <1>3, PlaceValues
<1>6. Base * Place[k - 1] >= Base
  BY <1>1, <1>4, TimesGrows
<1> QED BY <1>1, <1>2, <1>4, <1>5, <1>6

\* The digits of n, each with what it counts, from the right up to the k-th.
Worth(n, k) == [i \in (Digits - k + 1)..Digits |-> ((n \div Place[Digits - i]) % Base) * Place[Digits - i]]

\* The last k digits are the rest of n.
LEMMA LastDigits ==
  ASSUME NEW n \in Nat
  PROVE  \A k \in 0..Digits : Total(Worth(n, k)) = n % Place[k]
<1>1. Digits \in Nat /\ Base \in Nat \ {0}
  BY WireAssumption
<1> DEFINE F == {k \in 0..Digits : Total(Worth(n, k)) # n % Place[k]}
<1> SUFFICES ASSUME F # {} PROVE FALSE
  OBVIOUS
<1>2. PICK k \in F : \A j \in F : k <= j
  <2>1. F \in SUBSET Nat
    BY <1>1
  <2> HIDE DEF F
  <2> QED BY <2>1, SmallestNumber
<1>3. k # 0
  <2>1. (Digits - 0 + 1)..Digits = {}
    BY <1>1
  <2>2. Worth(n, 0) \in [{} -> Int]
    BY <2>1 DEF Worth
  <2>3. Total(Worth(n, 0)) = 0
    BY <2>2, SumEmpty
  <2>4. n % Place[0] = 0
    BY PlaceValues
  <2>5. ASSUME k = 0 PROVE FALSE
    BY <1>2, <2>3, <2>4, <2>5
  <2> QED BY <2>5
<1>4. k \in 1..Digits /\ k - 1 \in 0..Digits /\ k - 1 \notin F
  BY <1>1, <1>2, <1>3
<1>5. Total(Worth(n, k - 1)) = n % Place[k - 1]
  BY <1>4
<1> DEFINE S == (Digits - (k - 1) + 1)..Digits
           T == (Digits - k + 1)..Digits
           x == Digits - k + 1
           f == Worth(n, k - 1)
           h == Worth(n, k)
           P == Place[k - 1]
<1>6. P \in Nat \ {0} /\ Place[k] = Base * P
  BY <1>4, PlaceValues, PlacesGrow
<1>7. T = S \cup {x} /\ IsFiniteSet(S)
  <2>1. \A j \in T : j \in S \cup {x}
    BY <1>1, <1>4
  <2>2. \A j \in S \cup {x} : j \in T
    BY <1>1, <1>4
  <2>3. IsFiniteSet(S)
    BY <1>1, <1>4, FS_Interval
  <2> QED BY <2>1, <2>2, <2>3
<1>8. x \notin S
  BY <1>1, <1>4
<1>9. \A i \in T : ((n \div Place[Digits - i]) % Base) * Place[Digits - i] \in Int
  <2> TAKE i \in T
  <2>1. Digits - i \in 0..Digits
    BY <1>1, <1>4
  <2>2. Place[Digits - i] \in Nat \ {0}
    BY <2>1, PlacesGrow
  <2>3. (n \div Place[Digits - i]) \in Nat
    BY <2>2
  <2>4. (n \div Place[Digits - i]) % Base \in Nat
    BY <1>1, <2>3
  <2> QED BY <2>2, <2>4
<1>10. f \in [S -> Int] /\ h \in [S \cup {x} -> Int] /\ \A i \in S : h[i] = f[i]
  BY <1>7, <1>9 DEF Worth
<1>11. h[x] = ((n \div P) % Base) * P
  <2>1. Digits - x = k - 1 /\ x \in T
    BY <1>1, <1>4
  <2> QED BY <2>1 DEF Worth
<1>12. Total(h) = Total(f) + h[x]
  <2>1. IsFiniteSet(S)
    BY <1>7
  <2> HIDE DEF S, T, x, f, h
  <2> QED BY <2>1, <1>8, <1>10, SumNext, SMTT(30)
<1>13. n % Place[k] = (n % P) + (((n \div P) % Base) * P)
  <2> HIDE DEF P
  <2> QED BY <1>1, <1>6, DigitSplit
<1> QED BY <1>2, <1>5, <1>11, <1>12, <1>13

\* More than any frame takes.
MaxFrame == 1 + Digits + Place[Digits]

\* The receiver computes the size that the sender has written, or one that is
\* more than all that is ever sent.
LEMMA SizeRead ==
  ASSUME NEW n \in Nat, n < Place[Digits]
  PROVE  /\ SizeOf(SizeBytes(n)) \in Nat /\ SizeOf(SizeBytes(n)) >= n
         /\ SizeOf(SizeBytes(n)) = n \/ SizeOf(SizeBytes(n)) > MaxSent * MaxFrame
<1>1. Digits \in Nat
  BY WireAssumption
<1>2. (Digits - Digits + 1)..Digits = 1..Digits /\ Digits \in 0..Digits
  BY <1>1
<1>3. [i \in 1..Digits |-> SizeBytes(n)[i][2] * Place[Digits - i]] = Worth(n, Digits)
  BY <1>2 DEF Worth, SizeBytes
<1>4. Place[Digits] \in Nat \ {0}
  BY <1>2, PlacesGrow
<1>5. Total([i \in 1..Digits |-> SizeBytes(n)[i][2] * Place[Digits - i]]) = n
  <2>1. Total(Worth(n, Digits)) = n % Place[Digits]
    BY <1>2, LastDigits
  <2>2. n % Place[Digits] = n
    BY <1>4
  <2> QED BY <1>3, <2>1, <2>2
<1>6. SizeOf(SizeBytes(n)) = IF 2 * n < Place[Digits] THEN n ELSE n + (SizeWord - Place[Digits])
  BY <1>5 DEF SizeOf
<1>7. PICK all \in Nat : all = MaxSent * MaxFrame
  BY <1>1, <1>4, WireAssumption DEF MaxFrame
<1>8. SizeWord \in Nat /\ (SizeWord = Place[Digits] \/ SizeWord > Place[Digits] + all)
  BY <1>7, WireAssumption DEF MaxFrame
<1> QED BY <1>4, <1>6, <1>7, <1>8

(***************************************************************************)
(* Messages to JSON and back.                                              *)
(***************************************************************************)
LEMMA EntryBack == \A e : ParseEntry(EntryToJSON(e)) = AsNew(e)
BY DEF ParseEntry, EntryToJSON, AsNew, ItemEntry

LEMMA EntriesBack ==
  ASSUME NEW v, AreEntries(v)
  PROVE  ParseEntries(EntriesToJSON(v)) = Shown(v)
<1>1. v \in Seq({v[i] : i \in DOMAIN v}) /\ DOMAIN v = 1..Len(v)
  BY DEF AreEntries
<1>2. CASE v = <<>>
  BY <1>2 DEF EntriesToJSON, ParseEntries, Shown
<1>3. CASE v # <<>>
  <2> DEFINE j == [i \in DOMAIN v |-> EntryToJSON(v[i])]
  <2>1. EntriesToJSON(v) = j /\ j # Null
    BY <1>3 DEF EntriesToJSON, AreEntries
  <2>2. ParseEntries(j) = [i \in DOMAIN v |-> ParseEntry(EntryToJSON(v[i]))]
    BY <2>1 DEF ParseEntries
  <2> QED BY <2>1, <2>2, EntryBack DEF Shown
<1> QED BY <1>2, <1>3

LEMMA MessageBack ==
  ASSUME NEW m, IsMessage(m)
  PROVE  ParseMessage(ToJSON(m)) = ImageOf(m)
<1>1. CASE m.type = "ADD"
  <2>1. m = AddMessage(m.itemName, m.itemID, m.itemQuantity)
    BY <1>1 DEF IsMessage
  <2>2. ImageOf(m) = m
    BY <2>1 DEF AddMessage, ImageOf
  <2>3. ToJSON(m) = AddToJSON(m)
    BY <1>1 DEF ToJSON
  <2>4. ParseMessage(AddToJSON(m)) = ParseAdd(AddToJSON(m))
    BY DEF AddToJSON, ParseMessage, ParseType
  <2> QED BY <2>1, <2>2, <2>3, <2>4 DEF ParseAdd, AddToJSON
<1>2. CASE m.type = "ADD_RESPONSE"
  <2>1. m = AddResponseMessage(m.results, m.status, m.info) /\ AreEntries(m.results)
    BY <1>2 DEF IsMessage
  <2>2. ImageOf(m) = AddResponseMessage(Shown(m.results), m.status, m.info)
    BY <2>1 DEF AddResponseMessage, ImageOf
  <2>3. ToJSON(m) = AddResponseToJSON(m)
    BY <1>2 DEF ToJSON
  <2>4. ParseMessage(AddResponseToJSON(m)) = ParseAddResponse(AddResponseToJSON(m))
    BY DEF AddResponseToJSON, ParseMessage, ParseType
  <2> QED BY <2>1, <2>2, <2>3, <2>4, EntriesBack DEF ParseAddResponse, AddResponseToJSON
<1>3. CASE m.type = "SEARCH"
  <2>1. m = SearchMessage(m.itemName, m.itemID)
    BY <1>3 DEF IsMessage
  <2>2. ImageOf(m) = m
    BY <2>1 DEF SearchMessage, ImageOf
  <2>3. ToJSON(m) = SearchToJSON(m)
    BY <1>3 DEF ToJSON
  <2>4. ParseMessage(SearchToJSON(m)) = ParseSearch(SearchToJSON(m))
    BY DEF SearchToJSON, ParseMessage, ParseType
  <2> QED BY <2>1, <2>2, <2>3, <2>4 DEF ParseSearch, SearchToJSON
<1>4. CASE m.type = "SEARCH_RESPONSE"
  <2>1. m = SearchResponseMessage(m.results, m.status, m.info) /\ AreEntries(m.results)
    BY <1>4 DEF IsMessage
  <2>2. ImageOf(m) = SearchResponseMessage(Shown(m.results), m.status, m.info)
    BY <2>1 DEF SearchResponseMessage, ImageOf
  <2>3. ToJSON(m) = SearchResponseToJSON(m)
    BY <1>4 DEF ToJSON
  <2>4. ParseMessage(SearchResponseToJSON(m)) = ParseSearchResponse(SearchResponseToJSON(m))
    BY DEF SearchResponseToJSON, ParseMessage, ParseType
  <2> QED BY <2>1, <2>2, <2>3, <2>4, EntriesBack DEF ParseSearchResponse, SearchResponseToJSON
<1>5. CASE m.type = "CONFIRM_ORDER"
  <2>1. m = ConfirmOrder(m.order) /\ AreEntries(m.order)
    BY <1>5 DEF IsMessage
  <2>2. ImageOf(m) = ConfirmOrder(Shown(m.order))
    BY <2>1 DEF ConfirmOrder, ImageOf
  <2>3. ToJSON(m) = ConfirmToJSON(m)
    BY <1>5 DEF ToJSON
  <2>4. ParseMessage(ConfirmToJSON(m)) = ParseConfirm(ConfirmToJSON(m))
    BY DEF ConfirmToJSON, ParseMessage, ParseType
  <2> QED BY <2>1, <2>2, <2>3, <2>4, EntriesBack DEF ParseConfirm, ConfirmToJSON
<1>6. CASE m.type = "CONFIRM_ORDER_RESPONSE"
  <2>1. m = ConfirmOrderResponseMessage(m.orderNum, m.status, m.info)
    BY <1>6 DEF IsMessage
  <2>2. ImageOf(m) = m
    BY <2>1 DEF ConfirmOrderResponseMessage, ImageOf
  <2>3. ToJSON(m) = ConfirmResponseToJSON(m)
    BY <1>6 DEF ToJSON
  <2>4. ParseMessage(ConfirmResponseToJSON(m)) = ParseConfirmMessage(ConfirmResponseToJSON(m))
    BY DEF ConfirmResponseToJSON, ParseMessage, ParseType
  <2> QED BY <2>1, <2>2, <2>3, <2>4 DEF ParseConfirmMessage, ConfirmResponseToJSON
<1>7. CASE m.type = "CANCEL_ORDER"
  <2>1. m = CancelOrder(m.orderNum)
    BY <1>7 DEF IsMessage
  <2>2. ImageOf(m) = m
    BY <2>1 DEF CancelOrder, ImageOf
  <2>3. ToJSON(m) = CancelToJSON(m)
    BY <1>7 DEF ToJSON
  <2>4. ParseMessage(CancelToJSON(m)) = ParseCancel(CancelToJSON(m))
    BY DEF CancelToJSON, ParseMessage, ParseType
  <2> QED BY <2>1, <2>2, <2>3, <2>4 DEF ParseCancel, CancelToJSON
<1>8. CASE m.type = "CANCEL_ORDER_RESPONSE"
  <2>1. m = CancelOrderResponseMessage(m.status, m.info)
    BY <1>8 DEF IsMessage
  <2>2. ImageOf(m) = m
    BY <2>1 DEF CancelOrderResponseMessage, ImageOf
  <2>3. ToJSON(m) = CancelResponseToJSON(m)
    BY <1>8 DEF ToJSON
  <2>4. ParseMessage(CancelResponseToJSON(m)) = ParseCancelMessage(CancelResponseToJSON(m))
    BY DEF CancelResponseToJSON, ParseMessage, ParseType
  <2> QED BY <2>1, <2>2, <2>3, <2>4 DEF ParseCancelMessage, CancelResponseToJSON
<1>9. CASE m.type = "GOODBYE"
  <2>1. m = GoodbyeMessage
    BY <1>9 DEF IsMessage
  <2>2. ImageOf(m) = m
    BY <2>1 DEF GoodbyeMessage, ImageOf
  <2>3. ToJSON(m) = GoodbyeToJSON(m)
    BY <1>9 DEF ToJSON
  <2>4. ParseMessage(GoodbyeToJSON(m)) = ParseGoodbye(GoodbyeToJSON(m))
    BY DEF GoodbyeToJSON, ParseMessage, ParseType
  <2> QED BY <2>1, <2>2, <2>3, <2>4 DEF ParseGoodbye
<1> QED BY <1>1, <1>2, <1>3, <1>4, <1>5, <1>6, <1>7, <1>8, <1>9 DEF IsMessage

(***************************************************************************)
(* The stream.                                                             *)
(***************************************************************************)
Bytes == {JSON_ID, Zero} \cup {<<"digit", d>> : d \in 0..(Base - 1)}
           \cup {<<"char", ToJSON(m), k>> : m \in Mail, k \in Nat}

\* The text of a message, its size, what the receiver reads as its size, and the
\* bytes of its frame, one by one.
Text(m) == Dump(ToJSON(m)) \o <<Zero>>
TextSize(m) == TextLength(ToJSON(m)) + 1
FrameSize(m) == 1 + Digits + TextSize(m)
ReadSize(m) == SizeOf(SizeBytes(TextSize(m)))
FrameByte(m, i) ==
  IF i = 1 THEN JSON_ID
  ELSE IF i <= 1 + Digits THEN SizeBytes(TextSize(m))[i - 1]
  ELSE Text(m)[i - 1 - Digits]

\* The bytes b are on the tape after the first o bytes.
Laid(b, o, tape) == \A s \in 1..Len(b) : b[s] = tape[o + s]

LEMMA Joined ==
  ASSUME NEW a \in Seq(Bytes), NEW b \in Seq(Bytes)
  PROVE  a \o b \in Seq(Bytes) /\ Len(a \o b) = Len(a) + Len(b)
OBVIOUS

LEMMA LaidBoth ==
  ASSUME NEW a \in Seq(Bytes), NEW b \in Seq(Bytes), NEW o \in Nat, NEW tape,
         Laid(a, o, tape), Laid(b, o + Len(a), tape)
  PROVE  Laid(a \o b, o, tape)
<1> SUFFICES ASSUME NEW s \in 1..Len(a \o b) PROVE (a \o b)[s] = tape[o + s]
  BY DEF Laid
<1>1. CASE s <= Len(a)
  BY <1>1 DEF Laid
<1>2. CASE s > Len(a)
  <2>1. s - Len(a) \in 1..Len(b) /\ (a \o b)[s] = b[s - Len(a)]
    BY <1>2
  <2>2. b[s - Len(a)] = tape[o + Len(a) + (s - Len(a))]
    BY <2>1 DEF Laid
  <2>3. o + Len(a) + (s - Len(a)) = o + s
    BY <2>1
  <2> QED BY <2>1, <2>2, <2>3
<1> QED BY <1>1, <1>2

LEMMA LaidFirst ==
  ASSUME NEW a \in Seq(Bytes), NEW o \in Nat, NEW tape, Laid(a, o, tape), NEW n \in 0..Len(a)
  PROVE  /\ SubSeq(a, 1, n) \in Seq(Bytes) /\ Len(SubSeq(a, 1, n)) = n
         /\ Laid(SubSeq(a, 1, n), o, tape)
BY DEF Laid

LEMMA LaidRest ==
  ASSUME NEW a \in Seq(Bytes), NEW o \in Nat, NEW tape, Laid(a, o, tape), NEW n \in 0..Len(a)
  PROVE  /\ SubSeq(a, n + 1, Len(a)) \in Seq(Bytes) /\ Len(SubSeq(a, n + 1, Len(a))) = Len(a) - n
         /\ Laid(SubSeq(a, n + 1, Len(a)), o + n, tape)
<1> DEFINE b == SubSeq(a, n + 1, Len(a))
<1>1. b \in Seq(Bytes) /\ Len(b) = Len(a) - n /\ \A s \in 1..(Len(a) - n) : b[s] = a[n + s]
  OBVIOUS
<1>2. ASSUME NEW s \in 1..(Len(a) - n) PROVE a[n + s] = tape[o + n + s]
  <2>1. n + s \in 1..Len(a)
    OBVIOUS
  <2>2. a[n + s] = tape[o + (n + s)]
    BY <2>1 DEF Laid
  <2>3. o + (n + s) = o + n + s
    OBVIOUS
  <2> QED BY <2>2, <2>3
<1> HIDE DEF b
<1>3. Laid(b, o + n, tape)
  BY <1>1, <1>2 DEF Laid
<1> QED BY <1>1, <1>3 DEF b

\* What sendMessage hands to the socket.
LEMMA Pieces ==
  ASSUME NEW m \in Mail
  PROVE  /\ <<JSON_ID>> \in Seq(Bytes) /\ Len(<<JSON_ID>>) = 1
         /\ SizeBytes(TextSize(m)) \in Seq(Bytes) /\ Len(SizeBytes(TextSize(m))) = Digits
         /\ Text(m) \in Seq(Bytes) /\ Len(Text(m)) = TextSize(m)
         /\ TextSize(m) \in Nat /\ TextSize(m) >= 2 /\ TextSize(m) < Place[Digits]
         /\ Digits \in Nat /\ FrameSize(m) \in Nat
<1>1. /\ Digits \in Nat /\ Base \in Nat \ {0}
      /\ TextLength(ToJSON(m)) \in Nat \ {0} /\ TextLength(ToJSON(m)) + 1 < Place[Digits]
  BY WireAssumption
<1>2. TextSize(m) \in Nat /\ TextSize(m) >= 2 /\ TextSize(m) < Place[Digits] /\ FrameSize(m) \in Nat
  BY <1>1 DEF TextSize, FrameSize
<1>3. JSON_ID \in Bytes /\ Zero \in Bytes
  BY DEF Bytes
<1>4. SizeBytes(TextSize(m)) \in [1..Digits -> Bytes]
  <2> SUFFICES ASSUME NEW i \in 1..Digits
               PROVE  <<"digit", (TextSize(m) \div Place[Digits - i]) % Base>> \in Bytes
    BY DEF SizeBytes
  <2>1. Digits - i \in 0..Digits
    BY <1>1
  <2>2. Place[Digits - i] \in Nat \ {0}
    BY <2>1, PlacesGrow
  <2>3. TextSize(m) \div Place[Digits - i] \in Nat
    BY <1>2, <2>2
  <2>4. (TextSize(m) \div Place[Digits - i]) % Base \in 0..(Base - 1)
    BY <1>1, <2>3
  <2> QED BY <2>4 DEF Bytes
<1>5. Dump(ToJSON(m)) \in [1..TextLength(ToJSON(m)) -> Bytes]
  BY <1>1 DEF Dump, Bytes
<1>6. Dump(ToJSON(m)) \in Seq(Bytes) /\ Len(Dump(ToJSON(m))) = TextLength(ToJSON(m))
  BY <1>1, <1>5
<1>7. SizeBytes(TextSize(m)) \in Seq(Bytes) /\ Len(SizeBytes(TextSize(m))) = Digits
  BY <1>1, <1>4
<1>8. Text(m) \in Seq(Bytes) /\ Len(Text(m)) = TextSize(m)
  BY <1>1, <1>3, <1>6 DEF Text, TextSize
<1> QED BY <1>1, <1>2, <1>3, <1>7, <1>8

\* A text is that of one message.
LEMMA TextParses ==
  ASSUME NEW m \in Mail, NEW d \in Mail, Parses(Text(m), ToJSON(d))
  PROVE  ToJSON(d) = ToJSON(m)
<1>1. Text(m) = Text(d)
  BY DEF Parses, Text
<1>2. TextLength(ToJSON(m)) \in Nat \ {0} /\ TextLength(ToJSON(d)) \in Nat \ {0}
  BY WireAssumption
<1>3. ASSUME NEW x \in Mail PROVE Text(x)[1] = <<"char", ToJSON(x), 1>>
  <2> DEFINE D == Dump(ToJSON(x))
             n == TextLength(ToJSON(x))
  <2>1. n \in Nat \ {0}
    BY WireAssumption
  <2>2. D \in Seq({D[i] : i \in 1..n}) /\ Len(D) = n /\ D[1] = <<"char", ToJSON(x), 1>>
    <3>1. D = [k \in 1..n |-> <<"char", ToJSON(x), k>>]
      BY DEF Dump
    <3> HIDE DEF n
    <3>2. D \in [1..n -> {D[i] : i \in 1..n}] /\ D[1] = <<"char", ToJSON(x), 1>>
      BY <2>1, <3>1
    <3> HIDE DEF D
    <3> QED BY <2>1, <3>2
  <2> HIDE DEF D, n
  <2>3. (D \o <<Zero>>)[1] = D[1]
    BY <2>1, <2>2
  <2> QED BY <2>2, <2>3 DEF Text, D
<1> QED BY <1>1, <1>3

-------------------------------------------------------------------------------
WireTypes ==
  /\ posted \in Seq(Mail) /\ delivered \in Seq({ImageOf(m) : m \in Mail})
  /\ Len(delivered) <= Len(posted) /\ Len(posted) <= MaxSent
  /\ buffers \in Seq(Seq(Bytes)) /\ stream \in Seq(Bytes)
  /\ str \in Seq(Bytes) /\ cbuff \in Seq(Bytes) /\ nsize \in Nat
  /\ connected \in BOOLEAN /\ want \in {"id", "size", "text", "end"}
  /\ want = "end" => ~ connected

\* All that was ever to be sent is on the tape, frame by frame: the k-th message
\* ends at cut[k].
TapeInv(tape, cut) ==
  /\ cut \in [0..Len(posted) -> Nat]
  /\ \A k \in 1..Len(posted) : cut[k] = cut[k - 1] + FrameSize(posted[k])
  /\ \A k \in 0..Len(posted) : cut[k] <= cut[Len(posted)] /\ cut[k] <= k * MaxFrame
  /\ \A k \in 1..Len(posted) : \A i \in 1..FrameSize(posted[k]) :
       tape[cut[k - 1] + i] = FrameByte(posted[k], i)

\* Where on the tape cbuff begins.
Before == IF want = "id" THEN 0 ELSE IF want = "size" THEN 1 ELSE 1 + Digits + Len(str)
At(cut) == cut[Len(delivered)] + Before

\* The receiver reads the tape: it is in the frame of the first message that it
\* has not delivered, and the stream is what comes next.  When it has read too
\* big a size it swallows what follows that frame as well.
ReaderInv(tape, cut) ==
  want # "end" =>
    /\ Laid(cbuff, At(cut), tape) /\ Laid(stream, At(cut) + Len(cbuff), tape)
    /\ At(cut) + Len(cbuff) + Len(stream) <= cut[Len(posted)]
    /\ want \in {"size", "text"} => Len(delivered) < Len(posted)
    /\ want = "text" => /\ nsize = ReadSize(posted[Len(delivered) + 1]) /\ Len(str) < nsize
                        /\ Laid(str, cut[Len(delivered)] + 1 + Digits, tape)

\* While the connection stands, the sender's buffers are the rest of the tape:
\* the j-th begins after off[j].
SenderInv(tape, cut, off) ==
  connected =>
    /\ off \in [1..(Len(buffers) + 1) -> Nat]
    /\ off[1] = At(cut) + Len(cbuff) + Len(stream)
    /\ off[Len(buffers) + 1] = cut[Len(posted)]
    /\ \A j \in 1..(Len(buffers) + 1) : off[j] <= cut[Len(posted)]
    /\ \A j \in 1..Len(buffers) : /\ off[j + 1] = off[j] + Len(buffers[j])
                                  /\ Laid(buffers[j], off[j], tape)

WireInv ==
  /\ WireTypes
  /\ \E tape, cut, off : TapeInv(tape, cut) /\ ReaderInv(tape, cut) /\ SenderInv(tape, cut, off)

LEMMA WireInvInit == WireInit => WireInv
<1> SUFFICES ASSUME WireInit PROVE WireInv
  OBVIOUS
<1>1. WireTypes
  <2>1. Len(posted) = 0 /\ MaxSent \in Nat
    BY WireAssumption DEF WireInit
  <2> QED BY <2>1 DEF WireInit, WireTypes
<1> DEFINE cut == [k \in 0..0 |-> 0]
           off == [j \in 1..1 |-> 0]
<1>2. Len(posted) = 0 /\ Len(buffers) = 0 /\ Len(stream) = 0 /\ Len(cbuff) = 0 /\ Len(delivered) = 0
  BY DEF WireInit
<1>3. TapeInv(cut, cut)
  <2>1. MaxFrame \in Nat
    BY WireAssumption, PlacesGrow DEF MaxFrame
  <2>2. 0 <= 0 * MaxFrame
    BY <2>1
  <2> QED BY <1>2, <2>2 DEF TapeInv
<1>4. ReaderInv(cut, cut)
  BY <1>2 DEF WireInit, ReaderInv, At, Before, Laid
<1>5. SenderInv(cut, cut, off)
  BY <1>2 DEF WireInit, SenderInv, At, Before, Laid
<1> QED BY <1>1, <1>3, <1>4, <1>5 DEF WireInv

\* Where the receiver is, is a place on the tape.
LEMMA AtIsPlace ==
  ASSUME WireTypes, NEW tape, NEW cut, TapeInv(tape, cut)
  PROVE  /\ Before \in Nat /\ cut[Len(delivered)] \in Nat /\ At(cut) \in Nat
         /\ cut[Len(posted)] \in Nat /\ Digits \in Nat
<1>1. Digits \in Nat /\ Len(str) \in Nat /\ Len(delivered) \in 0..Len(posted) /\ Len(posted) \in Nat
  BY WireAssumption DEF WireTypes
<1>2. Before \in Nat
  BY <1>1 DEF Before
<1>3. cut[Len(delivered)] \in Nat /\ cut[Len(posted)] \in Nat
  BY <1>1 DEF TapeInv
<1> QED BY <1>1, <1>2, <1>3 DEF At

LEMMA MinOfTwo ==
  ASSUME NEW a \in Int, NEW b \in Int
  PROVE  Min({a, b}) \in {a, b} /\ Min({a, b}) <= a /\ Min({a, b}) <= b
<1>1. \E x \in {a, b} : \A y \in {a, b} : x <= y
  <2>1. CASE a <= b
    BY <2>1
  <2>2. CASE b <= a
    BY <2>2
  <2> QED BY <2>1, <2>2
<1>2. Min({a, b}) \in {a, b} /\ \A y \in {a, b} : Min({a, b}) <= y
  BY <1>1 DEF Min
<1> QED BY <1>2

\* How much is read at a time.
LEMMA RequestedSize ==
  ASSUME WireTypes, want # "end"
  PROVE  /\ Requested \in Int
         /\ want = "text" => Requested <= nsize - Len(str)
         /\ want = "text" /\ Len(str) < nsize => Requested >= 1
<1>1. Digits \in Nat /\ BufferSize \in Nat \ {0} /\ BufferSize \in Int /\ nsize - Len(str) \in Int
  BY WireAssumption DEF WireTypes
<1>2. CASE want = "id"
  BY <1>2 DEF Requested
<1>3. CASE want = "size"
  BY <1>1, <1>3 DEF Requested
<1>4. CASE want = "text"
  <2>1. Requested = Min({nsize - Len(str), BufferSize})
    BY <1>4 DEF Requested
  <2>2. /\ Requested \in {nsize - Len(str), BufferSize} /\ Requested <= nsize - Len(str)
    BY <1>1, <2>1, MinOfTwo, Zenon
  <2>3. nsize \in Int /\ Len(str) \in Int
    BY DEF WireTypes
  <2> QED BY <1>1, <1>4, <2>2, <2>3
<1> QED BY <1>2, <1>3, <1>4 DEF WireTypes

\* A read takes the first bytes of the stream.
LEMMA ReadKeeps == WireInv /\ Read => WireInv'
<1> SUFFICES ASSUME WireInv, Read PROVE WireInv'
  OBVIOUS
<1>1. PICK tape, cut, off : TapeInv(tape, cut) /\ ReaderInv(tape, cut) /\ SenderInv(tape, cut, off)
  BY DEF WireInv
<1>t. WireTypes
  BY DEF WireInv
<1>2. PICK n \in 0..Len(stream) :
         /\ cbuff' = cbuff \o SubSeq(stream, 1, n)
         /\ stream' = SubSeq(stream, n + 1, Len(stream))
  <2> DEFINE top == Min({Len(stream), Requested - Len(cbuff)})
  <2>1. PICK n \in 1..top :
         /\ cbuff' = cbuff \o SubSeq(stream, 1, n)
         /\ stream' = SubSeq(stream, n + 1, Len(stream))
    BY DEF Read
  <2>2. Len(stream) \in Nat /\ Requested - Len(cbuff) \in Int
    BY <1>t, RequestedSize DEF WireTypes, Read
  <2>3. top \in Int /\ top <= Len(stream)
    <3>1. Len(stream) \in Int
      BY <2>2
    <3>2. top \in {Len(stream), Requested - Len(cbuff)} /\ top <= Len(stream)
      BY <2>2, <3>1, MinOfTwo, Zenon
    <3> QED BY <2>2, <3>1, <3>2
  <2> HIDE DEF top
  <2>4. n \in 0..Len(stream)
    BY <2>2, <2>3
  <2> QED BY <2>1, <2>4
<1>3. want # "end" /\ want' = want /\ UNCHANGED <<posted, buffers, connected, want, nsize, str, delivered>>
  BY DEF Read
<1> DEFINE a == SubSeq(stream, 1, n)
           b == SubSeq(stream, n + 1, Len(stream))
           o == At(cut) + Len(cbuff)
<1>4. At(cut) \in Nat /\ o \in Nat /\ cbuff \in Seq(Bytes) /\ stream \in Seq(Bytes) /\ cut[Len(posted)] \in Nat
  BY <1>1, <1>t, AtIsPlace DEF WireTypes
<1>5. Laid(cbuff, At(cut), tape) /\ Laid(stream, o, tape)
  BY <1>1, <1>3 DEF ReaderInv
<1>6. a \in Seq(Bytes) /\ Len(a) = n /\ Laid(a, o, tape)
  BY <1>4, <1>5, LaidFirst
<1>7. b \in Seq(Bytes) /\ Len(b) = Len(stream) - n /\ Laid(b, o + n, tape)
  BY <1>4, <1>5, LaidRest
<1>8. cbuff' = cbuff \o a /\ stream' = b
  BY <1>2
<1> HIDE DEF a, b
<1>l. Len(cbuff) \in Nat /\ Len(stream) \in Nat /\ n \in Nat
  BY <1>4
<1>9. Laid(cbuff \o a, At(cut), tape) /\ cbuff \o a \in Seq(Bytes) /\ Len(cbuff \o a) = Len(cbuff) + n
  <2>1. Laid(a, At(cut) + Len(cbuff), tape)
    BY <1>6
  <2>2. Laid(cbuff \o a, At(cut), tape)
    BY <1>4, <1>5, <1>6, <2>1, LaidBoth, Zenon
  <2>3. cbuff \o a \in Seq(Bytes) /\ Len(cbuff \o a) = Len(cbuff) + Len(a)
    BY <1>4, <1>6, Joined, Zenon
  <2> QED BY <1>6, <2>2, <2>3
<1>10. At(cut)' = At(cut)
  BY <1>3 DEF At, Before
<1>11. At(cut) + Len(cbuff') = o + n /\ o + n + Len(stream') = o + Len(stream)
  <2>1. Len(cbuff') = Len(cbuff) + n /\ Len(stream') = Len(stream) - n
    BY <1>7, <1>8, <1>9
  <2> QED BY <1>4, <1>l, <2>1
<1>12. WireTypes'
  BY <1>t, <1>3, <1>7, <1>8, <1>9 DEF WireTypes
<1>13. TapeInv(tape, cut)'
  BY <1>1, <1>3 DEF TapeInv
<1>14. ReaderInv(tape, cut)'
  BY <1>1, <1>3, <1>7, <1>8, <1>9, <1>10, <1>11 DEF ReaderInv, Laid
<1>15. SenderInv(tape, cut, off)'
  BY <1>1, <1>3, <1>10, <1>11 DEF SenderInv, Laid
<1> QED BY <1>12, <1>13, <1>14, <1>15 DEF WireInv

\* The end of the stream, or a connection that breaks: what is left is on the tape.
LEMMA EndsKeep == WireInv /\ (ReadEnd \/ Break \/ WriteFails) => WireInv'
<1> SUFFICES ASSUME WireInv, ReadEnd \/ Break \/ WriteFails PROVE WireInv'
  OBVIOUS
<1>1. PICK tape, cut, off : TapeInv(tape, cut) /\ ReaderInv(tape, cut) /\ SenderInv(tape, cut, off)
  BY DEF WireInv
<1>t. WireTypes
  BY DEF WireInv
<1>2. ~ connected' /\ UNCHANGED <<posted, nsize, str, cbuff, delivered>>
  BY <1>t DEF ReadEnd, Break, WriteFails
<1>3. SenderInv(tape, cut, off)'
  BY <1>2 DEF SenderInv
<1>4. TapeInv(tape, cut)'
  BY <1>1, <1>2 DEF TapeInv
<1>5. CASE ReadEnd
  <2>1. WireTypes' /\ ReaderInv(tape, cut)'
    BY <1>t, <1>2, <1>5 DEF WireTypes, ReadEnd, ReaderInv
  <2> QED BY <2>1, <1>3, <1>4 DEF WireInv
<1>6. CASE WriteFails
  <2>1. WireTypes'
    BY <1>t, <1>2, <1>6 DEF WireTypes, WriteFails
  <2>2. ReaderInv(tape, cut)'
    BY <1>1, <1>2, <1>6 DEF WriteFails, ReaderInv, At, Before
  <2> QED BY <2>1, <2>2, <1>3, <1>4 DEF WireInv
<1>7. CASE Break
  <2>1. PICK n \in 0..Len(stream) : stream' = SubSeq(stream, 1, n)
    BY <1>7 DEF Break
  <2>2. want' = want /\ buffers' = buffers
    BY <1>7 DEF Break
  <2>3. At(cut) \in Nat /\ stream \in Seq(Bytes) /\ cbuff \in Seq(Bytes) /\ cut[Len(posted)] \in Nat
    BY <1>1, <1>t, AtIsPlace DEF WireTypes
  <2> DEFINE o == At(cut) + Len(cbuff)
             a == SubSeq(stream, 1, n)
  <2>4. ASSUME want # "end" PROVE a \in Seq(Bytes) /\ Len(a) = n /\ Laid(a, o, tape)
    <3>1. Laid(stream, o, tape) /\ o \in Nat
      BY <1>1, <2>3, <2>4 DEF ReaderInv
    <3> HIDE DEF o
    <3> QED BY <2>3, <3>1, LaidFirst
  <2>5. a \in Seq(Bytes) /\ Len(a) = n /\ stream' = a
    BY <2>1, <2>3
  <2> HIDE DEF a
  <2>6. WireTypes'
    <3>1. connected' \in BOOLEAN
      BY <1>7 DEF Break
    <3> QED BY <1>t, <1>2, <2>2, <2>5, <3>1 DEF WireTypes
  <2>7. At(cut)' = At(cut)
    BY <1>2, <2>2 DEF At, Before
  <2>8. ReaderInv(tape, cut)'
    BY <1>1, <1>2, <2>2, <2>3, <2>4, <2>5, <2>7 DEF ReaderInv, Laid
  <2> QED BY <2>6, <2>8, <1>3, <1>4 DEF WireInv
<1> QED BY <1>5, <1>6, <1>7

\* A write puts the next bytes of the tape at the end of the stream.
LEMMA WriteKeeps == WireInv /\ Write => WireInv'
<1> SUFFICES ASSUME WireInv, Write PROVE WireInv'
  OBVIOUS
<1>1. PICK tape, cut, off : TapeInv(tape, cut) /\ ReaderInv(tape, cut) /\ SenderInv(tape, cut, off)
  BY DEF WireInv
<1>t. WireTypes
  BY DEF WireInv
<1>2. /\ buffers # <<>> /\ connected /\ want # "end"
      /\ UNCHANGED <<posted, connected, want, nsize, str, cbuff, delivered>>
  BY <1>t DEF Write, WireTypes
<1> DEFINE head == Head(buffers)
           size == Len(head)
           count == Len(buffers)
           o == At(cut) + Len(cbuff)
<1>3. /\ head \in Seq(Bytes) /\ head = buffers[1] /\ size \in Nat /\ count \in Nat \ {0}
      /\ Tail(buffers) \in Seq(Seq(Bytes)) /\ Len(Tail(buffers)) = count - 1
      /\ \A j \in 1..(count - 1) : Tail(buffers)[j] = buffers[j + 1]
  BY <1>t, <1>2 DEF WireTypes
<1>4. PICK n \in 1..size :
        /\ stream' = stream \o SubSeq(head, 1, n)
        /\ buffers' = IF n = size THEN Tail(buffers)
                      ELSE <<SubSeq(head, n + 1, size)>> \o Tail(buffers)
  BY DEF Write
<1>5. At(cut) \in Nat /\ Len(cbuff) \in Nat /\ o \in Nat /\ stream \in Seq(Bytes) /\ Len(stream) \in Nat
      /\ cut[Len(posted)] \in Nat
  BY <1>1, <1>t, AtIsPlace DEF WireTypes
<1>6. Laid(stream, o, tape) /\ Laid(cbuff, At(cut), tape)
  BY <1>1, <1>2 DEF ReaderInv
<1>7. /\ off \in [1..(count + 1) -> Nat]
      /\ off[1] = o + Len(stream)
      /\ off[count + 1] = cut[Len(posted)]
      /\ \A j \in 1..(count + 1) : off[j] <= cut[Len(posted)]
      /\ \A j \in 1..count : off[j + 1] = off[j] + Len(buffers[j]) /\ Laid(buffers[j], off[j], tape)
  BY <1>1, <1>2 DEF SenderInv
<1>n. n \in Nat /\ n <= size /\ n \in 0..Len(head)
  BY <1>3
<1>8. /\ Laid(head, off[1], tape) /\ off[2] = off[1] + size /\ off[1] \in Nat /\ off[2] \in Nat
      /\ off[2] <= cut[Len(posted)]
  <2>1. 1 \in 1..count /\ 1 \in 1..(count + 1) /\ 1 + 1 = 2 /\ 2 \in 1..(count + 1)
    BY <1>3
  <2> QED BY <1>3, <1>7, <2>1
<1> DEFINE a == SubSeq(head, 1, n)
           b == SubSeq(head, n + 1, size)
<1> HIDE DEF head, count, o
<1>9. a \in Seq(Bytes) /\ Len(a) = n /\ Laid(a, off[1], tape)
  BY <1>3, <1>n, <1>8, LaidFirst
<1>10. b \in Seq(Bytes) /\ Len(b) = size - n /\ Laid(b, off[1] + n, tape)
  BY <1>3, <1>n, <1>8, LaidRest
<1> HIDE DEF a, b, size
<1>11. Laid(stream \o a, o, tape) /\ stream \o a \in Seq(Bytes) /\ Len(stream \o a) = Len(stream) + n
  <2>1. Laid(a, o + Len(stream), tape)
    BY <1>7, <1>9
  <2>2. Laid(stream \o a, o, tape)
    BY <1>5, <1>6, <1>9, <2>1, LaidBoth, Zenon
  <2> QED BY <1>5, <1>9, <2>2
<1>12. stream' = stream \o a /\ buffers' = IF n = size THEN Tail(buffers) ELSE <<b>> \o Tail(buffers)
  BY <1>4 DEF a, b
<1>13. o + Len(stream') = off[1] + n
  <2>1. Len(stream') = Len(stream) + n
    BY <1>11, <1>12
  <2> QED BY <1>5, <1>7, <1>n, <2>1
<1>14. off[1] + n <= cut[Len(posted)]
  BY <1>3, <1>5, <1>8, <1>n
<1>15. TapeInv(tape, cut)'
  BY <1>1, <1>2 DEF TapeInv
<1>16. At(cut)' = At(cut)
  BY <1>2 DEF At, Before
<1>17. ReaderInv(tape, cut)'
  BY <1>1, <1>2, <1>6, <1>11, <1>12, <1>13, <1>14, <1>16 DEF ReaderInv, o
<1>18. CASE n = size
  <2>0. PICK rest : rest = [j \in 1..count |-> off[j + 1]]
    OBVIOUS
  <2>1. buffers' = Tail(buffers)
    BY <1>12, <1>18
  <2>2. WireTypes'
    BY <1>t, <1>2, <1>3, <1>11, <1>12, <2>1 DEF WireTypes
  <2>3. SenderInv(tape, cut, rest)'
    <3>1. rest \in [1..count -> Nat]
      BY <1>3, <1>7, <2>0
    <3>2. rest[1] = off[1] + n /\ rest[count] = cut[Len(posted)]
      BY <1>3, <1>7, <1>8, <1>18, <2>0
    <3>3. ASSUME NEW j \in 1..(count - 1)
          PROVE  rest[j + 1] = rest[j] + Len(buffers'[j]) /\ Laid(buffers'[j], rest[j], tape)
      <4>1. j + 1 \in 1..count /\ buffers'[j] = buffers[j + 1]
        BY <1>3, <2>1
      <4>2. off[j + 1 + 1] = off[j + 1] + Len(buffers[j + 1]) /\ Laid(buffers[j + 1], off[j + 1], tape)
        BY <1>7, <4>1
      <4>3. rest[j] = off[j + 1] /\ rest[j + 1] = off[j + 1 + 1]
        BY <1>3, <2>0, <4>1
      <4> QED BY <4>1, <4>2, <4>3
    <3>4. Len(buffers') = count - 1 /\ Len(buffers') + 1 = count
      BY <1>3, <2>1
    <3>5. \A j \in 1..count : rest[j] <= cut[Len(posted)]
      BY <1>3, <1>7, <2>0
    <3>6. rest[1] = At(cut)' + Len(cbuff') + Len(stream')
      BY <1>2, <1>13, <1>16, <3>2 DEF o
    <3>7. \A j \in 1..Len(buffers') :
            rest[j + 1] = rest[j] + Len(buffers'[j]) /\ Laid(buffers'[j], rest[j], tape)
      BY <3>3, <3>4
    <3>8. posted' = posted
      BY <1>2
    <3>9. /\ rest \in [1..(Len(buffers') + 1) -> Nat]
          /\ rest[Len(buffers') + 1] = cut[Len(posted')]
          /\ \A j \in 1..(Len(buffers') + 1) : rest[j] <= cut[Len(posted')]
      BY <3>1, <3>2, <3>4, <3>5, <3>8
    <3> QED BY <3>6, <3>7, <3>9 DEF SenderInv
  <2> QED BY <1>15, <1>17, <2>2, <2>3 DEF WireInv
<1>19. CASE n # size
  <2> DEFINE rest == [off EXCEPT ![1] = @ + n]
  <2>1. buffers' = <<b>> \o Tail(buffers)
    BY <1>12, <1>19
  <2>2. /\ buffers' \in Seq(Seq(Bytes)) /\ Len(buffers') = count /\ buffers'[1] = b
        /\ \A j \in 2..count : buffers'[j] = buffers[j]
    <3>1. <<b>> \in Seq(Seq(Bytes)) /\ Len(<<b>>) = 1
      BY <1>10
    <3>2. buffers' \in Seq(Seq(Bytes)) /\ Len(buffers') = count /\ buffers'[1] = b
      BY <1>3, <2>1, <3>1
    <3>3. ASSUME NEW j \in 2..count PROVE buffers'[j] = buffers[j]
      <4>1. j - 1 \in 1..(count - 1) /\ j > 1
        BY <1>3
      <4>2. buffers'[j] = Tail(buffers)[j - 1]
        BY <1>3, <2>1, <3>1, <4>1
      <4>3. Tail(buffers)[j - 1] = buffers[j - 1 + 1]
        BY <1>3, <4>1
      <4>4. j - 1 + 1 = j
        OBVIOUS
      <4> QED BY <4>2, <4>3, <4>4
    <3> QED BY <3>2, <3>3
  <2>3. WireTypes'
    BY <1>t, <1>2, <1>11, <1>12, <2>2 DEF WireTypes
  <2>4. SenderInv(tape, cut, rest)'
    <3>1. /\ rest \in [1..(count + 1) -> Nat] /\ rest[1] = off[1] + n
          /\ \A j \in 2..(count + 1) : rest[j] = off[j]
      BY <1>3, <1>7, <1>8
    <3> HIDE DEF rest
    <3>2. ASSUME NEW j \in 1..count
          PROVE  rest[j + 1] = rest[j] + Len(buffers'[j]) /\ Laid(buffers'[j], rest[j], tape)
      <4>0. rest[j + 1] = off[j + 1]
        BY <1>3, <3>1
      <4>1. CASE j = 1
        <5>1. rest[2] = off[2] /\ buffers'[1] = b
          BY <1>3, <2>2, <3>1
        <5>2. off[1] + size = off[1] + n + (size - n)
          BY <1>3, <1>n, <1>8
        <5> QED BY <1>8, <1>10, <3>1, <4>1, <5>1, <5>2
      <4>2. CASE j # 1
        <5>1. j \in 2..count /\ j \in 2..(count + 1)
          BY <1>3, <4>2
        <5> QED BY <1>7, <2>2, <3>1, <4>0, <5>1
      <4> QED BY <4>1, <4>2
    <3>3. rest[count + 1] = cut[Len(posted)]
      BY <1>3, <1>7, <3>1
    <3>4. \A j \in 1..(count + 1) : rest[j] <= cut[Len(posted)]
      <4> SUFFICES ASSUME NEW j \in 1..(count + 1) PROVE rest[j] <= cut[Len(posted)]
        OBVIOUS
      <4>1. CASE j = 1
        BY <1>14, <3>1, <4>1
      <4>2. CASE j # 1
        <5>1. j \in 2..(count + 1)
          BY <1>3, <4>2
        <5> QED BY <1>7, <3>1, <5>1
      <4> QED BY <4>1, <4>2
    <3>5. rest[1] = At(cut)' + Len(cbuff') + Len(stream')
      BY <1>2, <1>13, <1>16, <3>1 DEF o
    <3> QED BY <1>2, <2>2, <3>1, <3>2, <3>3, <3>4, <3>5 DEF SenderInv
  <2> QED BY <1>15, <1>17, <2>3, <2>4 DEF WireInv
<1> QED BY <1>18, <1>19

\* Bytes up to e stay where they are when the tape is continued after e.
LEMMA LaidStays ==
  ASSUME NEW b, Len(b) \in Nat, NEW o \in Nat, NEW e \in Nat, NEW tape, NEW longer,
         \A p \in 1..e : longer[p] = tape[p], Laid(b, o, tape), o + Len(b) <= e
  PROVE  Laid(b, o, longer)
<1> SUFFICES ASSUME NEW s \in 1..Len(b) PROVE b[s] = longer[o + s]
  BY DEF Laid
<1>1. o + s \in 1..e
  OBVIOUS
<1> QED BY <1>1 DEF Laid

\* A message that is sent puts its frame at the end of the tape.
LEMMA SendKeeps == WireInv /\ (\E m \in Mail : SendMessage(m)) => WireInv'
<1> SUFFICES ASSUME WireInv, NEW m \in Mail, SendMessage(m) PROVE WireInv'
  OBVIOUS
<1>1. PICK tape, cut, off : TapeInv(tape, cut) /\ ReaderInv(tape, cut) /\ SenderInv(tape, cut, off)
  BY DEF WireInv
<1>t. WireTypes
  BY DEF WireInv
<1>2. /\ buffers = <<>> /\ posted' = Append(posted, m)
      /\ buffers' = << <<JSON_ID>>, SizeBytes(TextSize(m)), Text(m) >>
      /\ UNCHANGED <<connected, stream, want, nsize, str, cbuff, delivered>>
  BY DEF SendMessage, TextSize, Text
<1>3. PICK K \in Nat : K = Len(posted)
  BY <1>t DEF WireTypes
<1>4. PICK fs \in Nat : fs = FrameSize(m)
  BY Pieces
<1>5. PICK e \in Nat : e = cut[K]
  BY <1>1, <1>3 DEF TapeInv
<1>6. /\ Len(posted') = K + 1 /\ posted'[K + 1] = m /\ posted' \in Seq(Mail)
      /\ \A k \in 1..K : posted'[k] = posted[k]
  BY <1>t, <1>2, <1>3 DEF WireTypes
<1>7. PICK cut2 : cut2 = [k \in 0..(K + 1) |-> IF k = K + 1 THEN e + fs ELSE cut[k]]
  OBVIOUS
<1>8. PICK tape2 : tape2 = [p \in 1..(e + fs) |-> IF p <= e THEN tape[p] ELSE FrameByte(m, p - e)]
  OBVIOUS
<1>9. /\ \A p \in 1..e : tape2[p] = tape[p]
      /\ \A i \in 1..fs : tape2[e + i] = FrameByte(m, i)
  <2>1. ASSUME NEW i \in 1..fs PROVE tape2[e + i] = FrameByte(m, i)
    <3>1. e + i \in 1..(e + fs) /\ ~ (e + i <= e) /\ e + i - e = i
      OBVIOUS
    <3> QED BY <1>8, <3>1
  <2>2. ASSUME NEW p \in 1..e PROVE tape2[p] = tape[p]
    <3>1. p \in 1..(e + fs) /\ p <= e
      OBVIOUS
    <3> QED BY <1>8, <3>1
  <2> QED BY <2>1, <2>2
<1>10. /\ cut2 \in [0..(K + 1) -> Nat] /\ cut2[K + 1] = e + fs
       /\ \A k \in 0..K : cut2[k] = cut[k] /\ cut[k] <= e /\ cut[k] \in Nat
  <2>1. \A k \in 0..K : cut[k] <= e /\ cut[k] \in Nat
    BY <1>1, <1>3, <1>5 DEF TapeInv
  <2>2. K + 1 \in 0..(K + 1) /\ e + fs \in Nat /\ \A k \in 0..K : k \in 0..(K + 1) /\ k # K + 1
    OBVIOUS
  <2>3. \A k \in 0..(K + 1) : k # K + 1 => k \in 0..K
    OBVIOUS
  <2> QED BY <1>7, <2>1, <2>2, <2>3
<1>b. \A k \in 0..(K + 1) : cut2[k] <= k * MaxFrame
  <2>1. MaxFrame \in Nat /\ fs <= MaxFrame
    BY <1>4, Pieces, PlacesGrow DEF FrameSize, MaxFrame
  <2>2. \A k \in 0..K : cut[k] <= k * MaxFrame
    BY <1>1, <1>3 DEF TapeInv
  <2>3. (K + 1) * MaxFrame = K * MaxFrame + MaxFrame /\ K * MaxFrame \in Nat
    BY <2>1
  <2>4. K \in 0..K /\ e <= K * MaxFrame
    BY <1>5, <2>2
  <2>5. e + fs <= (K + 1) * MaxFrame
    BY <2>1, <2>3, <2>4
  <2> SUFFICES ASSUME NEW k \in 0..(K + 1) PROVE cut2[k] <= k * MaxFrame
    OBVIOUS
  <2>6. CASE k = K + 1
    BY <1>10, <2>5, <2>6
  <2>7. CASE k # K + 1
    <3>1. k \in 0..K
      BY <2>7
    <3> QED BY <1>10, <2>2, <3>1
  <2> QED BY <2>6, <2>7
<1>11. TapeInv(tape2, cut2)'
  <2>1. ASSUME NEW k \in 1..(K + 1)
        PROVE  /\ cut2[k] = cut2[k - 1] + FrameSize(posted'[k])
               /\ \A i \in 1..FrameSize(posted'[k]) : tape2[cut2[k - 1] + i] = FrameByte(posted'[k], i)
    <3>1. CASE k = K + 1
      <4>1. k - 1 = K /\ K \in 0..K /\ cut2[K] = e
        BY <1>5, <1>10, <3>1
      <4> QED BY <1>4, <1>6, <1>9, <1>10, <3>1, <4>1
    <3>2. CASE k # K + 1
      <4>1. k \in 1..K /\ k - 1 \in 0..K /\ k \in 0..K
        BY <3>2
      <4>2. /\ cut[k] = cut[k - 1] + FrameSize(posted[k])
            /\ \A i \in 1..FrameSize(posted[k]) : tape[cut[k - 1] + i] = FrameByte(posted[k], i)
        BY <1>1, <1>3, <4>1 DEF TapeInv
      <4>3. FrameSize(posted[k]) \in Nat
        <5>1. posted[k] \in Mail
          BY <1>t, <1>3, <4>1 DEF WireTypes
        <5> QED BY <5>1, Pieces
      <4>4. ASSUME NEW i \in 1..FrameSize(posted[k]) PROVE tape2[cut2[k - 1] + i] = FrameByte(posted[k], i)
        <5>1. cut[k - 1] + i \in 1..e
          BY <1>10, <4>1, <4>2, <4>3
        <5> QED BY <1>9, <1>10, <4>1, <4>2, <5>1
      <4> QED BY <1>6, <1>10, <4>1, <4>2, <4>4
    <3> QED BY <3>1, <3>2
  <2>2. ASSUME NEW k \in 0..(K + 1) PROVE cut2[k] <= e + fs
    BY <1>10
  <2> QED BY <1>6, <1>10, <1>b, <2>1, <2>2 DEF TapeInv
<1>12. /\ At(cut) \in Nat /\ Before \in Nat /\ cut[Len(delivered)] \in Nat /\ Digits \in Nat
       /\ Len(cbuff) \in Nat /\ Len(stream) \in Nat /\ Len(str) \in Nat /\ Len(delivered) \in 0..K
  BY <1>1, <1>3, <1>t, AtIsPlace DEF WireTypes
<1>13. At(cut2)' = At(cut) /\ cut2[Len(delivered')] = cut[Len(delivered)]
  <2>1. Before' = Before
    BY <1>2 DEF Before
  <2> QED BY <1>2, <1>10, <1>12, <2>1 DEF At
<1>14. ReaderInv(tape2, cut2)'
  <2> SUFFICES ASSUME want # "end"
               PROVE  /\ Laid(cbuff, At(cut), tape2) /\ Laid(stream, At(cut) + Len(cbuff), tape2)
                      /\ At(cut) + Len(cbuff) + Len(stream) <= e + fs
                      /\ want \in {"size", "text"} => Len(delivered) < K + 1
                      /\ want = "text" =>
                           /\ nsize = ReadSize(posted'[Len(delivered) + 1]) /\ Len(str) < nsize
                           /\ Laid(str, cut[Len(delivered)] + 1 + Digits, tape2)
    BY <1>2, <1>6, <1>10, <1>13 DEF ReaderInv
  <2>1. /\ Laid(cbuff, At(cut), tape) /\ Laid(stream, At(cut) + Len(cbuff), tape)
        /\ At(cut) + Len(cbuff) + Len(stream) <= e
        /\ want \in {"size", "text"} => Len(delivered) < K
        /\ want = "text" =>
             /\ nsize = ReadSize(posted[Len(delivered) + 1]) /\ Len(str) < nsize
             /\ Laid(str, cut[Len(delivered)] + 1 + Digits, tape)
    BY <1>1, <1>3, <1>5 DEF ReaderInv
  <2>2. Laid(cbuff, At(cut), tape2)
    <3>1. At(cut) + Len(cbuff) <= e
      BY <1>12, <2>1
    <3> QED BY <1>9, <1>12, <2>1, <3>1, LaidStays
  <2>3. Laid(stream, At(cut) + Len(cbuff), tape2)
    <3>1. At(cut) + Len(cbuff) \in Nat
      BY <1>12
    <3> QED BY <1>9, <1>12, <2>1, <3>1, LaidStays
  <2>4. want = "text" =>
           /\ nsize = ReadSize(posted'[Len(delivered) + 1])
           /\ Laid(str, cut[Len(delivered)] + 1 + Digits, tape2)
    <3> SUFFICES ASSUME want = "text"
                 PROVE  /\ nsize = ReadSize(posted'[Len(delivered) + 1])
                        /\ Laid(str, cut[Len(delivered)] + 1 + Digits, tape2)
      OBVIOUS
    <3>1. Len(delivered) + 1 \in 1..K
      BY <1>12, <2>1
    <3>2. At(cut) = cut[Len(delivered)] + 1 + Digits + Len(str)
      BY <1>12 DEF At, Before
    <3>3. cut[Len(delivered)] + 1 + Digits \in Nat /\ cut[Len(delivered)] + 1 + Digits + Len(str) <= e
      BY <1>12, <2>1, <3>2
    <3>4. Laid(str, cut[Len(delivered)] + 1 + Digits, tape2)
      BY <1>9, <1>12, <2>1, <3>3, LaidStays
    <3> QED BY <1>6, <2>1, <3>1, <3>4
  <2>5. /\ At(cut) + Len(cbuff) + Len(stream) <= e + fs
        /\ want \in {"size", "text"} => Len(delivered) < K + 1
    BY <1>12, <2>1
  <2> QED BY <2>1, <2>2, <2>3, <2>4, <2>5
<1>15. /\ <<JSON_ID>> \in Seq(Bytes) /\ Len(<<JSON_ID>>) = 1
       /\ SizeBytes(TextSize(m)) \in Seq(Bytes) /\ Len(SizeBytes(TextSize(m))) = Digits
       /\ Text(m) \in Seq(Bytes) /\ Len(Text(m)) = TextSize(m) /\ TextSize(m) \in Nat
       /\ fs = 1 + Digits + TextSize(m)
  BY <1>4, Pieces DEF FrameSize
<1>16. WireTypes'
  <2>1. buffers' \in Seq(Seq(Bytes))
    BY <1>2, <1>15
  <2>2. Len(posted') <= MaxSent
    <3>1. Len(posted) < MaxSent /\ MaxSent \in Nat
      BY WireAssumption DEF SendMessage
    <3> QED BY <1>3, <1>6, <3>1
  <2> QED BY <1>t, <1>2, <1>3, <1>6, <2>1, <2>2 DEF WireTypes
<1>17. \E off2 : SenderInv(tape2, cut2, off2)'
  <2>1. PICK a \in Nat : a = e + 1
    OBVIOUS
  <2>2. PICK b \in Nat : b = e + 1 + Digits
    BY <1>12
  <2>3. PICK c \in Nat : c = e + fs
    OBVIOUS
  <2>4. PICK off2 : off2 = <<e, a, b, c>>
    OBVIOUS
  <2>5. off2 \in [1..4 -> Nat] /\ off2[1] = e /\ off2[2] = a /\ off2[3] = b /\ off2[4] = c
    BY <2>4
  <2>6. Laid(<<JSON_ID>>, e, tape2)
    <3>1. 1 \in 1..fs
      BY <1>12, <1>15
    <3>2. tape2[e + 1] = JSON_ID
      BY <1>9, <3>1 DEF FrameByte
    <3> QED BY <3>2 DEF Laid
  <2>7. Laid(SizeBytes(TextSize(m)), a, tape2)
    <3> SUFFICES ASSUME NEW s \in 1..Digits PROVE SizeBytes(TextSize(m))[s] = tape2[a + s]
      BY <1>15 DEF Laid
    <3>1. 1 + s \in 1..fs /\ 1 + s # 1 /\ 1 + s <= 1 + Digits /\ 1 + s - 1 = s
      BY <1>12, <1>15
    <3>2. a + s = e + (1 + s)
      BY <2>1
    <3>3. FrameByte(m, 1 + s) = SizeBytes(TextSize(m))[s]
      BY <3>1 DEF FrameByte
    <3> QED BY <1>9, <3>1, <3>2, <3>3
  <2>8. Laid(Text(m), b, tape2)
    <3> SUFFICES ASSUME NEW s \in 1..TextSize(m) PROVE Text(m)[s] = tape2[b + s]
      BY <1>15 DEF Laid
    <3>1. PICK i \in 1..fs : i = 1 + Digits + s
      BY <1>12, <1>15
    <3>2. i # 1 /\ ~ (i <= 1 + Digits) /\ i - 1 - Digits = s /\ b + s = e + i
      BY <1>12, <2>2, <3>1
    <3>3. FrameByte(m, i) = Text(m)[s]
      BY <3>2, Zenon DEF FrameByte
    <3> QED BY <1>9, <3>2, <3>3
  <2>9. ASSUME connected PROVE off2[1] = At(cut) + Len(cbuff) + Len(stream)
    <3>1. Len(buffers) = 0
      BY <1>2
    <3>2. off[0 + 1] = cut[Len(posted)] /\ off[1] = At(cut) + Len(cbuff) + Len(stream)
      BY <1>1, <2>9, <3>1 DEF SenderInv
    <3> QED BY <1>3, <1>5, <2>5, <3>2
  <2>10. /\ Len(buffers') = 3 /\ buffers'[1] = <<JSON_ID>> /\ buffers'[2] = SizeBytes(TextSize(m))
         /\ buffers'[3] = Text(m)
    BY <1>2
  <2>11. ASSUME NEW j \in 1..3
         PROVE  off2[j + 1] = off2[j] + Len(buffers'[j]) /\ Laid(buffers'[j], off2[j], tape2)
    <3>1. CASE j = 1
      <4>1. off2[1 + 1] = off2[1] + Len(buffers'[1])
        BY <1>15, <2>1, <2>5, <2>10
      <4>2. Laid(buffers'[1], off2[1], tape2)
        BY <2>5, <2>6, <2>10, Zenon
      <4> QED BY <3>1, <4>1, <4>2, Zenon
    <3>2. CASE j = 2
      <4>1. b = a + Digits
        BY <1>12, <2>1, <2>2
      <4>2. off2[2 + 1] = off2[2] + Len(buffers'[2])
        BY <1>15, <2>5, <2>10, <4>1
      <4>3. Laid(buffers'[2], off2[2], tape2)
        BY <2>5, <2>7, <2>10, Zenon
      <4> QED BY <3>2, <4>2, <4>3, Zenon
    <3>3. CASE j = 3
      <4>1. c = b + TextSize(m)
        BY <1>12, <1>15, <2>2, <2>3
      <4>2. off2[3 + 1] = off2[3] + Len(buffers'[3])
        BY <1>15, <2>5, <2>10, <4>1
      <4>3. Laid(buffers'[3], off2[3], tape2)
        BY <2>5, <2>8, <2>10, Zenon
      <4> QED BY <3>3, <4>2, <4>3, Zenon
    <3> QED BY <3>1, <3>2, <3>3
  <2>12. \A j \in 1..4 : off2[j] <= c
    <3>1. a <= c /\ b <= c /\ e <= c
      BY <1>12, <1>15, <2>1, <2>2, <2>3
    <3>2. \A j \in 1..4 : j = 1 \/ j = 2 \/ j = 3 \/ j = 4
      OBVIOUS
    <3> QED BY <2>3, <2>5, <3>1, <3>2
  <2>13. cut2[Len(posted')] = c
    BY <1>6, <1>10, <2>3
  <2>14. ASSUME connected' PROVE off2[1] = At(cut2)' + Len(cbuff') + Len(stream')
    BY <1>2, <1>13, <2>9, <2>14
  <2>15. /\ off2 \in [1..(Len(buffers') + 1) -> Nat]
         /\ off2[Len(buffers') + 1] = cut2[Len(posted')]
         /\ \A j \in 1..(Len(buffers') + 1) : off2[j] <= cut2[Len(posted')]
         /\ \A j \in 1..Len(buffers') : /\ off2[j + 1] = off2[j] + Len(buffers'[j])
                                        /\ Laid(buffers'[j], off2[j], tape2)
    <3>1. Len(buffers') + 1 = 4
      BY <2>10
    <3> QED BY <2>5, <2>10, <2>11, <2>12, <2>13, <3>1
  <2>16. SenderInv(tape2, cut2, off2)'
    BY <2>14, <2>15 DEF SenderInv
  <2> QED BY <2>16
<1> QED BY <1>11, <1>14, <1>16, <1>17 DEF WireInv

\* A receiver that has read something is in the frame of a message that is sent.
LEMMA InFrame ==
  ASSUME WireTypes, NEW tape, NEW cut, TapeInv(tape, cut), ReaderInv(tape, cut),
         want # "end", want = "id" => Len(cbuff) > 0
  PROVE  LET k == Len(delivered)
             m == posted[k + 1]
         IN  /\ k \in Nat /\ k + 1 \in 1..Len(posted) /\ k < Len(posted) /\ m \in Mail
             /\ cut[k] \in Nat /\ cut[k + 1] = cut[k] + FrameSize(m) /\ cut[k + 1] \in Nat
             /\ cut[k + 1] <= cut[Len(posted)]
             /\ \A i \in 1..FrameSize(m) : tape[cut[k] + i] = FrameByte(m, i)
<1> DEFINE k == Len(delivered)
<1>1. /\ Len(posted) \in Nat /\ k \in 0..Len(posted) /\ Len(cbuff) \in Nat /\ Len(stream) \in Nat
      /\ cut[k] \in Nat /\ cut[Len(posted)] \in Nat
  BY AtIsPlace DEF WireTypes
<1>2. k < Len(posted)
  <2>1. CASE want = "id"
    <3>1. At(cut) = cut[k]
      BY <1>1, <2>1 DEF At, Before
    <3>2. cut[k] + Len(cbuff) + Len(stream) <= cut[Len(posted)]
      BY <3>1 DEF ReaderInv
    <3>3. cut[k] # cut[Len(posted)]
      BY <1>1, <2>1, <3>2
    <3> QED BY <1>1, <3>3
  <2>2. CASE want # "id"
    BY <2>2 DEF ReaderInv, WireTypes
  <2> QED BY <2>1, <2>2
<1> HIDE DEF k
<1>3. k + 1 \in 1..Len(posted) /\ k + 1 \in 0..Len(posted) /\ k + 1 - 1 = k /\ k \in Nat
  BY <1>1, <1>2
<1>4. posted[k + 1] \in Mail
  BY <1>3 DEF WireTypes
<1>5. /\ cut[k + 1] = cut[k] + FrameSize(posted[k + 1])
      /\ \A i \in 1..FrameSize(posted[k + 1]) : tape[cut[k] + i] = FrameByte(posted[k + 1], i)
      /\ cut[k + 1] <= cut[Len(posted)] /\ cut[k + 1] \in Nat
  BY <1>3 DEF TapeInv
<1> QED BY <1>1, <1>2, <1>3, <1>4, <1>5 DEF k

\* What read_all has read is taken, and the receiver is at the byte after it.
LEMMA TakenKeeps ==
  ASSUME WireTypes, NEW tape, NEW cut, NEW off,
         TapeInv(tape, cut), ReaderInv(tape, cut), SenderInv(tape, cut, off),
         want # "end", cbuff' = <<>>, UNCHANGED <<posted, buffers, connected, stream>>,
         At(cut)' = At(cut) + Len(cbuff)
  PROVE  /\ TapeInv(tape, cut)' /\ SenderInv(tape, cut, off)'
         /\ Laid(cbuff, At(cut), tape)' /\ Laid(stream, At(cut) + Len(cbuff), tape)'
         /\ (At(cut) + Len(cbuff) + Len(stream) <= cut[Len(posted)])'
<1>1. /\ At(cut) \in Nat /\ Len(cbuff) \in Nat /\ Len(stream) \in Nat /\ cut[Len(posted)] \in Nat
  BY AtIsPlace DEF WireTypes
<1>2. At(cut)' + Len(cbuff') = At(cut) + Len(cbuff) /\ Len(cbuff') = 0
  BY <1>1
<1>3. TapeInv(tape, cut)'
  BY DEF TapeInv
<1>4. SenderInv(tape, cut, off)'
  BY <1>2 DEF SenderInv
<1>5. /\ Laid(stream, At(cut) + Len(cbuff), tape)
      /\ At(cut) + Len(cbuff) + Len(stream) <= cut[Len(posted)]
  BY DEF ReaderInv
<1>6. Laid(cbuff, At(cut), tape)'
  BY <1>2 DEF Laid
<1>7. Laid(stream, At(cut) + Len(cbuff), tape)'
  BY <1>2, <1>5, Zenon DEF Laid
<1>8. (At(cut) + Len(cbuff) + Len(stream) <= cut[Len(posted)])'
  BY <1>2, <1>5
<1> QED BY <1>3, <1>4, <1>6, <1>7, <1>8

\* The first byte of a frame says that it is a JSON.
LEMMA IdIsJson ==
  ASSUME WireInv, GetId
  PROVE  want' = "size"
<1>1. PICK tape, cut : TapeInv(tape, cut) /\ ReaderInv(tape, cut)
  BY DEF WireInv
<1>2. want = "id" /\ Len(cbuff) = 1 /\ cbuff \in Seq(Bytes) /\ WireTypes
  BY DEF GetId, ReadAll, Requested, WireInv, WireTypes
<1> DEFINE k == Len(delivered)
           m == posted[k + 1]
<1>3. /\ m \in Mail /\ \A i \in 1..FrameSize(m) : tape[cut[k] + i] = FrameByte(m, i)
      /\ cut[k] \in Nat
  BY <1>1, <1>2, InFrame
<1>4. Laid(cbuff, cut[k], tape)
  <2>1. At(cut) = cut[k]
    BY <1>2, <1>3 DEF At, Before
  <2> QED BY <1>1, <1>2, <2>1 DEF ReaderInv
<1> HIDE DEF k, m
<1>5. 1 \in 1..FrameSize(m)
  BY <1>3, Pieces DEF FrameSize
<1>6. cbuff[1] = JSON_ID
  <2>1. cbuff[1] = tape[cut[k] + 1]
    BY <1>2, <1>4 DEF Laid
  <2>2. FrameByte(m, 1) = JSON_ID
    BY DEF FrameByte
  <2> QED BY <1>3, <1>5, <2>1, <2>2
<1>7. cbuff = <<JSON_ID>>
  BY <1>2, <1>6
<1> QED BY <1>7 DEF GetId

LEMMA GetIdKeeps == WireInv /\ GetId => WireInv'
<1> SUFFICES ASSUME WireInv, GetId PROVE WireInv'
  OBVIOUS
<1>1. PICK tape, cut, off : TapeInv(tape, cut) /\ ReaderInv(tape, cut) /\ SenderInv(tape, cut, off)
  BY DEF WireInv
<1>2. /\ WireTypes /\ want = "id" /\ Len(cbuff) = 1 /\ want' = "size" /\ cbuff' = <<>>
      /\ UNCHANGED <<posted, buffers, connected, stream, nsize, str, delivered>>
  BY IdIsJson DEF GetId, ReadAll, Requested, WireInv
<1>3. Len(delivered) < Len(posted) /\ cut[Len(delivered)] \in Nat
  BY <1>1, <1>2, InFrame
<1>4. At(cut)' = At(cut) + Len(cbuff)
  BY <1>2, <1>3 DEF At, Before
<1>5. /\ TapeInv(tape, cut)' /\ SenderInv(tape, cut, off)'
      /\ Laid(cbuff, At(cut), tape)' /\ Laid(stream, At(cut) + Len(cbuff), tape)'
      /\ (At(cut) + Len(cbuff) + Len(stream) <= cut[Len(posted)])'
  BY <1>1, <1>2, <1>4, TakenKeeps
<1>6. WireTypes'
  BY <1>2 DEF WireTypes
<1>7. ReaderInv(tape, cut)'
  BY <1>2, <1>3, <1>5 DEF ReaderInv
<1> QED BY <1>5, <1>6, <1>7 DEF WireInv

\* What the receiver reads as the size of a message.
LEMMA ReadSizes ==
  ASSUME NEW m \in Mail
  PROVE  /\ ReadSize(m) \in Nat /\ ReadSize(m) >= 2
         /\ ReadSize(m) = TextSize(m) \/ ReadSize(m) > MaxSent * MaxFrame
<1>1. TextSize(m) \in Nat /\ TextSize(m) >= 2 /\ TextSize(m) < Place[Digits]
  BY Pieces
<1> QED BY <1>1, SizeRead DEF ReadSize

\* All that is ever sent.
LEMMA TapeEnds ==
  ASSUME WireTypes, NEW tape, NEW cut, TapeInv(tape, cut)
  PROVE  MaxSent * MaxFrame \in Nat /\ cut[Len(posted)] <= MaxSent * MaxFrame
<1>1. MaxSent \in Nat /\ MaxFrame \in Nat
  BY WireAssumption, PlacesGrow DEF MaxFrame
<1>2. PICK n \in Nat : n = Len(posted) /\ n <= MaxSent
  BY DEF WireTypes
<1>3. cut[n] \in Nat /\ cut[n] <= n * MaxFrame
  BY <1>2 DEF TapeInv
<1>4. n * MaxFrame + (MaxSent - n) * MaxFrame = MaxSent * MaxFrame
  BY <1>1, <1>2
<1>5. (MaxSent - n) * MaxFrame \in Nat /\ n * MaxFrame \in Nat /\ MaxSent * MaxFrame \in Nat
  BY <1>1, <1>2
<1> QED BY <1>2, <1>3, <1>4, <1>5

LEMMA GetSizeKeeps == WireInv /\ GetSize => WireInv'
<1> SUFFICES ASSUME WireInv, GetSize PROVE WireInv'
  OBVIOUS
<1>1. PICK tape, cut, off : TapeInv(tape, cut) /\ ReaderInv(tape, cut) /\ SenderInv(tape, cut, off)
  BY DEF WireInv
<1>2. /\ WireTypes /\ want = "size" /\ Len(cbuff) = Digits /\ cbuff' = <<>>
      /\ nsize' = SizeOf(cbuff) /\ str' = <<>> /\ want' = "text"
      /\ UNCHANGED <<posted, buffers, connected, stream, delivered>>
  BY DEF GetSize, ReadAll, Requested, WireInv
<1>3. PICK k : k = Len(delivered)
  OBVIOUS
<1>4. PICK m \in Mail : m = posted[k + 1] /\ (\A i \in 1..FrameSize(m) : tape[cut[k] + i] = FrameByte(m, i))
  BY <1>1, <1>2, <1>3, InFrame
<1>5. /\ k < Len(posted) /\ cut[k] \in Nat /\ k' = k /\ posted'[k + 1] = m
      /\ Digits \in Nat /\ TextSize(m) \in Nat /\ TextSize(m) >= 2 /\ TextSize(m) < Place[Digits]
      /\ Len(SizeBytes(TextSize(m))) = Digits /\ SizeBytes(TextSize(m)) \in Seq(Bytes)
      /\ cbuff \in Seq(Bytes)
  BY <1>1, <1>2, <1>3, <1>4, InFrame, Pieces DEF WireTypes
<1>6. nsize' = ReadSize(m) /\ nsize' \in Nat /\ nsize' >= 2
  <2>1. Laid(cbuff, cut[k] + 1, tape)
    <3>1. At(cut) = cut[k] + 1
      BY <1>2, <1>3 DEF At, Before
    <3> QED BY <1>1, <1>2, <3>1 DEF ReaderInv
  <2>2. ASSUME NEW s \in 1..Digits PROVE cbuff[s] = SizeBytes(TextSize(m))[s]
    <3>1. PICK i \in 1..FrameSize(m) : i = 1 + s
      BY <1>5 DEF FrameSize
    <3>2. i # 1 /\ i <= 1 + Digits /\ i - 1 = s
      BY <1>5, <3>1
    <3>5. cut[k] + 1 + s = cut[k] + i
      BY <1>5, <3>1
    <3>3. FrameByte(m, i) = SizeBytes(TextSize(m))[s]
      BY <3>2, Zenon DEF FrameByte
    <3>4. cbuff[s] = tape[cut[k] + 1 + s]
      BY <1>2, <2>1 DEF Laid
    <3> QED BY <1>4, <3>3, <3>4, <3>5
  <2>3. cbuff = SizeBytes(TextSize(m))
    BY <1>2, <1>5, <2>2
  <2>4. nsize' = ReadSize(m)
    BY <1>2, <2>3 DEF ReadSize
  <2> QED BY <2>4, ReadSizes
<1>7. At(cut)' = At(cut) + Len(cbuff)
  <2>1. At(cut) = cut[k] + 1
    BY <1>2, <1>3 DEF At, Before
  <2>2. At(cut)' = cut[k] + (1 + Digits + Len(str'))
    BY <1>2, <1>3 DEF At, Before
  <2>3. Len(str') = 0
    BY <1>2
  <2> QED BY <1>2, <1>5, <2>1, <2>2, <2>3
<1>8. /\ TapeInv(tape, cut)' /\ SenderInv(tape, cut, off)'
      /\ Laid(cbuff, At(cut), tape)' /\ Laid(stream, At(cut) + Len(cbuff), tape)'
      /\ (At(cut) + Len(cbuff) + Len(stream) <= cut[Len(posted)])'
  BY <1>1, <1>2, <1>7, TakenKeeps
<1>9. WireTypes'
  BY <1>2, <1>5, <1>6 DEF WireTypes
<1>10. /\ nsize' = ReadSize(posted'[Len(delivered') + 1]) /\ Len(str') < nsize'
       /\ Laid(str', cut[Len(delivered')] + 1 + Digits, tape)
  BY <1>2, <1>3, <1>5, <1>6 DEF Laid
<1>11. ReaderInv(tape, cut)'
  BY <1>2, <1>3, <1>5, <1>8, <1>10 DEF ReaderInv
<1> QED BY <1>8, <1>9, <1>11 DEF WireInv

\* What the receiver has of a text when it has read a block: not all of it, or
\* all of it, which parses to the message.
LEMMA BlockRead ==
  ASSUME WireInv, GetBlock, NEW tape, NEW cut, TapeInv(tape, cut), ReaderInv(tape, cut)
  PROVE  LET k == Len(delivered)
             m == posted[k + 1]
         IN  /\ Laid(str', cut[k] + 1 + Digits, tape)
             /\ str' \in Seq(Bytes) /\ Len(str') = Len(str) + Len(cbuff)
             /\ \/ Len(str') < nsize /\ want' = want /\ delivered' = delivered
                \/ /\ Len(str') = TextSize(m) /\ want' = "id"
                   /\ delivered' = Append(delivered, ImageOf(m))
<1>1. /\ WireTypes /\ want = "text" /\ Len(cbuff) = Requested /\ str' = str \o cbuff
      /\ str \in Seq(Bytes) /\ cbuff \in Seq(Bytes)
  BY DEF GetBlock, ReadAll, WireInv, WireTypes
<1>2. PICK k : k = Len(delivered)
  OBVIOUS
<1>3. PICK m \in Mail : m = posted[k + 1] /\ (\A i \in 1..FrameSize(m) : tape[cut[k] + i] = FrameByte(m, i))
  BY <1>1, <1>2, InFrame
<1>4. /\ cut[k] \in Nat /\ Digits \in Nat /\ TextSize(m) \in Nat /\ nsize = ReadSize(m)
      /\ Len(str) \in Nat /\ Len(cbuff) \in Nat /\ Laid(str, cut[k] + 1 + Digits, tape)
  BY <1>1, <1>2, <1>3, InFrame, Pieces DEF ReaderInv
<1>5. str' \in Seq(Bytes) /\ Len(str') = Len(str) + Len(cbuff)
  <2>1. str \o cbuff \in Seq(Bytes) /\ Len(str \o cbuff) = Len(str) + Len(cbuff)
    BY <1>1, Joined, Zenon
  <2> QED BY <1>1, <2>1, Zenon
<1>6. Laid(str', cut[k] + 1 + Digits, tape)
  <2>1. PICK o \in Nat : o = cut[k] + 1 + Digits
    BY <1>4
  <2>2. Laid(cbuff, o + Len(str), tape)
    <3>1. At(cut) = o + Len(str)
      BY <1>1, <1>2, <1>4, <2>1 DEF At, Before
    <3> QED BY <1>1, <3>1 DEF ReaderInv
  <2>3. Laid(str \o cbuff, o, tape)
    BY <1>1, <1>4, <2>1, <2>2, LaidBoth, Zenon
  <2> QED BY <1>1, <2>1, <2>3
<1>7. Len(str') <= nsize
  <2>1. nsize \in Nat
    BY <1>3, <1>4, ReadSizes
  <2> QED BY <1>1, <1>4, <1>5, <2>1, RequestedSize
<1>8. CASE Len(str') < nsize
  BY <1>2, <1>5, <1>6, <1>8 DEF GetBlock
\* So much is not sent that the text would be as long as too big a size.
<1>9. CASE ~ (Len(str') < nsize)
  <2>1. Len(str') = TextSize(m)
    <3>1. At(cut) = cut[k] + (1 + Digits + Len(str))
      BY <1>1, <1>2 DEF At, Before
    <3>2. At(cut) + Len(cbuff) + Len(stream) <= cut[Len(posted)]
      BY <1>1 DEF ReaderInv
    <3>3. Len(stream) \in Nat /\ cut[Len(posted)] \in Nat
      BY <1>1, AtIsPlace DEF WireTypes
    <3>4. Len(str') <= cut[Len(posted)]
      BY <1>4, <1>5, <3>1, <3>2, <3>3
    <3>5. PICK all \in Nat : all = MaxSent * MaxFrame /\ cut[Len(posted)] <= all
      BY <1>1, TapeEnds
    <3>6. nsize \in Nat /\ (nsize = TextSize(m) \/ nsize > all)
      BY <1>3, <1>4, <3>5, ReadSizes
    <3>7. Len(str') \in Nat
      BY <1>4, <1>5
    <3> QED BY <1>4, <1>7, <1>9, <3>3, <3>4, <3>5, <3>6, <3>7
  <2>2. ASSUME NEW s \in 1..TextSize(m) PROVE str'[s] = Text(m)[s]
    <3>1. PICK i \in 1..FrameSize(m) : i = 1 + Digits + s
      BY <1>4 DEF FrameSize
    <3>2. /\ i # 1 /\ ~ (i <= 1 + Digits) /\ i - 1 - Digits = s
          /\ cut[k] + 1 + Digits + s = cut[k] + i
      BY <1>4, <3>1
    <3>3. FrameByte(m, i) = Text(m)[s]
      BY <3>2, Zenon DEF FrameByte
    <3>4. str'[s] = tape[cut[k] + 1 + Digits + s]
      BY <1>6, <2>1 DEF Laid
    <3> QED BY <1>3, <3>2, <3>3, <3>4
  <2>3. Text(m) \in Seq(Bytes) /\ Len(Text(m)) = TextSize(m)
    BY Pieces
  <2>4. str' = Text(m)
    BY <1>5, <2>1, <2>2, <2>3
  <2>5. PICK d \in Mail : /\ Parses(str', ToJSON(d)) /\ want' = "id"
                          /\ delivered' = Append(delivered, ParseMessage(ToJSON(d)))
    BY <1>9 DEF GetBlock
  <2>6. ToJSON(d) = ToJSON(m)
    BY <2>4, <2>5, TextParses
  <2>7. ParseMessage(ToJSON(m)) = ImageOf(m)
    BY MailAssumption, MessageBack
  <2> QED BY <1>2, <1>3, <1>5, <1>6, <2>1, <2>5, <2>6, <2>7
<1> QED BY <1>8, <1>9

LEMMA GetBlockKeeps == WireInv /\ GetBlock => WireInv'
<1> SUFFICES ASSUME WireInv, GetBlock PROVE WireInv'
  OBVIOUS
<1>1. PICK tape, cut, off : TapeInv(tape, cut) /\ ReaderInv(tape, cut) /\ SenderInv(tape, cut, off)
  BY DEF WireInv
<1>2. /\ WireTypes /\ want = "text" /\ cbuff' = <<>> /\ cbuff \in Seq(Bytes) /\ Len(cbuff) \in Nat
      /\ Len(str) \in Nat
      /\ UNCHANGED <<posted, buffers, connected, stream, nsize>>
  BY DEF GetBlock, ReadAll, WireInv, WireTypes
<1>3. PICK k : k = Len(delivered)
  OBVIOUS
<1>4. PICK m \in Mail : m = posted[k + 1]
  BY <1>1, <1>2, <1>3, InFrame
<1>5. /\ k \in Nat /\ k < Len(posted) /\ cut[k] \in Nat /\ cut[k + 1] = cut[k] + FrameSize(m)
      /\ cut[k + 1] \in Nat /\ Digits \in Nat /\ TextSize(m) \in Nat /\ nsize = ReadSize(m)
      /\ Len(posted) \in Nat
  <2>1. /\ k \in Nat /\ k < Len(posted) /\ cut[k] \in Nat /\ cut[k + 1] = cut[k] + FrameSize(m)
        /\ cut[k + 1] \in Nat
    BY <1>1, <1>2, <1>3, <1>4, InFrame
  <2>2. Digits \in Nat /\ TextSize(m) \in Nat
    BY Pieces
  <2>3. nsize = ReadSize(m) /\ Len(posted) \in Nat
    BY <1>1, <1>2, <1>3, <1>4 DEF ReaderInv, WireTypes
  <2> QED BY <2>1, <2>2, <2>3
<1>6. /\ Laid(str', cut[k] + 1 + Digits, tape)
      /\ str' \in Seq(Bytes) /\ Len(str') = Len(str) + Len(cbuff)
      /\ \/ Len(str') < nsize /\ want' = want /\ delivered' = delivered
         \/ /\ Len(str') = TextSize(m) /\ want' = "id"
            /\ delivered' = Append(delivered, ImageOf(m))
  BY <1>1, <1>3, <1>4, BlockRead
<1>7. CASE Len(str') < nsize /\ want' = want /\ delivered' = delivered
  <2>1. At(cut)' = At(cut) + Len(cbuff)
    BY <1>2, <1>3, <1>5, <1>6, <1>7 DEF At, Before
  <2>2. /\ TapeInv(tape, cut)' /\ SenderInv(tape, cut, off)'
        /\ Laid(cbuff, At(cut), tape)' /\ Laid(stream, At(cut) + Len(cbuff), tape)'
        /\ (At(cut) + Len(cbuff) + Len(stream) <= cut[Len(posted)])'
    BY <1>1, <1>2, <2>1, TakenKeeps
  <2>3. WireTypes'
    BY <1>2, <1>6, <1>7 DEF WireTypes
  <2>4. ReaderInv(tape, cut)'
    <3>1. nsize' = ReadSize(posted'[Len(delivered') + 1]) /\ Laid(str', cut[Len(delivered')] + 1 + Digits, tape)
      BY <1>2, <1>3, <1>4, <1>5, <1>6, <1>7
    <3> QED BY <1>2, <1>3, <1>5, <1>7, <2>2, <3>1 DEF ReaderInv
  <2> QED BY <2>2, <2>3, <2>4 DEF WireInv
<1>8. CASE Len(str') = TextSize(m) /\ want' = "id" /\ delivered' = Append(delivered, ImageOf(m))
  <2>1. Len(delivered') = k + 1
    BY <1>2, <1>3, <1>8 DEF WireTypes
  <2>2. At(cut)' = At(cut) + Len(cbuff)
    <3>1. At(cut)' = cut[k + 1]
      BY <1>5, <1>8, <2>1 DEF At, Before
    <3>2. At(cut) = cut[k] + (1 + Digits + Len(str))
      BY <1>2, <1>3 DEF At, Before
    <3>3. cut[k + 1] = cut[k] + (1 + Digits + (Len(str) + Len(cbuff)))
      BY <1>5, <1>6, <1>8 DEF FrameSize
    <3> QED BY <1>2, <1>5, <3>1, <3>2, <3>3
  <2>3. /\ TapeInv(tape, cut)' /\ SenderInv(tape, cut, off)'
        /\ Laid(cbuff, At(cut), tape)' /\ Laid(stream, At(cut) + Len(cbuff), tape)'
        /\ (At(cut) + Len(cbuff) + Len(stream) <= cut[Len(posted)])'
    BY <1>1, <1>2, <2>2, TakenKeeps
  <2>4. WireTypes'
    <3>1. delivered' \in Seq({ImageOf(d) : d \in Mail})
      BY <1>2, <1>8 DEF WireTypes
    <3>2. Len(delivered') <= Len(posted')
      BY <1>2, <1>5, <2>1
    <3> QED BY <1>2, <1>6, <1>8, <3>1, <3>2 DEF WireTypes
  <2>5. ReaderInv(tape, cut)'
    BY <1>8, <2>3 DEF ReaderInv
  <2> QED BY <2>3, <2>4, <2>5 DEF WireInv
<1> QED BY <1>6, <1>7, <1>8

\* Steps that are none of the connection's.
LEMMA NothingKeeps == WireInv /\ UNCHANGED wireVars => WireInv'
<1> SUFFICES ASSUME WireInv, UNCHANGED wireVars PROVE WireInv'
  OBVIOUS
<1>1. PICK tape, cut, off : TapeInv(tape, cut) /\ ReaderInv(tape, cut) /\ SenderInv(tape, cut, off)
  BY DEF WireInv
<1>2. UNCHANGED <<posted, buffers, connected, stream, want, nsize, str, cbuff, delivered>>
  BY DEF wireVars
<1>3. At(cut)' = At(cut)
  BY <1>2 DEF At, Before
<1>4. WireTypes'
  BY <1>2 DEF WireInv, WireTypes
<1>5. TapeInv(tape, cut)'
  BY <1>1, <1>2 DEF TapeInv
<1>6. ReaderInv(tape, cut)' /\ SenderInv(tape, cut, off)'
  BY <1>1, <1>2, <1>3 DEF ReaderInv, SenderInv
<1> QED BY <1>4, <1>5, <1>6 DEF WireInv

LEMMA WireInvNext == WireInv /\ [WireNext]_wireVars => WireInv'
<1> SUFFICES ASSUME WireInv, [WireNext]_wireVars PROVE WireInv'
  OBVIOUS
<1>1. CASE \E m \in Mail : SendMessage(m)
  BY <1>1, SendKeeps
<1>2. CASE Break \/ WriteFails \/ ReadEnd
  BY <1>2, EndsKeep
<1>3. CASE Write
  BY <1>3, WriteKeeps
<1>4. CASE Read
  BY <1>4, ReadKeeps
<1>5. CASE GetId
  BY <1>5, GetIdKeeps
<1>6. CASE GetSize
  BY <1>6, GetSizeKeeps
<1>7. CASE GetBlock
  BY <1>7, GetBlockKeeps
<1>8. CASE UNCHANGED wireVars
  BY <1>8, NothingKeeps
<1> QED BY <1>1, <1>2, <1>3, <1>4, <1>5, <1>6, <1>7, <1>8 DEF WireNext, Sender, Receiver

\* Always, the receiver and what is on its way are at the places of the tape that
\* the sender has filled.
THEOREM WireInvariance == WireSpec => []WireInv
BY WireInvInit, WireInvNext, PTL DEF WireSpec

-------------------------------------------------------------------------------
\* What a step does to the messages sent, the messages received and the end: it
\* is one of the steps a connection promises, or is not seen.
LEMMA LinkStep ==
  ASSUME WireInv, [WireNext]_wireVars
  PROVE  [LinkOfWire!Next]_LinkOfWire!vars
<1>1. WireTypes
  BY DEF WireInv
<1>2. CASE \E m \in Mail : SendMessage(m)
  <2>1. PICK m \in Mail : SendMessage(m)
    BY <1>2
  <2>2. LinkOfWire!Send(m)
    BY <2>1 DEF SendMessage, LinkOfWire!Send
  <2> QED BY <2>2 DEF LinkOfWire!Next
<1>3. CASE ReadEnd
  <2>1. LinkOfWire!End
    BY <1>3 DEF ReadEnd, LinkOfWire!End
  <2> QED BY <2>1 DEF LinkOfWire!Next
<1>4. CASE GetBlock
  <2>1. PICK tape, cut : TapeInv(tape, cut) /\ ReaderInv(tape, cut)
    BY DEF WireInv
  <2>2. want = "text" /\ want # "end" /\ posted' = posted
    BY <1>4 DEF GetBlock, ReadAll
  <2>3. Len(delivered) < Len(posted)
    BY <1>1, <2>1, <2>2, InFrame
  <2>4. \/ want' = want /\ delivered' = delivered
        \/ want' = "id" /\ delivered' = Append(delivered, ImageOf(posted[Len(delivered) + 1]))
    BY <1>4, <2>1, BlockRead
  <2>5. CASE want' = want /\ delivered' = delivered
    BY <2>2, <2>5 DEF LinkOfWire!vars
  <2>6. CASE want' = "id" /\ delivered' = Append(delivered, ImageOf(posted[Len(delivered) + 1]))
    <3>1. LinkOfWire!Deliver
      BY <2>2, <2>3, <2>6 DEF LinkOfWire!Deliver
    <3> QED BY <3>1 DEF LinkOfWire!Next
  <2> QED BY <2>4, <2>5, <2>6
<1>5. CASE GetId
  <2>1. want = "id" /\ want' = "size" /\ UNCHANGED <<posted, delivered>>
    BY <1>5, IdIsJson DEF GetId, ReadAll
  <2> QED BY <2>1 DEF LinkOfWire!vars
<1>6. CASE GetSize
  <2>1. want = "size" /\ want' = "text" /\ UNCHANGED <<posted, delivered>>
    BY <1>6 DEF GetSize, ReadAll
  <2> QED BY <2>1 DEF LinkOfWire!vars
<1>7. CASE Break \/ Write \/ WriteFails \/ Read \/ UNCHANGED wireVars
  <2>1. UNCHANGED <<posted, delivered, want>>
    BY <1>7 DEF Break, Write, WriteFails, Read, wireVars
  <2> QED BY <2>1 DEF LinkOfWire!vars
<1> QED BY <1>2, <1>3, <1>4, <1>5, <1>6, <1>7 DEF WireNext, Sender, Receiver

\* However the socket cuts the stream, and wherever it breaks, sendMessage and
\* recvMessage keep what a connection promises: messages arrive whole, in order,
\* with every field in its place.
THEOREM MessagesArriveInOrder == WireSpec => ImplementsLink
<1>1. WireInit => LinkOfWire!Init
  BY DEF WireInit, LinkOfWire!Init
<1>2. WireInv /\ [WireNext]_wireVars => [LinkOfWire!Next]_LinkOfWire!vars
  BY LinkStep
<1> QED BY <1>1, <1>2, WireInvariance, PTL DEF WireSpec, ImplementsLink, LinkOfWire!Spec
===============================================================================
