----------------------- MODULE NotificationStreamProofs -----------------------
(***************************************************************************)
(* StreamCompletesList for any number of notifications, clients and faults *)
(* and any page size.  A notification is created and then published by one *)
(* worker, so between the two it is newer than anything a stream carries;  *)
(* and what a first page leaves out is older than all it shows.            *)
(***************************************************************************)
EXTENDS NotificationStream, SequenceTheorems, FiniteSetTheorems, TLAPS

\* What is about to be published is newer than all that was.
PendingInv ==
    \A n \in pending, c \in Clients : \A x \in ToSet(Received(c)) : Newer(n, x)

OverlapInv == \A c \in Clients : overlaps[c] => stream[c] = "open"

IInv ==
    /\ TypeOK
    /\ PendingInv
    /\ OverlapInv
    /\ StreamCompletesList

-----------------------------------------------------------------------------
(* The order of notifications.                                               *)

LEMMA SeqFacts ==
    ASSUME NEW S, NEW s \in Seq(S)
    PROVE  /\ Len(s) \in Nat /\ DOMAIN s = 1..Len(s)
           /\ \A i \in DOMAIN s : s[i] \in S
           /\ ToSet(s) \subseteq S
BY DEF ToSet

LEMMA ConcatAppend ==
    ASSUME NEW S, NEW s \in Seq(S), NEW t \in Seq(S), NEW n \in S
    PROVE  s \o Append(t, n) = Append(s \o t, n)
<1>1. s \o t \in Seq(S) /\ <<n>> \in Seq(S)
  BY ConcatProperties
<1>2. Append(t, n) = t \o <<n>> /\ Append(s \o t, n) = (s \o t) \o <<n>>
  BY <1>1, AppendIsConcat
<1>3. (s \o t) \o <<n>> = s \o (t \o <<n>>)
  BY <1>1, ConcatAssociative
<1> QED
  BY <1>2, <1>3

LEMMA MoveHead ==
    ASSUME NEW S, NEW s \in Seq(S), NEW t \in Seq(S), t # << >>
    PROVE  /\ Append(s, Head(t)) \in Seq(S) /\ Tail(t) \in Seq(S)
           /\ Append(s, Head(t)) \o Tail(t) = s \o t
<1> DEFINE h == Head(t)
<1> DEFINE r == Tail(t)
<1>1. h \in S /\ r \in Seq(S) /\ <<h>> \in Seq(S) /\ Append(s, h) \in Seq(S)
  BY HeadTailProperties
<1>2. <<h>> \o r = t
  BY <1>1
<1>3. Append(s, h) = s \o <<h>>
  BY <1>1, AppendIsConcat
<1>4. (s \o <<h>>) \o r = s \o (<<h>> \o r)
  BY <1>1, ConcatAssociative
<1> QED
  BY <1>1, <1>2, <1>3, <1>4

\* Newer is a strict total order of what was created.
LEMMA NewerOrder ==
    ASSUME TypeOK
    PROVE  /\ \A x, y : Newer(x, y) => x \in ToSet(created) /\ y \in ToSet(created)
           /\ \A x, y \in ToSet(created) : x # y => Newer(x, y) \/ Newer(y, x)
           /\ \A x, y : ~(Newer(x, y) /\ Newer(y, x))
           /\ \A x, y, z : Newer(x, y) /\ Newer(y, z) => Newer(x, z)
<1>1. created \in Seq(Notices) /\ IsInjective(created)
  BY DEF TypeOK
<1>2. Len(created) \in Nat /\ DOMAIN created = 1..Len(created)
  BY <1>1
<1>3. \A i, j \in DOMAIN created : created[i] = created[j] => i = j
  BY <1>1 DEF IsInjective
<1> HIDE <1>1
<1>4. \A x, y : Newer(x, y) => x \in ToSet(created) /\ y \in ToSet(created)
  BY DEF Newer, ToSet
<1>5. ASSUME NEW x \in ToSet(created), NEW y \in ToSet(created), x # y
      PROVE  Newer(x, y) \/ Newer(y, x)
  <2>1. PICK i \in DOMAIN created : created[i] = x
    BY DEF ToSet
  <2>2. PICK j \in DOMAIN created : created[j] = y
    BY DEF ToSet
  <2>3. i > j \/ j > i
    BY <1>2, <1>5, <2>1, <2>2
  <2> QED
    BY <2>1, <2>2, <2>3 DEF Newer
<1>6. ASSUME NEW x, NEW y, Newer(x, y), Newer(y, x) PROVE FALSE
  <2>1. PICK i, j \in DOMAIN created : created[i] = x /\ created[j] = y /\ i > j
    BY <1>6 DEF Newer
  <2>2. PICK k, l \in DOMAIN created : created[k] = y /\ created[l] = x /\ k > l
    BY <1>6 DEF Newer
  <2>3. i = l /\ j = k
    BY <1>3, <2>1, <2>2
  <2> QED
    BY <1>2, <2>1, <2>2, <2>3
<1>7. ASSUME NEW x, NEW y, NEW z, Newer(x, y), Newer(y, z) PROVE Newer(x, z)
  <2>1. PICK i, j \in DOMAIN created : created[i] = x /\ created[j] = y /\ i > j
    BY <1>7 DEF Newer
  <2>2. PICK k, l \in DOMAIN created : created[k] = y /\ created[l] = z /\ k > l
    BY <1>7 DEF Newer
  <2>3. j = k
    BY <1>3, <2>1, <2>2
  <2>4. i > l
    BY <1>2, <2>1, <2>2, <2>3
  <2> QED
    BY <2>1, <2>2, <2>4 DEF Newer
<1> QED
  BY <1>4, <1>5, <1>6, <1>7

\* An INSERT adds a notification newer than the others, whose order it keeps.
LEMMA CreateAdds ==
    ASSUME TypeOK, NEW n \in Notices, Create(n)
    PROVE  /\ created' \in Seq(Notices) /\ IsInjective(created')
           /\ ToSet(created') = ToSet(created) \cup {n}
           /\ \A x, y : Newer(x, y) => Newer(x, y)'
           /\ \A x \in ToSet(created) : Newer(n, x)'
<1>1. created \in Seq(Notices) /\ IsInjective(created) /\ n \notin ToSet(created)
  BY DEF TypeOK, Create
<1> DEFINE len == Len(created)
<1>2. len \in Nat /\ DOMAIN created = 1..len
  BY <1>1
<1>3. created' \in Seq(Notices) /\ DOMAIN created' = 1..(len + 1)
      /\ created'[len + 1] = n /\ \A i \in 1..len : created'[i] = created[i]
  BY <1>1, <1>2 DEF Create
<1>4. \A i \in 1..len : created[i] \in ToSet(created)
  BY <1>2 DEF ToSet
<1>5. \A i \in 1..(len + 1) : i \in 1..len \/ i = len + 1
  BY <1>2
<1>6. \A i \in 1..len : i \in 1..(len + 1) /\ len + 1 > i
  BY <1>2
<1>7. len + 1 \in 1..(len + 1)
  BY <1>2
<1> HIDE DEF len
<1>8. IsInjective(created')
  <2>1. \A i, j \in 1..len : created[i] = created[j] => i = j
    BY <1>1, <1>2 DEF IsInjective
  <2> QED
    BY <1>1, <1>3, <1>4, <1>5, <2>1 DEF IsInjective
<1>9. ToSet(created') = ToSet(created) \cup {n}
  BY <1>2, <1>3, <1>5, <1>6, <1>7 DEF ToSet
<1>10. \A x, y : Newer(x, y) => Newer(x, y)'
  BY <1>2, <1>3, <1>6 DEF Newer
<1>11. ASSUME NEW x \in ToSet(created) PROVE Newer(n, x)'
  <2>1. PICK i \in 1..len : created[i] = x
    BY <1>2 DEF ToSet
  <2> QED
    BY <1>3, <1>6, <1>7, <2>1 DEF Newer
<1> QED
  BY <1>3, <1>8, <1>9, <1>10, <1>11

-----------------------------------------------------------------------------
(* First pages.                                                              *)

LEMMA CreatedFinite ==
    ASSUME TypeOK
    PROVE  IsFiniteSet(ToSet(created)) /\ IsFiniteSet(stored)
<1>1. created \in Seq(Notices) /\ Len(created) \in Nat /\ DOMAIN created = 1..Len(created)
  BY DEF TypeOK
<1>2. IsFiniteSet(1..Len(created))
  BY <1>1, FS_Interval
<1>3. created \in Surjection(1..Len(created), ToSet(created))
  BY <1>1 DEF Surjection, ToSet
<1>4. IsFiniteSet(ToSet(created))
  BY <1>2, <1>3, FS_Surjection
<1>5. stored \in SUBSET ToSet(created)
  BY DEF TypeOK
<1> QED
  BY <1>4, <1>5, FS_Subset

\* The rows a list shows before a notification.
Ahead(n) == {m \in stored : Newer(m, n)}

LEMMA AheadFacts ==
    ASSUME TypeOK, NEW n \in stored
    PROVE  /\ IsFiniteSet(Ahead(n)) /\ Cardinality(Ahead(n)) \in 0..(Cardinality(stored) - 1)
           /\ \A m \in stored : Newer(m, n) => Cardinality(Ahead(m)) < Cardinality(Ahead(n))
<1>1. IsFiniteSet(stored) /\ Cardinality(stored) \in Nat
  BY CreatedFinite, FS_CardinalityType
<1>2. ASSUME NEW m \in stored
      PROVE  IsFiniteSet(Ahead(m)) /\ Cardinality(Ahead(m)) \in Nat
  <2>1. Ahead(m) \in SUBSET stored
    BY DEF Ahead
  <2> QED
    BY <1>1, <2>1, FS_Subset, FS_CardinalityType
<1>3. Cardinality(Ahead(n)) <= Cardinality(stored) - 1
  <2>1. Ahead(n) \in SUBSET (stored \ {n})
    BY NewerOrder DEF Ahead
  <2>2. IsFiniteSet(stored \ {n}) /\ Cardinality(stored \ {n}) = Cardinality(stored) - 1
    BY <1>1, FS_RemoveElement
  <2> QED
    BY <2>1, <2>2, FS_Subset
<1>4. ASSUME NEW m \in stored, Newer(m, n)
      PROVE  Cardinality(Ahead(m)) < Cardinality(Ahead(n))
  <2>1. Ahead(m) \in SUBSET (Ahead(n) \ {m})
    BY <1>4, NewerOrder DEF Ahead
  <2>2. m \in Ahead(n)
    BY <1>4 DEF Ahead
  <2>3. IsFiniteSet(Ahead(n) \ {m}) /\ Cardinality(Ahead(n) \ {m}) = Cardinality(Ahead(n)) - 1
    BY <1>2, <2>2, FS_RemoveElement
  <2>4. Cardinality(Ahead(m)) <= Cardinality(Ahead(n) \ {m})
    BY <2>1, <2>3, FS_Subset
  <2> QED
    BY <1>2, <2>3, <2>4
<1> QED
  BY <1>1, <1>2, <1>3, <1>4

\* What a first page leaves out, older than all of it, leaves it full.
LEMMA BeyondFirstPage ==
    ASSUME TypeOK, NEW n \in stored, n \notin FirstPage
    PROVE  Cardinality(FirstPage) = Limit /\ \A m \in FirstPage : Newer(m, n)
<1> DEFINE size == Cardinality(stored)
<1> DEFINE rank == [m \in stored |-> Cardinality(Ahead(m))]
<1>1. IsFiniteSet(stored) /\ size \in Nat /\ Limit \in Nat /\ Limit > 0
  BY CreatedFinite, FS_CardinalityType, StreamAssumption
<1>2. \A m \in stored : rank[m] \in 0..(size - 1)
  BY AheadFacts
<1>3. \A l, m \in stored : Newer(l, m) => rank[l] < rank[m]
  BY AheadFacts
<1>4. FirstPage = {m \in stored : rank[m] < Limit}
  BY DEF FirstPage, Ahead
<1>5. \A l, m \in stored : l # m => Newer(l, m) \/ Newer(m, l)
  BY NewerOrder DEF TypeOK
<1>6. rank \in [stored -> 0..(size - 1)]
  BY <1>2
<1> HIDE DEF rank, size
<1>7. rank[n] >= Limit /\ rank[n] \in 0..(size - 1)
  BY <1>1, <1>2, <1>4
<1>8. \A m \in FirstPage : Newer(m, n)
  <2> SUFFICES ASSUME NEW m \in FirstPage PROVE Newer(m, n)
    OBVIOUS
  <2>1. m \in stored /\ rank[m] < Limit /\ rank[m] \in 0..(size - 1) /\ m # n
    BY <1>2, <1>4
  <2>2. ~(rank[n] < rank[m])
    BY <1>1, <1>7, <2>1
  <2> QED
    BY <1>3, <1>5, <2>1, <2>2
<1>9. rank \in Injection(stored, 0..(size - 1))
  <2>1. \A l, m \in stored : rank[l] = rank[m] => l = m
    BY <1>2, <1>3, <1>5
  <2> QED
    BY <1>6, <2>1 DEF Injection, IsInjective
<1>10. IsFiniteSet(0..(size - 1)) /\ Cardinality(0..(size - 1)) = size
  <2> DEFINE top == size - 1
  <2>1. 0 \in Int /\ top \in Int /\ top >= 0
    BY <1>1, <1>7
  <2> HIDE DEF top
  <2>2. IsFiniteSet(0..top) /\ Cardinality(0..top) = IF 0 > top THEN 0 ELSE top - 0 + 1
    BY ONLY <2>1, FS_Interval
  <2> QED
    BY <1>1, <2>1, <2>2 DEF top
<1>11. rank \in Surjection(stored, 0..(size - 1))
  BY <1>9, <1>10, FS_Injection DEF size
<1> DEFINE P == 0..(Limit - 1)
<1> DEFINE place == [m \in FirstPage |-> rank[m]]
<1>12. IsFiniteSet(P) /\ Cardinality(P) = Limit
  <2> DEFINE top == Limit - 1
  <2>1. 0 \in Int /\ top \in Int /\ top >= 0
    BY <1>1
  <2> HIDE DEF top
  <2>2. IsFiniteSet(0..top) /\ Cardinality(0..top) = IF 0 > top THEN 0 ELSE top - 0 + 1
    BY ONLY <2>1, FS_Interval
  <2> QED
    BY <1>1, <2>1, <2>2 DEF top
<1>13. place \in Injection(FirstPage, P)
  <2>1. \A m \in FirstPage : place[m] \in P
    BY <1>1, <1>2, <1>4
  <2>2. \A l, m \in FirstPage : place[l] = place[m] => l = m
    BY <1>4, <1>9 DEF Injection, IsInjective
  <2> QED
    BY <2>1, <2>2 DEF Injection, IsInjective
<1>14. place \in Surjection(FirstPage, P)
  <2> SUFFICES ASSUME NEW i \in P PROVE \E m \in FirstPage : place[m] = i
    BY <1>13 DEF Injection, Surjection
  <2>1. i \in 0..(size - 1) /\ i < Limit
    BY <1>1, <1>7
  <2>2. PICK m \in stored : rank[m] = i
    BY <1>11, <2>1 DEF Surjection
  <2> QED
    BY <1>4, <2>1, <2>2
<1>15. Cardinality(FirstPage) = Cardinality(P)
  BY <1>12, <1>13, <1>14, FS_Injection
<1> QED
  BY <1>8, <1>12, <1>15

-----------------------------------------------------------------------------
(* The invariant is inductive.                                               *)

LEMMA ReceivedFacts ==
    ASSUME TypeOK, NEW c \in Clients
    PROVE  /\ shown[c] \in Seq(Notices) /\ inbox[c] \in Seq(Notices)
           /\ Received(c) \in Seq(Notices)
           /\ Len(Received(c)) \in Nat /\ DOMAIN Received(c) = 1..Len(Received(c))
           /\ ToSet(Received(c)) \subseteq ToSet(created)
BY DEF TypeOK, Received

LEMMA InitIInv == Init => IInv
<1> SUFFICES ASSUME Init PROVE IInv
  OBVIOUS
<1>1. created = << >> /\ created \in Seq(Notices) /\ DOMAIN created = {} /\ << >> \o << >> = << >>
  BY DEF Init
<1>2. ToSet(created) = {}
  BY <1>1 DEF ToSet
<1>3. \A c \in Clients : Received(c) = << >>
  BY <1>1 DEF Init, Received
<1>4. \A c \in Clients : ToSet(Received(c)) = {} /\ DOMAIN Received(c) = {}
  BY <1>1, <1>2, <1>3 DEF Init
<1>5. TypeOK
  BY <1>1, <1>2, <1>4, StreamAssumption DEF Init, TypeOK, IsInjective
<1> QED
  BY <1>2, <1>4, <1>5 DEF Init, IInv, PendingInv, OverlapInv, StreamCompletesList, NothingMissed,
     StreamInListOrder

\* A step that neither creates nor delivers, and that only takes a client's overlap away
\* when it changes what the client relies on.
LEMMA QuietIInv ==
    ASSUME IInv, TypeOK', OverlapInv', UNCHANGED created, pending' \subseteq pending,
           cleared \subseteq cleared',
           \A c \in Clients : Received(c)' = Received(c),
           \A c \in Clients : overlaps'[c] =>
               overlaps[c] /\ listed'[c] = listed[c] /\ pending' = pending
    PROVE  IInv'
<1>1. \A x, y : Newer(x, y)' <=> Newer(x, y)
  BY DEF Newer
<1>2. PendingInv'
  BY <1>1 DEF IInv, PendingInv
<1>3. NothingMissed'
  BY <1>1 DEF IInv, StreamCompletesList, NothingMissed
<1>4. StreamInListOrder'
  BY <1>1 DEF IInv, StreamCompletesList, StreamInListOrder
<1> QED
  BY <1>2, <1>3, <1>4 DEF IInv, StreamCompletesList

LEMMA CreateIInv == ASSUME NEW n \in Notices, Create(n), IInv PROVE IInv'
<1>1. /\ created' \in Seq(Notices) /\ IsInjective(created')
      /\ ToSet(created') = ToSet(created) \cup {n}
      /\ \A x, y : Newer(x, y) => Newer(x, y)'
      /\ \A x \in ToSet(created) : Newer(n, x)'
      /\ n \notin ToSet(created) /\ pending = {} /\ pending' = {n}
  BY CreateAdds DEF IInv, Create
<1>2. \A c \in Clients : Received(c)' = Received(c) /\ ToSet(Received(c)) \subseteq ToSet(created)
  BY ReceivedFacts DEF IInv, Create, streams, Received
<1>3. TypeOK'
  BY <1>1, <1>2 DEF IInv, TypeOK, Create, streams, lists
<1>4. PendingInv' /\ OverlapInv'
  BY <1>1, <1>2 DEF IInv, PendingInv, OverlapInv, Create, streams
<1>5. NothingMissed'
  <2> SUFFICES ASSUME NEW c \in Clients, overlaps[c], NEW m \in ToSet(created) \cup {n}
               PROVE  \/ m \in listed[c] \cup ToSet(Received(c)) \cup {n} \cup cleared
                      \/ Cardinality(listed[c]) = Limit /\ \A l \in listed[c] : Newer(l, m)'
    BY <1>1, <1>2 DEF NothingMissed, Create, lists
  <2>1. CASE m = n
    BY <2>1
  <2>2. CASE m \in ToSet(created)
    BY <1>1, <2>2 DEF IInv, StreamCompletesList, NothingMissed
  <2> QED
    BY <2>1, <2>2
<1>6. StreamInListOrder'
  BY <1>1, <1>2 DEF IInv, StreamCompletesList, StreamInListOrder
<1> QED
  BY <1>3, <1>4, <1>5, <1>6 DEF IInv, StreamCompletesList

\* PUBLISH: what a client is to be shown grows by the notification, at the end.
LEMMA PushDelivers ==
    ASSUME TypeOK, NEW n \in pending, Delivered(n), UNCHANGED shown, NEW c \in Clients
    PROVE  /\ inbox' \in [Clients -> Seq(Notices)]
           /\ Received(c)' = IF stream[c] = "open" THEN Append(Received(c), n) ELSE Received(c)
           /\ ToSet(Received(c)') =
                ToSet(Received(c)) \cup IF stream[c] = "open" THEN {n} ELSE {}
<1>1. n \in Notices
  BY SeqFacts DEF TypeOK
<1>2. inbox' \in [Clients -> Seq(Notices)]
  BY <1>1 DEF TypeOK, Delivered
<1>3. /\ shown[c] \in Seq(Notices) /\ inbox[c] \in Seq(Notices)
      /\ Received(c) \in Seq(Notices)
      /\ Len(Received(c)) \in Nat /\ DOMAIN Received(c) = 1..Len(Received(c))
  BY ReceivedFacts
<1>4. CASE stream[c] = "open"
  <2>1. inbox'[c] = Append(inbox[c], n)
    BY <1>4 DEF Delivered
  <2>2. shown[c] \o Append(inbox[c], n) = Append(shown[c] \o inbox[c], n)
    <3> DEFINE x == shown[c]
    <3> DEFINE y == inbox[c]
    <3>1. x \in Seq(Notices) /\ y \in Seq(Notices)
      BY <1>3
    <3> HIDE DEF x, y
    <3>2. x \o Append(y, n) = Append(x \o y, n)
      BY <1>1, <3>1, ConcatAppend
    <3> QED
      BY <3>2 DEF x, y
  <2>3. Received(c)' = Append(Received(c), n)
    BY <2>1, <2>2 DEF Received
  <2> DEFINE s == Received(c)
  <2>4. ToSet(Append(s, n)) = ToSet(s) \cup {n}
    <3> HIDE DEF s
    <3>1. s \in Seq(Notices) /\ Len(s) \in Nat /\ DOMAIN s = 1..Len(s)
      BY <1>3 DEF s
    <3>2. DOMAIN Append(s, n) = 1..(Len(s) + 1) /\ Append(s, n)[Len(s) + 1] = n
          /\ \A i \in 1..Len(s) : Append(s, n)[i] = s[i]
      BY <1>1, <3>1
    <3>3. \A i \in 1..(Len(s) + 1) : i \in 1..Len(s) \/ i = Len(s) + 1
      BY <3>1
    <3>4. Len(s) + 1 \in 1..(Len(s) + 1) /\ \A i \in 1..Len(s) : i \in 1..(Len(s) + 1)
      BY <3>1
    <3> QED
      BY <3>1, <3>2, <3>3, <3>4 DEF ToSet
  <2> QED
    BY <1>2, <1>4, <2>3, <2>4
<1>5. CASE stream[c] # "open"
  <2>1. inbox'[c] = inbox[c]
    BY <1>5 DEF Delivered
  <2>2. Received(c)' = Received(c)
    BY <2>1 DEF Received
  <2> QED
    BY <1>2, <1>5, <2>2
<1> QED
  BY <1>4, <1>5

LEMMA PushIInv == ASSUME NEW n \in Notices, Push(n), IInv PROVE IInv'
<1>1. TypeOK /\ n \in pending /\ pending' = {} /\ Delivered(n) /\ n \in ToSet(created)
  BY DEF IInv, TypeOK, Push
<1>2. UNCHANGED <<created, stored, read, cleared, stream, shown, pc, listed, total, overlaps, faults>>
  BY DEF Push, table, lists
<1>3. \A x, y : Newer(x, y)' <=> Newer(x, y)
  BY <1>2 DEF Newer
<1>4. ASSUME NEW c \in Clients
      PROVE  /\ inbox' \in [Clients -> Seq(Notices)]
             /\ Received(c)' = IF stream[c] = "open" THEN Append(Received(c), n) ELSE Received(c)
             /\ ToSet(Received(c)') =
                  ToSet(Received(c)) \cup IF stream[c] = "open" THEN {n} ELSE {}
  BY <1>1, <1>2, PushDelivers
<1>5. TypeOK'
  <2>1. inbox' \in [Clients -> Seq(Notices)]
    <3>1. n \in Notices
      BY SeqFacts
    <3> QED
      BY <1>1 DEF TypeOK, Delivered
  <2>2. \A c \in Clients : (listed'[c] \cup ToSet(Received(c)')) \subseteq ToSet(created')
    BY <1>1, <1>2, <1>4 DEF TypeOK
  <2> QED
    BY <1>1, <1>2, <2>1, <2>2 DEF TypeOK
<1>6. PendingInv' /\ OverlapInv'
  BY <1>1, <1>2 DEF IInv, PendingInv, OverlapInv
<1>7. NothingMissed'
  <2> SUFFICES ASSUME NEW c \in Clients, overlaps[c], NEW m \in ToSet(created)
               PROVE  \/ m \in listed[c] \cup ToSet(Received(c)') \cup cleared
                      \/ Cardinality(listed[c]) = Limit /\ \A l \in listed[c] : Newer(l, m)
    BY <1>1, <1>2, <1>3 DEF NothingMissed
  <2>1. ToSet(Received(c)') = ToSet(Received(c)) \cup {n}
    BY <1>4 DEF IInv, OverlapInv
  <2>2. \/ m \in listed[c] \cup ToSet(Received(c)) \cup pending \cup cleared
        \/ Cardinality(listed[c]) = Limit /\ \A l \in listed[c] : Newer(l, m)
    BY DEF IInv, StreamCompletesList, NothingMissed
  <2>3. pending = {n}
    BY <1>1 DEF TypeOK
  <2> QED
    BY <2>1, <2>2, <2>3
<1>8. StreamInListOrder'
  <2> SUFFICES ASSUME NEW c \in Clients, NEW i \in DOMAIN Received(c)',
                      NEW j \in DOMAIN Received(c)', i < j
               PROVE  Newer(Received(c)'[j], Received(c)'[i])
    BY <1>3 DEF StreamInListOrder
  <2> DEFINE s == Received(c)
  <2>1. s \in Seq(Notices) /\ Len(s) \in Nat /\ DOMAIN s = 1..Len(s)
    BY <1>1, ReceivedFacts
  <2>2. \A k, l \in DOMAIN s : k < l => Newer(s[l], s[k])
    BY DEF IInv, StreamCompletesList, StreamInListOrder
  <2>3. \A x \in ToSet(s) : Newer(n, x)
    BY <1>1 DEF IInv, PendingInv
  <2>4. Received(c)' = Append(s, n) \/ Received(c)' = s
    BY <1>4
  <2> HIDE DEF s
  <2>5. CASE Received(c)' = Append(s, n)
    <3>1. i \in 1..(Len(s) + 1) /\ j \in 1..(Len(s) + 1)
      BY <2>1, <2>5
    <3>2. i \in 1..Len(s) /\ Append(s, n)[i] = s[i]
      BY <2>1, <3>1
    <3>3. CASE j = Len(s) + 1
      <4>1. Append(s, n)[j] = n
        BY <2>1, <3>3
      <4>2. s[i] \in ToSet(s)
        BY <2>1, <3>2 DEF ToSet
      <4> QED
        BY <2>3, <2>5, <3>2, <4>1, <4>2
    <3>4. CASE j # Len(s) + 1
      <4>1. j \in 1..Len(s) /\ Append(s, n)[j] = s[j]
        BY <2>1, <3>1, <3>4
      <4> QED
        BY <2>1, <2>2, <2>5, <3>2, <4>1
    <3> QED
      BY <3>3, <3>4
  <2>6. CASE Received(c)' = s
    BY <2>2, <2>6
  <2> QED
    BY <2>4, <2>5, <2>6
<1> QED
  BY <1>5, <1>6, <1>7, <1>8 DEF IInv, StreamCompletesList

\* What was delivered is shown: nothing changes for the client as a whole.
LEMMA StreamEventIInv == ASSUME NEW c \in Clients, StreamEvent(c), IInv PROVE IInv'
<1>1. TypeOK /\ inbox[c] # << >>
  BY DEF IInv, StreamEvent
<1>2. UNCHANGED <<created, stored, read, cleared, pending, stream, pc, listed, total, overlaps, faults>>
  BY DEF StreamEvent, table, lists
<1>3. shown[c] \in Seq(Notices) /\ inbox[c] \in Seq(Notices)
  BY <1>1 DEF TypeOK
<1> DEFINE first == Append(shown[c], Head(inbox[c]))
<1> DEFINE rest == Tail(inbox[c])
<1>4. first \in Seq(Notices) /\ rest \in Seq(Notices) /\ first \o rest = shown[c] \o inbox[c]
  BY <1>1, <1>3, MoveHead, Zenon
<1>5. inbox' = [inbox EXCEPT ![c] = rest] /\ shown' = [shown EXCEPT ![c] = first]
  BY DEF StreamEvent
<1> HIDE DEF first, rest
<1>6. inbox' \in [Clients -> Seq(Notices)] /\ shown' \in [Clients -> Seq(Notices)]
  BY <1>1, <1>4, <1>5 DEF TypeOK
<1>7. ASSUME NEW d \in Clients PROVE Received(d)' = Received(d)
  <2>1. inbox'[c] = rest /\ shown'[c] = first
    BY <1>1, <1>5 DEF TypeOK
  <2>2. CASE d = c
    BY <1>4, <2>1, <2>2, Zenon DEF Received
  <2>3. CASE d # c
    <3>1. inbox'[d] = inbox[d] /\ shown'[d] = shown[d]
      BY <1>1, <1>5, <2>3 DEF TypeOK
    <3> QED
      BY <3>1 DEF Received
  <2> QED
    BY <2>2, <2>3
<1>8. TypeOK'
  BY <1>1, <1>2, <1>6, <1>7 DEF TypeOK
<1>9. OverlapInv'
  BY <1>2 DEF IInv, OverlapInv
<1> QED
  BY <1>2, <1>7, <1>8, <1>9, QuietIInv

LEMMA LeaveIInv == ASSUME NEW c \in Clients, Leave(c), IInv PROVE IInv'
<1>1. UNCHANGED <<created, stored, read, cleared, pending, faults>>
  BY DEF Leave, table
<1>2. \A d \in Clients \ {c} : Received(d)' = Received(d)
  BY DEF IInv, TypeOK, Leave, Received
<1>3. /\ inbox'[c] = << >> /\ shown'[c] = << >>
      /\ << >> \in Seq(Notices) /\ << >> \o << >> = << >>
  BY DEF IInv, TypeOK, Leave
<1>4. Received(c)' = << >>
  BY <1>3 DEF Received
<1>5. ToSet(Received(c)') = {} /\ DOMAIN Received(c)' = {}
  BY <1>4 DEF ToSet
<1>6. \A d \in Clients : ToSet(Received(d)') \subseteq ToSet(Received(d))
  BY <1>2, <1>5
<1>7. \A x, y : Newer(x, y)' <=> Newer(x, y)
  BY <1>1 DEF Newer
<1>8. TypeOK'
  <2>1. inbox' \in [Clients -> Seq(Notices)] /\ shown' \in [Clients -> Seq(Notices)]
    BY <1>3 DEF IInv, TypeOK, Leave
  <2>2. \A d \in Clients : (listed'[d] \cup ToSet(Received(d)')) \subseteq ToSet(created)
    BY <1>6 DEF IInv, TypeOK, Leave
  <2> QED
    BY <1>1, <2>1, <2>2 DEF IInv, TypeOK, Leave
<1>9. PendingInv' /\ OverlapInv'
  <2>1. PendingInv'
    BY <1>1, <1>6, <1>7 DEF IInv, PendingInv
  <2>2. OverlapInv'
    BY DEF IInv, TypeOK, OverlapInv, Leave
  <2> QED
    BY <2>1, <2>2
<1>10. NothingMissed'
  <2> SUFFICES ASSUME NEW d \in Clients, overlaps'[d], NEW n \in ToSet(created)
               PROVE  \/ n \in listed'[d] \cup ToSet(Received(d)') \cup pending \cup cleared
                      \/ Cardinality(listed'[d]) = Limit /\ \A m \in listed'[d] : Newer(m, n)
    BY <1>1, <1>7 DEF NothingMissed
  <2>1. d # c /\ overlaps[d] /\ listed'[d] = listed[d]
    BY DEF IInv, TypeOK, Leave
  <2> QED
    BY <1>2, <2>1 DEF IInv, StreamCompletesList, NothingMissed
<1>11. StreamInListOrder'
  <2> SUFFICES ASSUME NEW d \in Clients, NEW i \in DOMAIN Received(d)',
                      NEW j \in DOMAIN Received(d)', i < j
               PROVE  Newer(Received(d)'[j], Received(d)'[i])
    BY <1>7 DEF StreamInListOrder
  <2> QED
    BY <1>2, <1>5 DEF IInv, StreamCompletesList, StreamInListOrder
<1> QED
  BY <1>8, <1>9, <1>10, <1>11 DEF IInv, StreamCompletesList

\* The page is read from the table, whatever the stream is doing.
LEMMA FindPageIInv == ASSUME NEW c \in Clients, FindPage(c), IInv PROVE IInv'
<1>1. UNCHANGED <<created, stored, read, cleared, pending, stream, inbox, shown, total, faults>>
  BY DEF FindPage, table, streams
<1>2. listed' = [listed EXCEPT ![c] = FirstPage] /\ FirstPage \subseteq stored
      /\ stored \subseteq ToSet(created) /\ ToSet(created) \subseteq Notices
  <2>1. created \in Seq(Notices)
    BY DEF IInv, TypeOK
  <2> QED
    BY <2>1, SeqFacts DEF IInv, TypeOK, FindPage, FirstPage
<1>3. \A x, y : Newer(x, y)' <=> Newer(x, y)
  BY <1>1 DEF Newer
<1>4. \A d \in Clients : Received(d)' = Received(d)
  BY <1>1 DEF Received
<1>5. TypeOK'
  BY <1>1, <1>2, <1>4 DEF IInv, TypeOK, FindPage
<1>6. PendingInv' /\ OverlapInv'
  BY <1>1, <1>3, <1>4 DEF IInv, TypeOK, PendingInv, OverlapInv, FindPage
<1>7. NothingMissed'
  <2> SUFFICES ASSUME NEW d \in Clients, overlaps'[d], NEW n \in ToSet(created)
               PROVE  \/ n \in listed'[d] \cup ToSet(Received(d)) \cup pending \cup cleared
                      \/ Cardinality(listed'[d]) = Limit /\ \A m \in listed'[d] : Newer(m, n)
    BY <1>1, <1>3, <1>4 DEF NothingMissed
  <2>1. CASE d # c
    <3>1. overlaps[d] /\ listed'[d] = listed[d]
      BY <2>1 DEF IInv, TypeOK, FindPage
    <3> QED
      BY <3>1 DEF IInv, StreamCompletesList, NothingMissed
  <2>2. CASE d = c
    <3>1. listed'[d] = FirstPage
      BY <1>2, <2>2 DEF IInv, TypeOK
    <3>2. n \in cleared \/ n \in stored
      BY DEF IInv, TypeOK
    <3> QED
      BY <3>1, <3>2, BeyondFirstPage DEF IInv
  <2> QED
    BY <2>1, <2>2
<1>8. StreamInListOrder'
  BY <1>3, <1>4 DEF IInv, StreamCompletesList, StreamInListOrder
<1> QED
  BY <1>5, <1>6, <1>7, <1>8 DEF IInv, StreamCompletesList

\* The other steps leave alone what a client relies on, or end its reliance.
LEMMA ReaderIInv ==
    ASSUME NEW c \in Clients, IInv,
           \/ Open(c) \/ Subscribe(c) \/ Unsubscribe(c) \/ CountRows(c) \/ CountFails(c)
    PROVE  IInv'
<1> USE DEF Open, Subscribe, Unsubscribe, CountRows, CountFails, Fault, table, lists, streams
<1>1. UNCHANGED <<created, stored, read, cleared, pending, inbox, shown>>
  OBVIOUS
<1>2. \A d \in Clients : Received(d)' = Received(d)
  BY <1>1 DEF Received
<1>3. Cardinality(stored) \in Nat
  BY CreatedFinite, FS_CardinalityType DEF IInv
<1>4. /\ stream' \in [Clients -> {"closed", "opening", "open"}]
      /\ pc' \in [Clients -> {"idle", "count", "done"}]
      /\ listed' \in [Clients -> SUBSET Notices] /\ total' \in [Clients -> Nat]
      /\ overlaps' \in [Clients -> BOOLEAN] /\ faults' \in 0..MaxFaults
      /\ \A d \in Clients : listed'[d] \subseteq listed[d]
      /\ \A d \in Clients : overlaps'[d] => overlaps[d] /\ listed'[d] = listed[d]
  <2>1. CASE Open(c) \/ Subscribe(c)
    BY <2>1 DEF IInv, TypeOK
  <2>2. CASE Unsubscribe(c)
    BY <2>2, StreamAssumption DEF IInv, TypeOK
  <2>3. CASE CountRows(c)
    BY <1>3, <2>3 DEF IInv, TypeOK
  <2>4. CASE CountFails(c)
    BY <2>4 DEF IInv, TypeOK
  <2> QED
    BY <2>1, <2>2, <2>3, <2>4
<1>5. TypeOK'
  BY <1>1, <1>2, <1>4 DEF IInv, TypeOK
<1>6. OverlapInv'
  BY <1>4 DEF IInv, TypeOK, OverlapInv
<1> QED
  BY <1>1, <1>2, <1>4, <1>5, <1>6, QuietIInv

LEMMA TableIInv ==
    ASSUME IInv, (\E n \in Notices : PushFails(n) \/ MarkAsRead(n)) \/ ClearAll
    PROVE  IInv'
<1> USE DEF PushFails, MarkAsRead, ClearAll, Fault, table, lists, streams
<1>1. UNCHANGED <<created, stream, inbox, shown, pc, listed, total>>
  OBVIOUS
<1>2. \A d \in Clients : Received(d)' = Received(d)
  BY <1>1 DEF Received
<1>3. /\ pending' \subseteq pending /\ cleared \subseteq cleared' /\ faults' \in 0..MaxFaults
      /\ overlaps' \in [Clients -> BOOLEAN]
      /\ \A d \in Clients : overlaps'[d] => overlaps[d] /\ pending' = pending
      /\ stored' = ToSet(created) \ cleared' /\ cleared' \subseteq ToSet(created)
      /\ read' \subseteq stored'
  <2>1. CASE \E n \in Notices : PushFails(n)
    <3>1. /\ pending' \subseteq pending /\ faults' = faults + 1 /\ faults < MaxFaults
          /\ overlaps' = [d \in Clients |-> FALSE]
          /\ UNCHANGED <<stored, read, cleared>>
      BY <2>1 DEF IInv, TypeOK
    <3> QED
      BY <1>1, <3>1, StreamAssumption DEF IInv, TypeOK
  <2>2. CASE \E n \in Notices : MarkAsRead(n)
    BY <2>2 DEF IInv, TypeOK
  <2>3. CASE ClearAll
    BY <2>3 DEF IInv, TypeOK
  <2> QED
    BY <2>1, <2>2, <2>3
<1>4. TypeOK'
  BY <1>1, <1>2, <1>3 DEF IInv, TypeOK
<1>5. OverlapInv'
  BY <1>1, <1>3 DEF IInv, OverlapInv
<1> QED
  BY <1>1, <1>2, <1>3, <1>4, <1>5, QuietIInv

LEMMA NextIInv == IInv /\ [Next]_vars => IInv'
<1> SUFFICES ASSUME IInv, [Next]_vars PROVE IInv'
  OBVIOUS
<1>1. CASE \E n \in Notices : Create(n) \/ Push(n) \/ PushFails(n) \/ MarkAsRead(n)
  BY <1>1, CreateIInv, PushIInv, TableIInv
<1>2. CASE \E c \in Clients :
             \/ Open(c) \/ Subscribe(c) \/ Unsubscribe(c) \/ StreamEvent(c) \/ Leave(c)
             \/ FindPage(c) \/ CountRows(c) \/ CountFails(c)
  BY <1>2, ReaderIInv, StreamEventIInv, LeaveIInv, FindPageIInv
<1>3. CASE ClearAll
  BY <1>3, TableIInv
<1>4. CASE UNCHANGED vars
  <2>1. UNCHANGED <<created, stored, read, cleared, pending, stream, inbox, shown, pc, listed,
                    total, overlaps, faults>>
    BY <1>4 DEF vars
  <2>2. \A c \in Clients : Received(c)' = Received(c)
    BY <2>1 DEF Received
  <2>3. TypeOK' /\ OverlapInv'
    BY <2>1, <2>2 DEF IInv, TypeOK, OverlapInv
  <2> QED
    BY <2>1, <2>2, <2>3, QuietIInv
<1> QED
  BY <1>1, <1>2, <1>3, <1>4 DEF Next

\* Create, publish, subscribe, list, mark and clear (notification_service.go,
\* notification_handler.go:25-131) keep the invariant.
THEOREM Invariance == Spec => []IInv
<1> QED
  BY InitIInv, NextIInv, PTL DEF Spec

-----------------------------------------------------------------------------
(* What it gives.                                                            *)

\* Rows are what was created and not cleared, and Redis delivers nothing else.
THEOREM TypeCorrect == Spec => []TypeOK
<1>1. IInv => TypeOK
  BY DEF IInv
<1> QED
  BY <1>1, Invariance, PTL

\* A list read while subscribed, with its stream, misses nothing, and the stream shows
\* things in the order of the list (notification_service.go:33-57,
\* notification_handler.go:96-131).
THEOREM StreamCompletes == Spec => []StreamCompletesList
<1>1. IInv => StreamCompletesList
  BY DEF IInv
<1> QED
  BY <1>1, Invariance, PTL
=============================================================================
