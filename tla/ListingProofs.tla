--------------------------- MODULE ListingProofs ---------------------------
(***************************************************************************)
(* What readers of a growing table may rely on, for any number of writers, *)
(* readers, pages and any page size.  The place of an untied row in the    *)
(* order is the number of rows ahead of it, and that never falls.          *)
(***************************************************************************)
EXTENDS Listing, FiniteSetTheorems, TLAPS

-----------------------------------------------------------------------------
(* Rows.                                                                     *)

LEMMA WritesFacts ==
    ASSUME NEW w \in Writers
    PROVE  IsFiniteSet(Writes(w)) /\ \A row \in Writes(w) : row.by = w
<1>1. Job[w].kind \in Kinds
  BY ListingAssumption
<1>2. \A x, y : IsFiniteSet({x}) /\ IsFiniteSet({x, y})
  <2> SUFFICES ASSUME NEW x, NEW y PROVE IsFiniteSet({x}) /\ IsFiniteSet({x, y})
    OBVIOUS
  <2>1. IsFiniteSet({x})
    BY FS_Singleton
  <2>2. IsFiniteSet({x} \cup {y})
    BY <2>1, FS_AddElement
  <2>3. {x, y} = {x} \cup {y}
    OBVIOUS
  <2> QED
    BY <2>1, <2>2, <2>3
<1>3. /\ Txn(w).by = w /\ AuditRow(w).by = w /\ UserRow(w).by = w
      /\ Entry(w, "CREDIT").by = w /\ Entry(w, "DEBIT").by = w
  BY DEF Txn, AuditRow, UserRow, Entry
<1>4. CASE Job[w].kind = "TOPUP"
  <2>1. Writes(w) = {Txn(w), Entry(w, "CREDIT")}
    BY <1>4, Zenon DEF Writes, Actions
  <2> QED
    BY <1>2, <1>3, <2>1, Zenon
<1>5. CASE Job[w].kind = "TRANSFER"
  <2>1. Writes(w) = {Txn(w), Entry(w, "DEBIT"), Entry(w, "CREDIT")}
    BY <1>5, Zenon DEF Writes, Actions
  <2>2. IsFiniteSet(Writes(w))
    <3>1. IsFiniteSet({Txn(w), Entry(w, "DEBIT")})
      BY <1>2, Zenon
    <3>2. IsFiniteSet({Txn(w), Entry(w, "DEBIT")} \cup {Entry(w, "CREDIT")})
      BY <3>1, FS_AddElement
    <3>3. Writes(w) = {Txn(w), Entry(w, "DEBIT")} \cup {Entry(w, "CREDIT")}
      BY <2>1
    <3> QED
      BY <3>2, <3>3
  <2>3. ASSUME NEW row \in Writes(w) PROVE row.by = w
    BY <1>3, <2>1, <2>3
  <2> QED
    BY <2>2, <2>3
<1>6. CASE Job[w].kind = "REGISTER"
  <2>1. Writes(w) = {UserRow(w)}
    BY <1>6, Zenon DEF Writes, Actions
  <2> QED
    BY <1>2, <1>3, <2>1, Zenon
<1>7. CASE Job[w].kind \in Actions
  <2>1. Writes(w) = {AuditRow(w)}
    BY <1>7, Zenon DEF Writes, Actions
  <2> QED
    BY <1>2, <1>3, <2>1, Zenon
<1> QED
  BY <1>1, <1>4, <1>5, <1>6, <1>7 DEF Kinds, Types

\* What a query sees is finite, is written by those who have committed, and only grows.
LEMMA RowsFinite ==
    ASSUME NEW W, W \subseteq Writers, NEW q
    PROVE  IsFiniteSet(RowsOf(W, q)) /\ Cardinality(RowsOf(W, q)) \in Nat
<1> DEFINE f == [w \in W |-> Writes(w)]
<1> DEFINE T == {Writes(w) : w \in W}
<1>1. IsFiniteSet(W)
  BY ListingAssumption, FS_Subset
<1>2. f \in Surjection(W, T)
  BY DEF Surjection
<1>3. IsFiniteSet(T)
  BY <1>1, <1>2, FS_Surjection
<1>4. \A t \in T : IsFiniteSet(t)
  BY WritesFacts
<1> HIDE DEF T
<1>5. IsFiniteSet(UNION T)
  BY <1>3, <1>4, FS_UNION
<1>6. RowsOf(W, q) \in SUBSET (UNION T)
  BY DEF RowsOf, T
<1>7. IsFiniteSet(RowsOf(W, q))
  BY <1>5, <1>6, FS_Subset
<1> QED
  BY <1>7, FS_CardinalityType

LEMMA RowsBy ==
    ASSUME NEW W, W \subseteq Writers, NEW q, NEW row \in RowsOf(W, q)
    PROVE  row.by \in W
BY WritesFacts DEF RowsOf

LEMMA RowsGrow ==
    ASSUME NEW V, NEW W, V \subseteq W, NEW q
    PROVE  RowsOf(V, q) \subseteq RowsOf(W, q)
BY DEF RowsOf

-----------------------------------------------------------------------------
(* Places.                                                                   *)

\* Rows ahead of a row in every order of the list.
Ahead(q, row) == {other \in Matching(q) : created[other.by] > created[row.by]}

LEMMA AheadFinite ==
    ASSUME committed \subseteq Writers, NEW q, NEW row
    PROVE  IsFiniteSet(Ahead(q, row)) /\ Cardinality(Ahead(q, row)) \in Nat
<1>1. IsFiniteSet(Matching(q))
  BY RowsFinite DEF Matching
<1>2. Ahead(q, row) \in SUBSET Matching(q)
  BY DEF Ahead
<1>3. IsFiniteSet(Ahead(q, row))
  BY <1>1, <1>2, FS_Subset
<1> QED
  BY <1>3, FS_CardinalityType

\* A row of the list is not ahead of itself.
LEMMA AheadBelow ==
    ASSUME TypeOK, NEW q, NEW row \in Matching(q)
    PROVE  Cardinality(Ahead(q, row)) + 1 <= Cardinality(Matching(q))
<1>1. committed \subseteq Writers
  BY DEF TypeOK
<1>2. IsFiniteSet(Matching(q)) /\ Cardinality(Matching(q)) \in Nat
  BY <1>1, RowsFinite DEF Matching
<1>3. row.by \in Writers /\ created[row.by] \in Int
  BY <1>1, RowsBy DEF Matching, TypeOK
<1>4. Ahead(q, row) \in SUBSET (Matching(q) \ {row})
  BY <1>3 DEF Ahead
<1>5. /\ IsFiniteSet(Matching(q) \ {row})
      /\ Cardinality(Matching(q) \ {row}) = Cardinality(Matching(q)) - 1
  BY <1>2, FS_RemoveElement
<1>6. Cardinality(Ahead(q, row)) <= Cardinality(Matching(q) \ {row})
  BY <1>4, <1>5, FS_Subset
<1>7. Cardinality(Ahead(q, row)) \in Nat
  BY <1>1, AheadFinite
<1> QED
  BY <1>2, <1>5, <1>6, <1>7

\* An order of a finite list uses every place.
LEMMA RanksOnto ==
    ASSUME NEW S, IsFiniteSet(S), NEW rank \in Ranks(S), NEW i \in 0..(Cardinality(S) - 1)
    PROVE  \E x \in S : rank[x] = i
<1> DEFINE n == Cardinality(S)
<1> DEFINE P == 0..(n - 1)
<1>1. n \in Nat
  BY FS_CardinalityType
<1>2. IsFiniteSet(P) /\ Cardinality(P) = n
  <2>1. 0 \in Int /\ n - 1 \in Int
    BY <1>1
  <2>2. IsFiniteSet(P) /\ Cardinality(P) = IF 0 > n - 1 THEN 0 ELSE (n - 1) - 0 + 1
    BY <2>1, FS_Interval
  <2> QED
    BY <1>1, <2>2
<1>3. rank \in Injection(S, P)
  BY DEF Ranks, Injection, IsInjective
<1>4. rank \in Surjection(S, P)
  BY <1>2, <1>3, FS_Injection
<1> QED
  BY <1>4 DEF Surjection

\* The place of an untied row is the number of rows ahead of it.
LEMMA RankIsAhead ==
    ASSUME TypeOK, NEW q, NEW rank \in Ranks(Matching(q)), NEW row \in Matching(q), Untied(q, row)
    PROVE  rank[row] = Cardinality(Ahead(q, row))
<1> DEFINE S == Matching(q)
<1> DEFINE A == Ahead(q, row)
<1> DEFINE n == Cardinality(S)
<1> DEFINE P == 0..(rank[row] - 1)
<1>1. committed \subseteq Writers
  BY DEF TypeOK
<1>2. IsFiniteSet(S) /\ n \in Nat
  BY <1>1, RowsFinite DEF Matching
<1>3. \A x \in S : rank[x] \in 0..(n - 1) /\ created[x.by] \in Int
  BY <1>1, RowsBy DEF Ranks, Matching, TypeOK
<1>4. \A x \in S : x \in A <=> rank[x] < rank[row]
  <2> SUFFICES ASSUME NEW x \in S PROVE x \in A <=> rank[x] < rank[row]
    OBVIOUS
  <2>1. CASE x = row
    BY <1>3, <2>1 DEF Ahead
  <2>2. CASE x # row
    <3>1. created[x.by] # created[row.by]
      BY <2>2 DEF Untied
    <3>2. /\ created[x.by] > created[row.by] => rank[x] < rank[row]
          /\ created[row.by] > created[x.by] => rank[row] < rank[x]
      BY DEF Ranks
    <3> QED
      BY <1>3, <3>1, <3>2 DEF Ahead
  <2> QED
    BY <2>1, <2>2
<1> DEFINE f == [x \in A |-> rank[x]]
<1>5. f \in Injection(A, P)
  <2>1. A \subseteq S
    BY DEF Ahead
  <2>2. \A x \in A : f[x] \in P
    BY <1>2, <1>3, <1>4, <2>1
  <2>3. \A x, y \in A : f[x] = f[y] => x = y
    BY <2>1 DEF Ranks
  <2> QED
    BY <2>2, <2>3 DEF Injection, IsInjective
<1>6. f \in Surjection(A, P)
  <2> SUFFICES ASSUME NEW i \in P PROVE \E x \in A : f[x] = i
    BY <1>5 DEF Injection, Surjection
  <2>1. i \in 0..(n - 1) /\ i < rank[row]
    BY <1>2, <1>3
  <2>2. PICK x \in S : rank[x] = i
    BY <1>2, <2>1, RanksOnto
  <2> QED
    BY <1>4, <2>1, <2>2
<1>7. IsFiniteSet(P) /\ Cardinality(P) = rank[row]
  <2>1. rank[row] \in Nat
    BY <1>2, <1>3
  <2> DEFINE top == rank[row] - 1
  <2>2. 0 \in Int /\ top \in Int /\ P = 0..top
    BY <2>1
  <2> HIDE DEF top
  <2>3. IsFiniteSet(0..top) /\ Cardinality(0..top) = IF 0 > top THEN 0 ELSE top - 0 + 1
    BY ONLY <2>2, FS_Interval
  <2>4. rank[row] = 0 \/ 0 <= top
    BY <2>1 DEF top
  <2> QED
    BY <2>1, <2>2, <2>3, <2>4 DEF top
<1>8. Cardinality(A) = Cardinality(P)
  BY <1>5, <1>6, <1>7, FS_Injection
<1> QED
  BY <1>7, <1>8

-----------------------------------------------------------------------------
(* The invariant.                                                            *)

\* The first place that the pages read so far leave out.
Bound(r) == IF pc[r] \in {"count", "done"} THEN Offset(r) + limit[r] ELSE Offset(r)

Walks(r) == query[r].by = All /\ (pc[r] \in {"wallet", "page", "count"} \/ answer[r] = "ok")

\* Rows that had committed when a walk began and that it has not shown.
Unseen(r) == RowsOf(since[r], query[r]) \ seen[r]

\* What a walk has not shown lies beyond the pages it has read.  No walk from page 1 has gone
\* past an offset that wraps around: its page there is refused.
PlaceInv(r) ==
    Walks(r) =>
        /\ page[r] >= 1 /\ limit[r] \in 1..MaxLimit
        /\ since[r] # {} => Bound(r) < Half32 + limit[r]
        /\ \A row \in Unseen(r) :
              Untied(query[r], row) => Bound(r) <= Cardinality(Ahead(query[r], row))

\* And what it has shown lies within them, unless others have committed.
SeenInv(r) ==
    RowsOf(since[r], query[r]) = Matching(query[r]) =>
        /\ \A row \in seen[r] :
              Untied(query[r], row) => Cardinality(Ahead(query[r], row)) < Bound(r)
        /\ \A row \in repeated[r] : ~Untied(query[r], row)

\* Totals are counted after their pages.
TotalInv(r) ==
    /\ pc[r] = "count" /\ items[r] # {} /\ Offset(r) < Half32 =>
          Offset(r) + Cardinality(items[r]) <= Cardinality(Matching(query[r]))
    /\ ListAnswered(r) =>
          /\ items[r] # {} /\ Offset(r) < Half32 => Offset(r) + Cardinality(items[r]) <= total[r]
          /\ \A row \in Unseen(r) : Untied(query[r], row) => Offset(r) + limit[r] < total[r]

EntriesOf(w) == {row \in Writes(w) : row.table = "ledger_entries"}

\* The path of a reader through its statements.
PathInv(r) ==
    /\ pc[r] = "done" <=> answer[r] # "none"
    /\ pc[r] \in {"idle", "wallet", "find", "entries"} => seen[r] = {} /\ repeated[r] = {}
    /\ pc[r] \in {"page", "count"} => query[r].by = All
    /\ pc[r] \in {"find", "entries"} => query[r].by \in Writers
    /\ query[r].by # All => query[r].by \in Writers
    /\ pc[r] = "entries" => query[r].by \in committed
    /\ answer[r] = "ok" /\ query[r].by # All => items[r] = EntriesOf(query[r].by)

ReaderInv(r) == PlaceInv(r) /\ SeenInv(r) /\ TotalInv(r) /\ PathInv(r)

ShapeInv ==
    /\ DOMAIN query = Readers /\ DOMAIN items = Readers
    /\ DOMAIN seen = Readers /\ DOMAIN repeated = Readers /\ DOMAIN since = Readers

IInv ==
    /\ TypeOK /\ ShapeInv
    /\ \A r \in Readers : ReaderInv(r)

LEMMA OffsetInt ==
    ASSUME TypeOK, NEW r \in Readers
    PROVE  Offset(r) \in Int /\ limit[r] \in Nat /\ Bound(r) \in Int
<1>1. page[r] \in Nat /\ limit[r] \in Nat
  BY DEF TypeOK
<1>2. Offset(r) \in Int
  BY <1>1 DEF Offset
<1> QED
  BY <1>1, <1>2 DEF Bound

\* An int32 keeps what fits in it; the numbers after those become negative.
LEMMA Int32Facts ==
    ASSUME NEW n \in Nat
    PROVE  /\ Int32(n) \in Int
           /\ n < Half32 => Int32(n) = n
           /\ n >= Half32 /\ n < 2 * Half32 => Int32(n) < 0
<1> DEFINE h == Half32
<1> DEFINE m == n + h
<1>1. h \in Nat /\ h > 0 /\ m \in Nat /\ 2 * h \in Nat /\ 2 * h > 0
  BY ListingAssumption
<1>2. Int32(n) = (m % (2 * h)) - h
  BY DEF Int32
<1>3. m % (2 * h) \in Nat
  BY <1>1
<1>4. CASE n < h
  <2>1. m % (2 * h) = m
    BY <1>1, <1>4
  <2> QED
    BY <1>1, <1>2, <1>4, <2>1
<1>5. CASE n >= h /\ n < 2 * h
  <2>1. m % (2 * h) = m - 2 * h
    BY <1>1, <1>5
  <2> QED
    BY <1>1, <1>2, <1>5, <2>1
<1> QED
  BY <1>1, <1>2, <1>3, <1>4, <1>5

LEMMA ItemsFinite ==
    ASSUME TypeOK, NEW r \in Readers
    PROVE  Cardinality(items[r]) \in Nat
<1> DEFINE f == [w \in committed |-> Writes(w)]
<1> DEFINE T == {Writes(w) : w \in committed}
<1>1. IsFiniteSet(committed) /\ committed \subseteq Writers
  BY ListingAssumption, FS_Subset DEF TypeOK
<1>2. f \in Surjection(committed, T)
  BY DEF Surjection
<1>3. IsFiniteSet(T)
  BY <1>1, <1>2, FS_Surjection
<1>4. \A t \in T : IsFiniteSet(t)
  BY <1>1, WritesFacts
<1>5. items[r] \in SUBSET (UNION T)
  BY DEF TypeOK
<1> HIDE DEF T
<1>6. IsFiniteSet(items[r])
  BY <1>3, <1>4, <1>5, FS_UNION, FS_Subset
<1> QED
  BY <1>6, FS_CardinalityType

LEMMA InitIInv == Init => IInv
<1> SUFFICES ASSUME Init PROVE IInv
  OBVIOUS
<1> USE ListingAssumption DEF Init
<1>1. TypeOK
  BY DEF TypeOK
<1>2. ASSUME NEW r \in Readers PROVE ReaderInv(r)
  <2>1. PlaceInv(r) /\ TotalInv(r)
    BY DEF PlaceInv, Walks, TotalInv, ListAnswered
  <2>2. SeenInv(r)
    BY DEF SeenInv
  <2>3. PathInv(r)
    BY DEF PathInv, NoQuery, Query
  <2> QED
    BY <2>1, <2>2, <2>3 DEF ReaderInv
<1> QED
  BY <1>1, <1>2 DEF IInv, ShapeInv

-----------------------------------------------------------------------------
(* Steps of writers.                                                         *)

readers == <<pc, query, page, limit, items, total, answer, history>>

\* Rows are added behind or ahead of those that are there, and ties stay.
LEMMA Grows ==
    ASSUME TypeOK, TypeOK', committed \subseteq committed',
           \A w \in committed : created'[w] = created[w], NEW q
    PROVE  /\ Matching(q) \subseteq Matching(q)'
           /\ Cardinality(Matching(q)) \in Nat /\ Cardinality(Matching(q)') \in Nat
           /\ Cardinality(Matching(q)) <= Cardinality(Matching(q)')
           /\ \A row \in Matching(q) :
                 /\ Untied(q, row)' => Untied(q, row)
                 /\ Cardinality(Ahead(q, row)) \in Nat /\ Cardinality(Ahead(q, row)') \in Nat
                 /\ Cardinality(Ahead(q, row)) <= Cardinality(Ahead(q, row)')
                 /\ Matching(q)' = Matching(q) =>
                       /\ Untied(q, row) => Untied(q, row)'
                       /\ Ahead(q, row)' = Ahead(q, row)
<1>1. committed \subseteq Writers /\ committed' \subseteq Writers
  BY DEF TypeOK
<1>2. Matching(q) \subseteq Matching(q)'
  BY RowsGrow DEF Matching
<1>3. /\ IsFiniteSet(Matching(q)) /\ IsFiniteSet(Matching(q)')
      /\ Cardinality(Matching(q)) \in Nat /\ Cardinality(Matching(q)') \in Nat
  BY <1>1, RowsFinite DEF Matching
<1>4. Cardinality(Matching(q)) <= Cardinality(Matching(q)')
  BY <1>2, <1>3, FS_Subset
<1>5. \A x \in Matching(q) : created'[x.by] = created[x.by]
  BY <1>1, RowsBy DEF Matching
<1>6. ASSUME NEW row \in Matching(q)
      PROVE  /\ Untied(q, row)' => Untied(q, row)
             /\ Cardinality(Ahead(q, row)) \in Nat /\ Cardinality(Ahead(q, row)') \in Nat
             /\ Cardinality(Ahead(q, row)) <= Cardinality(Ahead(q, row)')
             /\ Matching(q)' = Matching(q) =>
                   /\ Untied(q, row) => Untied(q, row)'
                   /\ Ahead(q, row)' = Ahead(q, row)
  <2>1. Untied(q, row)' => Untied(q, row)
    BY <1>2, <1>5, <1>6 DEF Untied
  <2>2. Ahead(q, row) \in SUBSET (Ahead(q, row)')
    BY <1>2, <1>5, <1>6 DEF Ahead
  <2>3. IsFiniteSet(Ahead(q, row)')
    <3>1. Ahead(q, row)' \in SUBSET (Matching(q)')
      BY DEF Ahead
    <3> QED
      BY <1>3, <3>1, FS_Subset
  <2>4. Cardinality(Ahead(q, row)) <= Cardinality(Ahead(q, row)')
    BY <2>2, <2>3, FS_Subset
  <2>5. Cardinality(Ahead(q, row)) \in Nat /\ Cardinality(Ahead(q, row)') \in Nat
    BY <1>1, <2>3, AheadFinite, FS_CardinalityType
  <2>6. Matching(q)' = Matching(q) => (Untied(q, row) => Untied(q, row)') /\ Ahead(q, row)' = Ahead(q, row)
    BY <1>5, <1>6 DEF Untied, Ahead
  <2> QED
    BY <2>1, <2>4, <2>5, <2>6
<1> QED
  BY <1>2, <1>3, <1>4, <1>6

LEMMA WriterStep ==
    ASSUME IInv, TypeOK', committed \subseteq committed',
           \A w \in committed : created'[w] = created[w], UNCHANGED readers
    PROVE  IInv'
<1> SUFFICES ASSUME NEW r \in Readers PROVE ReaderInv(r)'
  BY DEF IInv, ShapeInv, readers, history
<1> USE DEF readers, history
<1> DEFINE q == query[r]
<1>1. TypeOK /\ PlaceInv(r) /\ SeenInv(r) /\ TotalInv(r) /\ PathInv(r)
  BY DEF IInv, ReaderInv
<1>2. PICK k : k = q
  OBVIOUS
<1>3. query'[r] = k /\ Offset(r)' = Offset(r) /\ Bound(r)' = Bound(r) /\ Unseen(r)' = Unseen(r)
  BY <1>2 DEF Offset, Bound, Unseen
<1>4. Matching(k) \subseteq Matching(k)' /\ Cardinality(Matching(k)) <= Cardinality(Matching(k)')
      /\ Cardinality(Matching(k)) \in Nat /\ Cardinality(Matching(k)') \in Nat
  BY <1>1, Grows
<1>5. ASSUME NEW row \in Matching(k)
      PROVE  /\ Untied(k, row)' => Untied(k, row)
             /\ Cardinality(Ahead(k, row)) \in Nat /\ Cardinality(Ahead(k, row)') \in Nat
             /\ Cardinality(Ahead(k, row)) <= Cardinality(Ahead(k, row)')
             /\ Matching(k)' = Matching(k) =>
                   /\ Untied(k, row) => Untied(k, row)'
                   /\ Ahead(k, row)' = Ahead(k, row)
  BY <1>1, Grows
<1>6. RowsOf(since[r], k) \subseteq Matching(k) /\ Unseen(r) \subseteq Matching(k) /\ seen[r] \subseteq Matching(k)
      /\ repeated[r] \subseteq seen[r]
  BY <1>1, <1>2, RowsGrow DEF TypeOK, Matching, Unseen
<1>7. Offset(r) \in Int /\ limit[r] \in Nat /\ Bound(r) \in Int
  BY <1>1, OffsetInt
<1>8. PlaceInv(r)'
  <2> SUFFICES ASSUME Walks(r), NEW row \in Unseen(r), Untied(k, row)'
               PROVE  Bound(r) <= Cardinality(Ahead(k, row)')
    BY <1>1, <1>2, <1>3 DEF PlaceInv, Walks
  <2>1. Untied(k, row) /\ row \in Matching(k)
    BY <1>5, <1>6
  <2>2. Bound(r) <= Cardinality(Ahead(k, row))
    BY <1>1, <1>2, <2>1 DEF PlaceInv
  <2> QED
    BY <1>5, <1>7, <2>1, <2>2
<1>9. SeenInv(r)'
  <2> SUFFICES ASSUME RowsOf(since[r], k) = Matching(k)'
               PROVE  /\ \A row \in seen[r] : Untied(k, row)' => Cardinality(Ahead(k, row)') < Bound(r)
                      /\ \A row \in repeated[r] : ~Untied(k, row)'
    BY <1>3 DEF SeenInv
  <2>1. Matching(k)' = Matching(k) /\ RowsOf(since[r], k) = Matching(k)
    BY <1>4, <1>6
  <2>2. /\ \A row \in seen[r] : Untied(k, row) => Cardinality(Ahead(k, row)) < Bound(r)
        /\ \A row \in repeated[r] : ~Untied(k, row)
    BY <1>1, <1>2, <2>1 DEF SeenInv
  <2>3. ASSUME NEW row \in seen[r], Untied(k, row)' PROVE Cardinality(Ahead(k, row)') < Bound(r)
    BY <1>5, <1>6, <2>1, <2>2, <2>3
  <2>4. ASSUME NEW row \in repeated[r] PROVE ~Untied(k, row)'
    BY <1>5, <1>6, <2>2
  <2> QED
    BY <2>3, <2>4
<1>10. TotalInv(r)'
  <2>1. pc[r] = "count" /\ items[r] # {} /\ Offset(r) < Half32 =>
          Offset(r) + Cardinality(items[r]) <= Cardinality(Matching(k)')
    <3> SUFFICES ASSUME pc[r] = "count", items[r] # {}, Offset(r) < Half32
                 PROVE  Offset(r) + Cardinality(items[r]) <= Cardinality(Matching(k)')
      OBVIOUS
    <3>1. Offset(r) + Cardinality(items[r]) <= Cardinality(Matching(k))
      BY <1>1, <1>2 DEF TotalInv
    <3>2. Cardinality(items[r]) \in Nat
      BY <1>1, ItemsFinite
    <3> QED
      BY <1>4, <1>7, <3>1, <3>2
  <2>2. ListAnswered(r)' <=> ListAnswered(r)
    BY DEF ListAnswered
  <2>3. ListAnswered(r) =>
          /\ items[r] # {} /\ Offset(r) < Half32 => Offset(r) + Cardinality(items[r]) <= total[r]
          /\ \A row \in Unseen(r) : Untied(k, row) => Offset(r) + limit[r] < total[r]
    BY <1>1, <1>2 DEF TotalInv
  <2>4. \A row \in Unseen(r) : Untied(k, row)' => Untied(k, row)
    BY <1>5, <1>6
  <2> QED
    BY <1>3, <2>1, <2>2, <2>3, <2>4 DEF TotalInv
<1>11. PathInv(r)'
  BY <1>1, <1>3 DEF PathInv
<1> QED
  BY <1>8, <1>9, <1>10, <1>11 DEF ReaderInv

LEMMA BeginIInv ==
    ASSUME NEW w \in Writers, Begin(w), IInv
    PROVE  IInv'
<1> USE ListingAssumption DEF Begin
<1>1. TypeOK
  BY DEF IInv
<1>2. PICK t \in {now, now + 1} \ {0} : now' = t /\ created' = [created EXCEPT ![w] = t]
  OBVIOUS
<1>3. now' \in Nat /\ now <= now' /\ created' \in [Writers -> 0..now']
  BY <1>1, <1>2 DEF TypeOK
<1>4. \A v \in committed : created'[v] = created[v] /\ created'[v] > 0
  BY <1>1, <1>2 DEF TypeOK
<1>5. \A q : Matching(q)' = Matching(q)
  BY DEF Matching
<1>6. TypeOK'
  BY <1>1, <1>3, <1>4, <1>5 DEF TypeOK, history
<1> QED
  BY <1>4, <1>6, WriterStep DEF readers

LEMMA CommitIInv ==
    ASSUME NEW w \in Writers, Commit(w), IInv
    PROVE  IInv'
<1> USE ListingAssumption DEF Commit
<1>1. TypeOK
  BY DEF IInv
<1>2. committed \subseteq committed' /\ UNCHANGED created
  OBVIOUS
<1>3. \A q : Matching(q) \subseteq Matching(q)'
  BY <1>2, RowsGrow DEF Matching
<1>4. \A r \in Readers : items'[r] \subseteq UNION {Writes(v) : v \in committed'}
  BY <1>1, <1>2 DEF TypeOK
<1>5. created[w] > 0
  BY <1>1 DEF TypeOK
<1>6. committed' \subseteq {v \in Writers : created'[v] > 0}
  BY <1>1, <1>5 DEF TypeOK
<1>7. \A r \in Readers : seen'[r] \subseteq Matching(query[r])' /\ since'[r] \subseteq committed'
  BY <1>1, <1>2, <1>3 DEF TypeOK, history
<1>8. TypeOK'
  BY <1>1, <1>4, <1>6, <1>7 DEF TypeOK, history
<1> QED
  BY <1>1, <1>2, <1>8, WriterStep DEF readers

-----------------------------------------------------------------------------
(* Steps of readers.                                                         *)

LEMMA SameDb ==
    ASSUME UNCHANGED db, NEW q
    PROVE  /\ Matching(q)' = Matching(q)
           /\ \A row : Ahead(q, row)' = Ahead(q, row) /\ (Untied(q, row)' <=> Untied(q, row))
BY DEF db, Matching, Ahead, Untied

\* What concerns one reader.
SameReader(c) ==
    /\ pc'[c] = pc[c] /\ query'[c] = query[c] /\ page'[c] = page[c] /\ limit'[c] = limit[c]
    /\ items'[c] = items[c] /\ total'[c] = total[c] /\ answer'[c] = answer[c]
    /\ seen'[c] = seen[c] /\ repeated'[c] = repeated[c] /\ since'[c] = since[c]

LEMMA ReaderStep ==
    ASSUME IInv, NEW r \in Readers, UNCHANGED db,
           \A c \in Readers \ {r} : SameReader(c),
           ShapeInv', TypeOK', ReaderInv(r)'
    PROVE  IInv'
<1> SUFFICES ASSUME NEW c \in Readers \ {r} PROVE ReaderInv(c)'
  BY DEF IInv
<1>1. PlaceInv(c) /\ SeenInv(c) /\ TotalInv(c) /\ PathInv(c) /\ SameReader(c)
  BY DEF IInv, ReaderInv
<1>2. PICK k : k = query[c]
  OBVIOUS
<1>3. query'[c] = k /\ Offset(c)' = Offset(c) /\ Bound(c)' = Bound(c) /\ Unseen(c)' = Unseen(c)
      /\ (Walks(c)' <=> Walks(c)) /\ (ListAnswered(c)' <=> ListAnswered(c))
  BY <1>1, <1>2 DEF Offset, Bound, Unseen, Walks, ListAnswered, SameReader
<1>4. /\ Matching(k)' = Matching(k)
      /\ \A row : Ahead(k, row)' = Ahead(k, row) /\ (Untied(k, row)' <=> Untied(k, row))
  BY SameDb
<1>5. PlaceInv(c)'
  BY <1>1, <1>2, <1>3, <1>4 DEF PlaceInv, SameReader
<1>6. SeenInv(c)'
  BY <1>1, <1>2, <1>3, <1>4 DEF SeenInv, SameReader
<1>7. TotalInv(c)'
  BY <1>1, <1>2, <1>3, <1>4 DEF TotalInv, SameReader
<1>8. PathInv(c)'
  BY <1>1 DEF PathInv, SameReader, db
<1> QED
  BY <1>5, <1>6, <1>7, <1>8 DEF ReaderInv

\* A valid pair of parameters is taken as it is.
LEMMA Binding ==
    ASSUME NEW asked \in Asked
    PROVE  /\ asked[1] \in Nat /\ asked[2] \in Nat
           /\ Valid(asked) =>
                 asked[1] >= 1 /\ asked[2] \in 1..MaxLimit /\ SetDefaults(asked) = asked
<1>1. asked \in Nat \X Nat
  BY ListingAssumption
<1>2. asked = <<asked[1], asked[2]>> /\ asked[1] \in Nat /\ asked[2] \in Nat
  BY <1>1
<1>3. ASSUME Valid(asked) PROVE asked[1] >= 1 /\ asked[2] \in 1..MaxLimit
  BY <1>2, <1>3, ListingAssumption DEF Valid
<1>4. ASSUME Valid(asked) PROVE SetDefaults(asked) = asked
  <2>1. ~(asked[1] <= 0) /\ ~(asked[2] <= 0)
    BY <1>2, <1>3, <1>4
  <2> QED
    BY <1>2, <2>1 DEF SetDefaults
<1> QED
  BY <1>2, <1>3, <1>4

LEMMA ListIInv ==
    ASSUME NEW r \in Readers, NEW q, q.by = All, NEW first \in {"wallet", "page"},
           List(r, q, first), IInv
    PROVE  IInv'
<1> USE ListingAssumption DEF List, Finish, db
<1>1. TypeOK /\ ShapeInv /\ PathInv(r)
  BY DEF IInv, ReaderInv
<1>2. PICK asked \in Asked :
        LET bound == IF Valid(asked) THEN SetDefaults(asked) ELSE asked IN
        /\ page' = [page EXCEPT ![r] = bound[1]]
        /\ limit' = [limit EXCEPT ![r] = bound[2]]
        /\ since' = [since EXCEPT ![r] = IF bound[1] = 1 THEN committed ELSE {}]
        /\ IF Valid(asked)
             THEN pc' = [pc EXCEPT ![r] = first] /\ UNCHANGED answer
             ELSE Finish(r, "badRequest")
  OBVIOUS
<1>3. /\ page' = [page EXCEPT ![r] = asked[1]]
      /\ limit' = [limit EXCEPT ![r] = asked[2]]
      /\ since' = [since EXCEPT ![r] = IF asked[1] = 1 THEN committed ELSE {}]
  BY <1>2, Binding
<1>4. asked[1] \in Nat /\ asked[2] \in Nat /\ (Valid(asked) => asked[1] >= 1 /\ asked[2] \in 1..MaxLimit)
  BY Binding
<1>5. seen[r] = {} /\ repeated[r] = {} /\ answer[r] = "none" /\ pc[r] = "idle"
  BY <1>1 DEF PathInv
<1>6. /\ pc' \in [Readers -> {"idle", "wallet", "page", "count", "find", "entries", "done"}]
      /\ answer' \in [Readers -> {"none", "ok", "badRequest", "notFound", "forbidden", "error"}]
      /\ IF Valid(asked) THEN pc'[r] = first /\ answer'[r] = "none"
                         ELSE pc'[r] = "done" /\ answer'[r] = "badRequest"
      /\ \A c \in Readers \ {r} : pc'[c] = pc[c] /\ answer'[c] = answer[c]
  BY <1>1, <1>2, <1>5 DEF TypeOK
<1>7. /\ query' = [query EXCEPT ![r] = q]
      /\ UNCHANGED <<items, total, seen, repeated, now, created, committed>>
  OBVIOUS
<1>8. ShapeInv' /\ \A c \in Readers \ {r} : SameReader(c)
  BY <1>1, <1>3, <1>6, <1>7 DEF ShapeInv, SameReader, TypeOK
<1>9. query'[r] = q /\ page'[r] = asked[1] /\ limit'[r] = asked[2]
      /\ since'[r] = (IF asked[1] = 1 THEN committed ELSE {})
  BY <1>1, <1>3, <1>7 DEF ShapeInv, TypeOK
<1>10. TypeOK'
  <2>1. page' \in [Readers -> Nat] /\ limit' \in [Readers -> Nat]
    BY <1>1, <1>3, <1>4 DEF TypeOK
  <2>2. ASSUME NEW c \in Readers
        PROVE  /\ items'[c] \subseteq UNION {Writes(w) : w \in committed'}
               /\ repeated'[c] \subseteq seen'[c] /\ seen'[c] \subseteq Matching(query[c])'
               /\ since'[c] \subseteq committed'
    <3>1. CASE c = r
      BY <1>1, <1>5, <1>7, <1>9, <3>1 DEF TypeOK
    <3>2. CASE c # r
      <4>1. query'[c] = query[c] /\ since'[c] = since[c]
        BY <1>8, <3>2 DEF SameReader
      <4> QED
        BY <1>1, <1>7, <4>1 DEF TypeOK, Matching
    <3> QED
      BY <3>1, <3>2
  <2> QED
    BY <1>1, <1>6, <1>7, <2>1, <2>2 DEF TypeOK
<1>11. PlaceInv(r)'
  <2> SUFFICES ASSUME Walks(r)'
               PROVE  /\ page'[r] >= 1 /\ limit'[r] \in 1..MaxLimit
                      /\ since'[r] # {} => Bound(r)' < Half32 + limit'[r]
                      /\ \A row \in Unseen(r)' : Bound(r)' <= Cardinality(Ahead(q, row)')
    BY <1>9 DEF PlaceInv
  <2>1. Valid(asked)
    BY <1>6 DEF Walks
  <2>2. Bound(r)' = Offset(r)'
    BY <1>6, <2>1 DEF Bound
  <2>3. ASSUME NEW row \in Unseen(r)' PROVE Bound(r)' <= Cardinality(Ahead(q, row)')
    <3>1. asked[1] = 1
      <4>1. row \in RowsOf(since'[r], q)
        BY <1>9, <2>3 DEF Unseen
      <4> QED
        BY <1>9, <4>1 DEF RowsOf
    <3>2. Offset(r)' = 0
      BY <1>4, <1>9, <3>1 DEF Offset
    <3>3. Cardinality(Ahead(q, row)') \in Nat
      <4>1. committed' \subseteq Writers
        BY <1>10 DEF TypeOK
      <4>2. Ahead(q, row)' = Ahead(q, row)
        BY SameDb
      <4> QED
        BY <1>7, <4>1, <4>2, AheadFinite
    <3> QED
      BY <2>2, <3>2, <3>3
  <2>4. ASSUME since'[r] # {} PROVE Bound(r)' < Half32 + limit'[r]
    <3>1. asked[1] = 1
      BY <1>9, <2>4
    <3>2. Offset(r)' = 0
      BY <1>4, <1>9, <3>1 DEF Offset
    <3> QED
      BY <1>4, <1>9, <2>1, <2>2, <3>2
  <2> QED
    BY <1>4, <1>9, <2>1, <2>3, <2>4
<1>12. SeenInv(r)'
  BY <1>5, <1>7 DEF SeenInv
<1>13. TotalInv(r)'
  BY <1>6 DEF TotalInv, ListAnswered
<1>14. PathInv(r)'
  BY <1>5, <1>6, <1>7, <1>9 DEF PathInv
<1> QED
  BY <1>8, <1>10, <1>11, <1>12, <1>13, <1>14, ReaderStep DEF ReaderInv

LEMMA DetailIInv ==
    ASSUME NEW r \in Readers, NEW q, q.by \in Writers, NEW first \in {"wallet", "find"},
           Detail(r, q, first), IInv
    PROVE  IInv'
<1> USE ListingAssumption DEF Detail, db, history
<1>1. TypeOK /\ ShapeInv /\ PathInv(r)
  BY DEF IInv, ReaderInv
<1>2. seen[r] = {} /\ repeated[r] = {} /\ answer[r] = "none" /\ pc'[r] = first /\ query'[r] = q
  BY <1>1 DEF PathInv, TypeOK, ShapeInv
<1>3. ShapeInv' /\ \A c \in Readers \ {r} : SameReader(c)
  BY <1>1 DEF ShapeInv, SameReader, TypeOK
<1>4. TypeOK'
  <2>1. pc' \in [Readers -> {"idle", "wallet", "page", "count", "find", "entries", "done"}]
    BY <1>1 DEF TypeOK
  <2>2. ASSUME NEW c \in Readers PROVE seen'[c] \subseteq Matching(query[c])'
    <3>1. CASE c = r
      BY <1>2, <3>1
    <3>2. CASE c # r
      <4>1. query'[c] = query[c]
        BY <1>3, <3>2 DEF SameReader
      <4> QED
        BY <1>1, <4>1 DEF TypeOK, Matching
    <3> QED
      BY <3>1, <3>2
  <2> QED
    BY <1>1, <2>1, <2>2 DEF TypeOK
<1>5. PlaceInv(r)' /\ TotalInv(r)'
  BY <1>2 DEF PlaceInv, Walks, TotalInv, ListAnswered
<1>6. SeenInv(r)'
  BY <1>2 DEF SeenInv
<1>7. PathInv(r)'
  BY <1>1, <1>2 DEF PathInv
<1> QED
  BY <1>3, <1>4, <1>5, <1>6, <1>7, ReaderStep DEF ReaderInv

\* A step of a reader that changes where it is and what it answers, and nothing else.
LEMMA MoveIInv ==
    ASSUME IInv, NEW r \in Readers, UNCHANGED <<db, query, page, limit, items, total, history>>,
           NEW to \in {"page", "find", "entries", "done"}, pc' = [pc EXCEPT ![r] = to],
           NEW status \in {"none", "notFound", "forbidden", "error"},
           answer' = [answer EXCEPT ![r] = status],
           pc[r] # "done", pc[r] # "idle", to = "done" <=> status # "none",
           to = "page" => pc[r] = "wallet" /\ query[r].by = All,
           to \in {"find", "entries"} =>
              /\ pc[r] \in {"wallet", "find"} /\ query[r].by # All
              /\ to = "entries" => query[r].by \in committed
    PROVE  IInv'
<1> USE ListingAssumption DEF db, history
<1>1. TypeOK /\ ShapeInv /\ PlaceInv(r) /\ SeenInv(r) /\ TotalInv(r) /\ PathInv(r)
  BY DEF IInv, ReaderInv
<1>2. pc'[r] = to /\ answer'[r] = status
  BY <1>1 DEF TypeOK
<1>3. ShapeInv' /\ \A c \in Readers \ {r} : SameReader(c)
  BY <1>1 DEF ShapeInv, SameReader, TypeOK
<1>4. TypeOK'
  <2>1. /\ pc' \in [Readers -> {"idle", "wallet", "page", "count", "find", "entries", "done"}]
        /\ answer' \in [Readers -> {"none", "ok", "badRequest", "notFound", "forbidden", "error"}]
    BY <1>1 DEF TypeOK
  <2>2. \A c \in Readers : Matching(query[c])' = Matching(query[c])
    BY DEF Matching
  <2> QED
    BY <1>1, <2>1, <2>2 DEF TypeOK
<1>5. PICK k : k = query[r]
  OBVIOUS
<1>6. /\ Matching(k)' = Matching(k)
      /\ \A row : Ahead(k, row)' = Ahead(k, row) /\ (Untied(k, row)' <=> Untied(k, row))
  BY SameDb
<1>7. Offset(r) \in Int /\ limit[r] \in Nat /\ Bound(r) \in Int
  BY <1>1, OffsetInt
<1>8. query'[r] = k /\ Unseen(r)' = Unseen(r) /\ Offset(r)' = Offset(r)
  BY <1>5 DEF Unseen, Offset
<1>9. PlaceInv(r)'
  <2> SUFFICES ASSUME Walks(r)' PROVE PlaceInv(r)'
    BY DEF PlaceInv
  <2>1. to = "page" /\ pc[r] = "wallet" /\ Walks(r)
    BY <1>2, <1>8 DEF Walks
  <2>2. Bound(r)' = Bound(r)
    BY <1>2, <1>8, <2>1 DEF Bound
  <2> QED
    BY <1>1, <1>5, <1>6, <1>8, <2>1, <2>2 DEF PlaceInv
<1>10. SeenInv(r)'
  <2> SUFFICES ASSUME RowsOf(since[r], k) = Matching(k)
               PROVE  /\ \A row \in seen[r] : Untied(k, row) => Cardinality(Ahead(k, row)) < Bound(r)'
                      /\ \A row \in repeated[r] : ~Untied(k, row)
    BY <1>6, <1>8 DEF SeenInv
  <2>1. /\ \A row \in seen[r] : Untied(k, row) => Cardinality(Ahead(k, row)) < Bound(r)
        /\ \A row \in repeated[r] : ~Untied(k, row)
    BY <1>1, <1>5 DEF SeenInv
  <2>2. seen[r] # {} => Bound(r) <= Bound(r)' /\ Bound(r)' \in Int
    BY <1>1, <1>2, <1>7, <1>8 DEF Bound, PathInv
  <2>3. ASSUME NEW row \in seen[r], Untied(k, row) PROVE Cardinality(Ahead(k, row)) < Bound(r)'
    <3>1. Cardinality(Ahead(k, row)) \in Nat
      BY <1>1, AheadFinite DEF TypeOK
    <3> QED
      BY <1>7, <2>1, <2>2, <2>3, <3>1
  <2> QED
    BY <2>1, <2>3
<1>11. TotalInv(r)'
  BY <1>2 DEF TotalInv, ListAnswered
<1>12. PathInv(r)'
  BY <1>1, <1>2 DEF PathInv
<1> QED
  BY <1>3, <1>4, <1>9, <1>10, <1>11, <1>12, ReaderStep DEF ReaderInv

LEMMA FindWalletIInv ==
    ASSUME NEW r \in Readers, FindWallet(r), IInv
    PROVE  IInv'
<1>1. TypeOK /\ PathInv(r)
  BY DEF IInv, ReaderInv
<1> DEFINE to == IF query[r].by = All THEN "page" ELSE "find"
<1>2. /\ to \in {"page", "find", "entries", "done"} /\ pc' = [pc EXCEPT ![r] = to]
      /\ answer' = [answer EXCEPT ![r] = "none"] /\ pc[r] = "wallet"
  <2>1. answer[r] = "none"
    BY <1>1 DEF PathInv, FindWallet
  <2> QED
    BY <1>1, <2>1 DEF FindWallet, TypeOK
<1>3. /\ to = "page" => query[r].by = All
      /\ to = "find" => query[r].by # All
      /\ to # "done" /\ to # "entries"
  OBVIOUS
<1>4. UNCHANGED <<db, query, page, limit, items, total, history>>
  BY DEF FindWallet
<1> HIDE DEF to
<1> QED
  BY <1>2, <1>3, <1>4, MoveIInv

\* What the SELECT of one transaction finds.
LEMMA FoundById ==
    ASSUME TypeOK, NEW w \in Writers, Matching(ById(w)) # {}
    PROVE  w \in committed
<1>1. PICK row \in Matching(ById(w)) : TRUE
  OBVIOUS
<1>2. row.by \in committed
  BY RowsBy DEF Matching, TypeOK
<1>3. w \in {All, row.by}
  BY DEF Matching, RowsOf, Meets, ById, Query
<1> QED
  BY <1>2, <1>3, ListingAssumption

LEMMA FindByIDIInv ==
    ASSUME NEW r \in Readers, FindByID(r), IInv
    PROVE  IInv'
<1>1. TypeOK /\ PathInv(r)
  BY DEF IInv, ReaderInv
<1>2. pc[r] = "find" /\ query[r].by \in Writers /\ answer[r] = "none" /\ query[r].by # All
  BY <1>1, ListingAssumption DEF PathInv, FindByID
<1>3. UNCHANGED <<db, query, page, limit, items, total, history>>
  BY DEF FindByID
<1>4. CASE pc' = [pc EXCEPT ![r] = "entries"] /\ UNCHANGED answer /\ Matching(ById(query[r].by)) # {}
  <2>1. query[r].by \in committed
    BY <1>1, <1>2, <1>4, FoundById
  <2>2. answer' = [answer EXCEPT ![r] = "none"]
    BY <1>1, <1>2, <1>4 DEF TypeOK
  <2> QED
    BY <1>2, <1>3, <1>4, <2>1, <2>2, MoveIInv
<1>5. CASE Finish(r, "notFound") \/ Finish(r, "forbidden")
  <2>1. ASSUME NEW status \in {"notFound", "forbidden"}, Finish(r, status) PROVE IInv'
    <3>1. pc' = [pc EXCEPT ![r] = "done"] /\ answer' = [answer EXCEPT ![r] = status]
      BY <2>1 DEF Finish
    <3> QED
      BY <1>2, <1>3, <3>1, MoveIInv
  <2> QED
    BY <1>5, <2>1
<1> QED
  BY <1>4, <1>5 DEF FindByID

LEMMA ReadFailsIInv ==
    ASSUME NEW r \in Readers, ReadFails(r), IInv
    PROVE  IInv'
<1>1. /\ pc' = [pc EXCEPT ![r] = "done"] /\ answer' = [answer EXCEPT ![r] = "error"]
      /\ pc[r] \notin {"idle", "done"}
      /\ UNCHANGED <<db, query, page, limit, items, total, history>>
  BY DEF ReadFails, Finish
<1> QED
  BY <1>1, MoveIInv

LEMMA RefusePageIInv ==
    ASSUME NEW r \in Readers, RefusePage(r), IInv
    PROVE  IInv'
<1>1. /\ pc' = [pc EXCEPT ![r] = "done"] /\ answer' = [answer EXCEPT ![r] = "error"]
      /\ pc[r] \notin {"idle", "done"}
      /\ UNCHANGED <<db, query, page, limit, items, total, history>>
  BY DEF RefusePage, Finish
<1> QED
  BY <1>1, MoveIInv

LEMMA FindPageIInv ==
    ASSUME NEW r \in Readers, FindPage(r), IInv
    PROVE  IInv'
<1> USE ListingAssumption DEF db
<1>1. TypeOK /\ ShapeInv /\ PlaceInv(r) /\ SeenInv(r) /\ TotalInv(r) /\ PathInv(r)
  BY DEF IInv, ReaderInv
<1>2. PICK k : k = query[r]
  OBVIOUS
<1> DEFINE M == Matching(k)
<1> DEFINE places == Skipped(r)..(Skipped(r) + limit[r] - 1)
<1>3. PICK rank \in Ranks(M) :
        LET shown == {row \in M : rank[row] \in places}
        IN  /\ items' = [items EXCEPT ![r] = shown]
            /\ seen' = [seen EXCEPT ![r] = @ \cup shown]
            /\ repeated' = [repeated EXCEPT ![r] = @ \cup (seen[r] \cap shown)]
  BY <1>2 DEF FindPage
<1> DEFINE shown == {row \in M : rank[row] \in places}
<1>4. /\ pc[r] = "page" /\ pc' = [pc EXCEPT ![r] = "count"]
      /\ UNCHANGED <<now, created, committed, query, page, limit, total, answer, since>>
  BY DEF FindPage
<1>5. /\ items'[r] = shown /\ seen'[r] = seen[r] \cup shown
      /\ repeated'[r] = repeated[r] \cup (seen[r] \cap shown) /\ pc'[r] = "count"
  BY <1>1, <1>3, <1>4 DEF ShapeInv, TypeOK
<1>6. ShapeInv' /\ \A c \in Readers \ {r} : SameReader(c)
  BY <1>1, <1>3, <1>4 DEF ShapeInv, SameReader, TypeOK
<1>7. committed \subseteq Writers /\ IsFiniteSet(M) /\ Cardinality(M) \in Nat
  BY <1>1, RowsFinite DEF TypeOK, Matching
<1>8. query[r].by = All /\ answer[r] = "none" /\ Walks(r)
  BY <1>1, <1>4 DEF PathInv, Walks
<1>9. /\ Offset(r) \in Nat /\ limit[r] \in Nat /\ page[r] \in Nat
      /\ page[r] >= 1 /\ limit[r] \in 1..MaxLimit /\ Half32 \in Nat /\ MaxLimit < Half32
  <2>1. page[r] \in Nat /\ page[r] >= 1 /\ limit[r] \in Nat /\ limit[r] \in 1..MaxLimit
    BY <1>1, <1>8 DEF PlaceInv, TypeOK
  <2>2. page[r] - 1 \in Nat
    BY <2>1
  <2> QED
    BY <2>1, <2>2 DEF Offset
<1>10. Bound(r) = Offset(r) /\ Bound(r)' = Offset(r) + limit[r] /\ Offset(r)' = Offset(r)
  BY <1>4, <1>5 DEF Bound, Offset
<1>10a. Skipped(r) \in Nat /\ (Offset(r) < Half32 => Skipped(r) = Offset(r))
  BY <1>9, Int32Facts DEF Skipped, FindPage
<1>10b. since[r] # {} => Offset(r) < Half32
  <2> SUFFICES ASSUME since[r] # {}, Offset(r) >= Half32 PROVE FALSE
    BY <1>9
  <2>1. Offset(r) < Half32 + limit[r]
    BY <1>1, <1>8, <1>10 DEF PlaceInv
  <2>2. Offset(r) < 2 * Half32
    BY <1>9, <2>1
  <2> QED
    BY <1>9, <1>10a, <2>2, Int32Facts DEF Skipped
<1>10c. M # {} /\ RowsOf(since[r], k) = M => since[r] # {}
  BY DEF RowsOf
<1>11. /\ Matching(k)' = M /\ query'[r] = k
       /\ \A row : Ahead(k, row)' = Ahead(k, row) /\ (Untied(k, row)' <=> Untied(k, row))
  BY <1>2, <1>4, SameDb
<1>12. \A row \in M : rank[row] \in 0..(Cardinality(M) - 1)
  BY DEF Ranks
<1>13. \A row \in M : Untied(k, row) => rank[row] = Cardinality(Ahead(k, row))
  BY <1>1, RankIsAhead
<1>14. seen[r] \subseteq M /\ RowsOf(since[r], k) \subseteq M
  BY <1>1, <1>2, RowsGrow DEF TypeOK, Matching
<1>15. TypeOK'
  <2>1. pc' \in [Readers -> {"idle", "wallet", "page", "count", "find", "entries", "done"}]
    BY <1>1, <1>4 DEF TypeOK
  <2>2. ASSUME NEW c \in Readers
        PROVE  /\ items'[c] \subseteq UNION {Writes(w) : w \in committed'}
               /\ repeated'[c] \subseteq seen'[c] /\ seen'[c] \subseteq Matching(query[c])'
               /\ since'[c] \subseteq committed'
    <3>1. CASE c = r
      <4>1. M \subseteq UNION {Writes(w) : w \in committed}
        BY DEF Matching, RowsOf
      <4> QED
        BY <1>1, <1>4, <1>5, <1>11, <1>14, <3>1, <4>1 DEF TypeOK
    <3>2. CASE c # r
      <4>1. SameReader(c)
        BY <1>6, <3>2
      <4>2. Matching(query[c])' = Matching(query[c])
        BY <1>4 DEF Matching
      <4> QED
        BY <1>1, <1>4, <4>1, <4>2 DEF TypeOK, SameReader
    <3> QED
      BY <3>1, <3>2
  <2> QED
    BY <1>1, <1>4, <2>1, <2>2 DEF TypeOK
<1>16. PlaceInv(r)'
  <2> SUFFICES ASSUME NEW row \in Unseen(r)', Untied(k, row)
               PROVE  Offset(r) + limit[r] <= Cardinality(Ahead(k, row))
    BY <1>4, <1>9, <1>10, <1>11, <1>10b DEF PlaceInv
  <2>1. row \in RowsOf(since[r], k) /\ row \notin seen[r] /\ row \notin shown
    BY <1>4, <1>5, <1>11 DEF Unseen
  <2>2. row \in M /\ rank[row] \notin places
    BY <1>14, <2>1
  <2>3. Offset(r) <= Cardinality(Ahead(k, row))
    BY <1>1, <1>2, <1>8, <1>10, <2>1 DEF PlaceInv, Unseen
  <2>4. rank[row] = Cardinality(Ahead(k, row)) /\ rank[row] \in Int
    BY <1>7, <1>12, <1>13, <2>2
  <2>5. Skipped(r) = Offset(r)
    <3>1. since[r] # {}
      BY <2>1 DEF RowsOf
    <3> QED
      BY <1>10a, <1>10b, <3>1
  <2> QED
    BY <1>9, <2>2, <2>3, <2>4, <2>5
<1>17. SeenInv(r)'
  <2> SUFFICES ASSUME RowsOf(since[r], k) = M
               PROVE  /\ \A row \in seen[r] \cup shown :
                            Untied(k, row) => Cardinality(Ahead(k, row)) < Offset(r) + limit[r]
                      /\ \A row \in repeated[r] \cup (seen[r] \cap shown) : ~Untied(k, row)
    BY <1>4, <1>5, <1>10, <1>11 DEF SeenInv
  <2>1. /\ \A row \in seen[r] : Untied(k, row) => Cardinality(Ahead(k, row)) < Offset(r)
        /\ \A row \in repeated[r] : ~Untied(k, row)
    BY <1>1, <1>2, <1>10 DEF SeenInv
  <2>2. ASSUME NEW row \in shown, Untied(k, row)
        PROVE  /\ Cardinality(Ahead(k, row)) \in Int
               /\ Offset(r) <= Cardinality(Ahead(k, row))
               /\ Cardinality(Ahead(k, row)) < Offset(r) + limit[r]
    <3>1. Skipped(r) = Offset(r)
      BY <1>10a, <1>10b, <1>10c, <2>2
    <3> QED
      BY <1>7, <1>9, <1>12, <1>13, <2>2, <3>1
  <2>3. ASSUME NEW row \in seen[r], Untied(k, row)
        PROVE  Cardinality(Ahead(k, row)) < Offset(r) + limit[r]
    <3>1. Cardinality(Ahead(k, row)) \in Nat
      BY <1>7, AheadFinite
    <3> QED
      BY <1>9, <2>1, <2>3, <3>1
  <2>4. ASSUME NEW row \in seen[r] \cap shown PROVE ~Untied(k, row)
    <3> SUFFICES ASSUME Untied(k, row) PROVE FALSE
      OBVIOUS
    <3>1. Cardinality(Ahead(k, row)) < Offset(r)
      BY <2>1
    <3>2. Cardinality(Ahead(k, row)) \in Int /\ Offset(r) <= Cardinality(Ahead(k, row))
      BY <2>2
    <3> QED
      BY <1>9, <3>1, <3>2
  <2> HIDE DEF shown
  <2> QED
    BY <2>1, <2>2, <2>3, <2>4
<1>18. TotalInv(r)'
  <2> SUFFICES ASSUME shown # {}, Offset(r) < Half32
               PROVE  Offset(r) + Cardinality(shown) <= Cardinality(M)
    BY <1>4, <1>5, <1>8, <1>10, <1>11 DEF TotalInv, ListAnswered
  <2> DEFINE last == Cardinality(M) - 1
  <2> DEFINE f == [row \in shown |-> rank[row]]
  <2>1. \A row \in shown : f[row] \in Offset(r)..last
    BY <1>7, <1>9, <1>12, <1>10a
  <2>2. \A x, y \in shown : f[x] = f[y] => x = y
    BY DEF Ranks
  <2>3. f \in Injection(shown, Offset(r)..last)
    BY <2>1, <2>2 DEF Injection, IsInjective
  <2>4. Offset(r) <= last
    BY <1>7, <1>9, <1>12, <1>10a
  <2>5. last \in Int /\ Offset(r) \in Int
    BY <1>7, <1>9
  <2> HIDE DEF last, f
  <2>6. /\ IsFiniteSet(Offset(r)..last)
        /\ Cardinality(Offset(r)..last) = IF Offset(r) > last THEN 0 ELSE last - Offset(r) + 1
    BY <2>5, FS_Interval
  <2>7. IsFiniteSet(shown) /\ Cardinality(shown) <= Cardinality(Offset(r)..last)
    BY <2>3, <2>6, FS_Injection
  <2>8. Cardinality(shown) \in Nat
    BY <2>7, FS_CardinalityType
  <2> QED
    BY <1>7, <1>9, <2>4, <2>6, <2>7, <2>8 DEF last
<1>19. PathInv(r)'
  BY <1>1, <1>2, <1>5, <1>4, <1>8 DEF PathInv
<1> QED
  BY <1>4, <1>6, <1>15, <1>16, <1>17, <1>18, <1>19, ReaderStep DEF ReaderInv

LEMMA CountRowsIInv ==
    ASSUME NEW r \in Readers, CountRows(r), IInv
    PROVE  IInv'
<1> USE ListingAssumption DEF db, history
<1>1. TypeOK /\ ShapeInv /\ PlaceInv(r) /\ SeenInv(r) /\ TotalInv(r) /\ PathInv(r)
  BY DEF IInv, ReaderInv
<1>2. PICK k : k = query[r]
  OBVIOUS
<1>3. /\ pc[r] = "count" /\ pc' = [pc EXCEPT ![r] = "done"] /\ answer' = [answer EXCEPT ![r] = "ok"]
      /\ total' = [total EXCEPT ![r] = Cardinality(Matching(k))]
      /\ UNCHANGED <<db, query, page, limit, items, history>>
  BY <1>2 DEF CountRows, Finish
<1>4. pc'[r] = "done" /\ answer'[r] = "ok" /\ total'[r] = Cardinality(Matching(k))
  BY <1>1, <1>3 DEF TypeOK
<1>5. ShapeInv' /\ \A c \in Readers \ {r} : SameReader(c)
  BY <1>1, <1>3 DEF ShapeInv, SameReader, TypeOK
<1>6. committed \subseteq Writers /\ Cardinality(Matching(k)) \in Nat
  BY <1>1, RowsFinite DEF TypeOK, Matching
<1>7. TypeOK'
  <2>1. /\ pc' \in [Readers -> {"idle", "wallet", "page", "count", "find", "entries", "done"}]
        /\ answer' \in [Readers -> {"none", "ok", "badRequest", "notFound", "forbidden", "error"}]
        /\ total' \in [Readers -> Nat]
    BY <1>1, <1>3, <1>6 DEF TypeOK
  <2>2. \A c \in Readers : Matching(query[c])' = Matching(query[c])
    BY <1>3 DEF Matching
  <2> QED
    BY <1>1, <1>3, <2>1, <2>2 DEF TypeOK
<1>8. query[r].by = All /\ Walks(r)
  BY <1>1, <1>3 DEF PathInv, Walks
<1>9. /\ Matching(k)' = Matching(k) /\ query'[r] = k /\ Unseen(r)' = Unseen(r)
      /\ \A row : Ahead(k, row)' = Ahead(k, row) /\ (Untied(k, row)' <=> Untied(k, row))
  BY <1>2, <1>3, SameDb DEF Unseen
<1>10. Bound(r) = Offset(r) + limit[r] /\ Bound(r)' = Bound(r) /\ Offset(r)' = Offset(r)
  BY <1>3, <1>4 DEF Bound, Offset
<1>11. Offset(r) \in Int /\ limit[r] \in Nat
  BY <1>1, OffsetInt
<1>12. PlaceInv(r)'
  BY <1>1, <1>2, <1>3, <1>8, <1>9, <1>10 DEF PlaceInv
<1>13. SeenInv(r)'
  BY <1>1, <1>2, <1>3, <1>9, <1>10 DEF SeenInv
<1>14. TotalInv(r)'
  <2>1. items[r] # {} /\ Offset(r) < Half32 =>
          Offset(r) + Cardinality(items[r]) <= Cardinality(Matching(k))
    BY <1>1, <1>2, <1>3 DEF TotalInv
  <2>2. ASSUME NEW row \in Unseen(r), Untied(k, row)
        PROVE  Offset(r) + limit[r] < Cardinality(Matching(k))
    <3>1. row \in Matching(k)
      BY <1>1, <1>2, RowsGrow DEF Unseen, Matching, TypeOK
    <3>2. Bound(r) <= Cardinality(Ahead(k, row))
      BY <1>1, <1>2, <1>8, <2>2 DEF PlaceInv
    <3>3. Cardinality(Ahead(k, row)) + 1 <= Cardinality(Matching(k))
      BY <1>1, <3>1, AheadBelow
    <3>4. Cardinality(Ahead(k, row)) \in Nat
      BY <1>6, AheadFinite
    <3> QED
      BY <1>6, <1>10, <1>11, <3>2, <3>3, <3>4
  <2> QED
    BY <1>3, <1>4, <1>9, <1>10, <2>1, <2>2 DEF TotalInv
<1>15. PathInv(r)'
  BY <1>1, <1>3, <1>4, <1>8 DEF PathInv
<1> QED
  BY <1>3, <1>5, <1>7, <1>12, <1>13, <1>14, <1>15, ReaderStep DEF ReaderInv

\* The next page begins where the pages so far end.
LEMMA NextOffset ==
    ASSUME NEW p \in Nat, NEW l \in Nat
    PROVE  ((p + 1) - 1) * l = (p - 1) * l + l
OBVIOUS

LEMMA NextPageIInv ==
    ASSUME NEW r \in Readers, NextPage(r), IInv
    PROVE  IInv'
<1> USE ListingAssumption DEF db, history
<1>1. TypeOK /\ ShapeInv /\ PlaceInv(r) /\ SeenInv(r) /\ TotalInv(r) /\ PathInv(r)
  BY DEF IInv, ReaderInv
<1>2. PICK k : k = query[r]
  OBVIOUS
<1>3. /\ pc[r] = "done" /\ answer[r] = "ok" /\ query[r].by = All
      /\ page' = [page EXCEPT ![r] = page[r] + 1]
      /\ pc' = [pc EXCEPT ![r] = "page"] /\ answer' = [answer EXCEPT ![r] = "none"]
      /\ UNCHANGED <<db, query, limit, items, total, history>>
  BY DEF NextPage
<1>4. pc'[r] = "page" /\ answer'[r] = "none" /\ page'[r] = page[r] + 1
      /\ page[r] \in Nat /\ limit[r] \in Nat
  BY <1>1, <1>3 DEF TypeOK
<1>5. ShapeInv' /\ \A c \in Readers \ {r} : SameReader(c)
  BY <1>1, <1>3 DEF ShapeInv, SameReader, TypeOK
<1>6. TypeOK'
  <2>1. /\ pc' \in [Readers -> {"idle", "wallet", "page", "count", "find", "entries", "done"}]
        /\ answer' \in [Readers -> {"none", "ok", "badRequest", "notFound", "forbidden", "error"}]
        /\ page' \in [Readers -> Nat]
    BY <1>1, <1>3, <1>4 DEF TypeOK
  <2>2. \A c \in Readers : Matching(query[c])' = Matching(query[c])
    BY <1>3 DEF Matching
  <2> QED
    BY <1>1, <1>3, <2>1, <2>2 DEF TypeOK
<1>7. Walks(r)
  BY <1>3 DEF Walks
<1>8. /\ Matching(k)' = Matching(k) /\ query'[r] = k /\ Unseen(r)' = Unseen(r)
      /\ \A row : Ahead(k, row)' = Ahead(k, row) /\ (Untied(k, row)' <=> Untied(k, row))
  BY <1>2, <1>3, SameDb DEF Unseen
<1>9. Bound(r)' = Bound(r)
  <2>1. Bound(r) = Offset(r) + limit[r] /\ Bound(r)' = Offset(r)'
    BY <1>3, <1>4 DEF Bound
  <2>2. Offset(r)' = Offset(r) + limit[r]
    BY <1>3, <1>4, NextOffset DEF Offset
  <2> QED
    BY <2>1, <2>2
<1>10. PlaceInv(r)'
  BY <1>1, <1>2, <1>3, <1>4, <1>7, <1>8, <1>9 DEF PlaceInv
<1>11. SeenInv(r)'
  BY <1>1, <1>2, <1>3, <1>8, <1>9 DEF SeenInv
<1>12. TotalInv(r)'
  BY <1>4 DEF TotalInv, ListAnswered
<1>13. PathInv(r)'
  BY <1>1, <1>3, <1>4 DEF PathInv
<1> QED
  BY <1>3, <1>5, <1>6, <1>10, <1>11, <1>12, <1>13, ReaderStep DEF ReaderInv

\* The SELECT of a committed transaction's entries returns all of them.
LEMMA EntriesFound ==
    ASSUME TypeOK, NEW w \in committed
    PROVE  Matching(EntriesById(w)) = EntriesOf(w)
<1>1. w \in Writers /\ w # All /\ committed \subseteq Writers
  BY ListingAssumption DEF TypeOK
<1>2. \A row : Meets(EntriesById(w), row) <=> row.table = "ledger_entries" /\ row.by = w
  BY <1>1 DEF Meets, EntriesById, Query
<1>3. \A v \in committed : \A row \in Writes(v) : row.by = v
  BY <1>1, WritesFacts
<1> QED
  BY <1>2, <1>3 DEF Matching, RowsOf, EntriesOf

LEMMA FindEntriesIInv ==
    ASSUME NEW r \in Readers, FindEntries(r), IInv
    PROVE  IInv'
<1> USE ListingAssumption DEF db, history
<1>1. TypeOK /\ ShapeInv /\ PlaceInv(r) /\ SeenInv(r) /\ TotalInv(r) /\ PathInv(r)
  BY DEF IInv, ReaderInv
<1>2. query[r].by \in Writers /\ query[r].by \in committed /\ seen[r] = {} /\ repeated[r] = {}
      /\ query[r].by # All
  BY <1>1 DEF PathInv, FindEntries
<1>3. /\ pc[r] = "entries" /\ pc' = [pc EXCEPT ![r] = "done"] /\ answer' = [answer EXCEPT ![r] = "ok"]
      /\ items' = [items EXCEPT ![r] = EntriesOf(query[r].by)]
      /\ UNCHANGED <<db, query, page, limit, total, history>>
  BY <1>1, <1>2, EntriesFound DEF FindEntries, Finish
<1>4. pc'[r] = "done" /\ answer'[r] = "ok" /\ items'[r] = EntriesOf(query[r].by)
  BY <1>1, <1>3 DEF TypeOK, ShapeInv
<1>5. ShapeInv' /\ \A c \in Readers \ {r} : SameReader(c)
  BY <1>1, <1>3 DEF ShapeInv, SameReader, TypeOK
<1>6. TypeOK'
  <2>1. /\ pc' \in [Readers -> {"idle", "wallet", "page", "count", "find", "entries", "done"}]
        /\ answer' \in [Readers -> {"none", "ok", "badRequest", "notFound", "forbidden", "error"}]
    BY <1>1, <1>3 DEF TypeOK
  <2>2. \A c \in Readers : Matching(query[c])' = Matching(query[c])
    BY <1>3 DEF Matching
  <2>3. ASSUME NEW c \in Readers PROVE items'[c] \subseteq UNION {Writes(w) : w \in committed}
    <3>1. CASE c = r
      BY <1>2, <1>4, <3>1 DEF EntriesOf
    <3>2. CASE c # r
      BY <1>1, <1>5, <3>2 DEF TypeOK, SameReader
    <3> QED
      BY <3>1, <3>2
  <2> QED
    BY <1>1, <1>3, <2>1, <2>2, <2>3 DEF TypeOK
<1>7. PlaceInv(r)' /\ TotalInv(r)'
  BY <1>2, <1>3, <1>4 DEF PlaceInv, Walks, TotalInv, ListAnswered
<1>8. SeenInv(r)'
  BY <1>2, <1>3 DEF SeenInv
<1>9. PathInv(r)'
  BY <1>1, <1>2, <1>3, <1>4 DEF PathInv
<1> QED
  BY <1>3, <1>5, <1>6, <1>7, <1>8, <1>9, ReaderStep DEF ReaderInv

LEMMA ListsIInv ==
    ASSUME NEW r \in Readers, IInv,
           \/ GetTransactions(r) \/ GetAllTransactions(r) \/ GetLedgerEntries(r)
           \/ GetLogs(r) \/ GetAllLogs(r) \/ GetAllUsers(r)
    PROVE  IInv'
<1>1. CASE GetTransactions(r)
  <2>1. PICK u \in Users, type \in Optional(Types) : List(r, ByWalletID(u, type), "wallet")
    BY <1>1 DEF GetTransactions
  <2>2. ByWalletID(u, type).by = All
    BY DEF ByWalletID, Query
  <2> QED
    BY <2>1, <2>2, ListIInv
<1>2. CASE GetAllTransactions(r)
  <2>1. PICK type \in Optional(Types), status \in Optional({"COMPLETED", "PENDING"}) :
          List(r, AllTransactions(type, status), "page")
    BY <1>2 DEF GetAllTransactions
  <2>2. AllTransactions(type, status).by = All
    BY DEF AllTransactions, Query
  <2> QED
    BY <2>1, <2>2, ListIInv
<1>3. CASE GetLedgerEntries(r)
  <2>1. PICK u \in Users, type \in Optional({"DEBIT", "CREDIT"}) :
          List(r, EntriesByWalletID(u, type), "wallet")
    BY <1>3 DEF GetLedgerEntries
  <2>2. EntriesByWalletID(u, type).by = All
    BY DEF EntriesByWalletID, Query
  <2> QED
    BY <2>1, <2>2, ListIInv
<1>4. CASE GetLogs(r)
  <2>1. PICK u \in Users : List(r, LogsByUserID(u), "page")
    BY <1>4 DEF GetLogs
  <2>2. LogsByUserID(u).by = All
    BY DEF LogsByUserID, Query
  <2> QED
    BY <2>1, <2>2, ListIInv
<1>5. CASE GetAllLogs(r)
  <2>1. PICK u \in Optional(Users), action \in Optional(Actions) : List(r, AllLogs(u, action), "page")
    BY <1>5 DEF GetAllLogs
  <2>2. AllLogs(u, action).by = All
    BY DEF AllLogs, Query
  <2> QED
    BY <2>1, <2>2, ListIInv
<1>6. CASE GetAllUsers(r)
  <2>1. AllUsers.by = All
    BY DEF AllUsers, Query
  <2> QED
    BY <1>6, <2>1, ListIInv DEF GetAllUsers
<1> QED
  BY <1>1, <1>2, <1>3, <1>4, <1>5, <1>6

LEMMA DetailsIInv ==
    ASSUME NEW r \in Readers, IInv, GetTransactionDetail(r) \/ GetTransactionDetailAdmin(r)
    PROVE  IInv'
<1>1. CASE GetTransactionDetail(r)
  <2>1. PICK u \in Users, w \in Writers : Detail(r, [ById(w) EXCEPT !.owner = u], "wallet")
    BY <1>1 DEF GetTransactionDetail
  <2>2. [ById(w) EXCEPT !.owner = u].by = w
    BY DEF ById, Query
  <2> QED
    BY <2>1, <2>2, DetailIInv
<1>2. CASE GetTransactionDetailAdmin(r)
  <2>1. PICK w \in Writers : Detail(r, ById(w), "find")
    BY <1>2 DEF GetTransactionDetailAdmin
  <2>2. ById(w).by = w
    BY DEF ById, Query
  <2> QED
    BY <2>1, <2>2, DetailIInv
<1> QED
  BY <1>1, <1>2

LEMMA NextIInv ==
    ASSUME [Next]_vars, IInv
    PROVE  IInv'
<1>1. ASSUME NEW w \in Writers, Begin(w) PROVE IInv'
  BY <1>1, BeginIInv
<1>2. ASSUME NEW w \in Writers, Commit(w) PROVE IInv'
  BY <1>2, CommitIInv
<1>3. ASSUME NEW r \in Readers,
             \/ GetTransactions(r) \/ GetAllTransactions(r) \/ GetLedgerEntries(r)
             \/ GetLogs(r) \/ GetAllLogs(r) \/ GetAllUsers(r)
      PROVE  IInv'
  BY <1>3, ListsIInv
<1>4. ASSUME NEW r \in Readers, GetTransactionDetail(r) \/ GetTransactionDetailAdmin(r) PROVE IInv'
  BY <1>4, DetailsIInv
<1>5. ASSUME NEW r \in Readers, FindWallet(r) PROVE IInv'
  BY <1>5, FindWalletIInv
<1>6. ASSUME NEW r \in Readers, FindPage(r) PROVE IInv'
  BY <1>6, FindPageIInv
<1>7. ASSUME NEW r \in Readers, CountRows(r) PROVE IInv'
  BY <1>7, CountRowsIInv
<1>8. ASSUME NEW r \in Readers, NextPage(r) PROVE IInv'
  BY <1>8, NextPageIInv
<1>9. ASSUME NEW r \in Readers, FindByID(r) PROVE IInv'
  BY <1>9, FindByIDIInv
<1>10. ASSUME NEW r \in Readers, FindEntries(r) PROVE IInv'
  BY <1>10, FindEntriesIInv
<1>11. ASSUME NEW r \in Readers, ReadFails(r) PROVE IInv'
  BY <1>11, ReadFailsIInv
<1>12. ASSUME NEW r \in Readers, RefusePage(r) PROVE IInv'
  BY <1>12, RefusePageIInv
<1>13. CASE UNCHANGED vars
  <2>1. UNCHANGED readers /\ UNCHANGED created /\ UNCHANGED committed
    BY <1>13 DEF vars, readers, history, db
  <2>2. TypeOK'
    <3>1. \A r \in Readers : Matching(query[r])' = Matching(query[r])
      BY <2>1 DEF Matching, readers
    <3> QED
      BY <1>13, <3>1 DEF vars, history, IInv, TypeOK
  <2> QED
    BY <2>1, <2>2, WriterStep
<1> QED
  BY <1>1, <1>2, <1>3, <1>4, <1>5, <1>6, <1>7, <1>8, <1>9, <1>10, <1>11, <1>13,
     <1>12 DEF Next

-----------------------------------------------------------------------------

\* IInv holds in every reachable state.
THEOREM Invariance == Spec => []IInv
BY InitIInv, NextIInv, PTL DEF Spec

\* What a reader shows has committed and is of its query (TypeOK).
THEOREM TypeCorrect == Spec => []TypeOK
<1>1. IInv => TypeOK
  BY DEF IInv
<1> QED
  BY <1>1, Invariance, PTL

\* A page that is the last has no rows behind it.
LEMMA LastPage ==
    ASSUME NEW t \in Nat, NEW l \in Nat \ {0}, NEW p \in Nat, p >= (t + l - 1) \div l
    PROVE  t <= (p - 1) * l + l
<1> DEFINE k == (t + l - 1) \div l
<1>1. k \in Int /\ t + l - 1 < l * k + l
  OBVIOUS
<1>2. l * k <= l * p
  BY <1>1
<1>3. (p - 1) * l + l = l * p
  OBVIOUS
<1> QED
  BY <1>1, <1>2, <1>3

\* A walk to the last page has shown every untied row that was there when it began, and
\* none twice unless others have committed since (WalksAreComplete).
THEOREM WalksComplete == Spec => []WalksAreComplete
<1>1. ASSUME IInv PROVE NothingSkipped
  <2> SUFFICES ASSUME NEW r \in Readers, EndOfWalk(r), NEW row \in RowsOf(since[r], query[r]),
                      Untied(query[r], row), row \notin seen[r]
               PROVE  FALSE
    BY DEF NothingSkipped
  <2>1. TypeOK /\ PlaceInv(r) /\ TotalInv(r) /\ ListAnswered(r)
    BY <1>1 DEF IInv, ReaderInv, EndOfWalk
  <2>2. Offset(r) + limit[r] < total[r]
    BY <2>1 DEF TotalInv, Unseen
  <2>3. page[r] \in Nat /\ limit[r] \in Nat \ {0} /\ total[r] \in Nat
    BY <2>1 DEF TypeOK, PlaceInv, Walks, ListAnswered
  <2>4. page[r] >= (total[r] + limit[r] - 1) \div limit[r]
    BY DEF EndOfWalk, TotalPages
  <2>5. total[r] <= Offset(r) + limit[r]
    BY <2>3, <2>4, LastPage DEF Offset
  <2>6. Offset(r) \in Int
    BY <2>1, OffsetInt
  <2> QED
    BY <2>2, <2>3, <2>5, <2>6
<1>2. IInv => QuietWalkRepeatsNothing
  BY DEF IInv, ReaderInv, SeenInv, QuietWalkRepeatsNothing
<1> QED
  BY <1>1, <1>2, Invariance, PTL DEF WalksAreComplete

\* A page whose offset fits shows nothing beyond its total (TotalCoversPage).
THEOREM TotalsCover == Spec => []TotalCoversPage
<1>1. IInv => TotalCoversPage
  BY DEF IInv, ReaderInv, TotalInv, TotalCoversPage
<1> QED
  BY <1>1, Invariance, PTL

\* An answer to a walk from page 1 is about the rows of the page asked for: the offset its
\* SELECT got has not wrapped around (transaction_repository.go:109).
THEOREM WalksKeepTheirPlace ==
    Spec => [](\A r \in Readers :
                  ListAnswered(r) /\ since[r] # {} => Skipped(r) = Offset(r))
<1>1. ASSUME IInv, NEW r \in Readers, ListAnswered(r), since[r] # {}
      PROVE  Skipped(r) = Offset(r)
  <2>1. TypeOK /\ PlaceInv(r) /\ PathInv(r)
    BY <1>1 DEF IInv, ReaderInv
  <2>2. /\ page[r] \in Nat /\ page[r] >= 1 /\ limit[r] \in Nat
        /\ Bound(r) < Half32 + limit[r]
    BY <1>1, <2>1 DEF TypeOK, PlaceInv, Walks, ListAnswered
  <2>3. page[r] - 1 \in Nat
    BY <2>2
  <2>4. Offset(r) \in Nat
    BY <2>2, <2>3 DEF Offset
  <2>5. Bound(r) = Offset(r) + limit[r]
    BY <1>1, <2>1 DEF Bound, PathInv, ListAnswered
  <2>6. Offset(r) < Half32
    BY <2>2, <2>4, <2>5, ListingAssumption
  <2> QED
    BY <2>4, <2>6, Int32Facts DEF Skipped
<1>2. IInv => \A r \in Readers : ListAnswered(r) /\ since[r] # {} => Skipped(r) = Offset(r)
  BY <1>1
<1> QED
  BY <1>2, Invariance, PTL

\* A transaction is shown with all its entries (DetailComplete).
THEOREM DetailsComplete == Spec => []DetailComplete
<1>1. IInv => DetailComplete
  BY DEF IInv, ReaderInv, PathInv, EntriesOf, DetailComplete
<1> QED
  BY <1>1, Invariance, PTL
=============================================================================
