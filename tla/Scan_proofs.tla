---------------------------- MODULE Scan_proofs ----------------------------
(***************************************************************************)
(* What the paging loops guarantee for any number of rows and edits and    *)
(* any page length.                                                        *)
(*                                                                         *)
(* A cursor cuts the collection at a row, so what is behind it has come    *)
(* once and what is ahead has not (CursorInv), whatever the edits.  An     *)
(* offset cuts it at a rank, and an edit before that place moves one row   *)
(* across it: MissedInv counts the rows that have moved back unseen, and   *)
(* RepeatedInv those that have come twice or, already collected, have      *)
(* moved ahead and will.                                                   *)
(***************************************************************************)
EXTENDS Scan, Integers, TLAPS, FiniteSetTheorems

\* The history is that of the collection.
HistoryInv ==
    /\ initial \subseteq rows \cup deleted /\ rows \cap deleted = {}
    /\ \A k \in Row : got[k] > 0 => k \in rows \cup deleted

\* Which loop can be where, and what is at the destination then.
PlaceInv ==
    /\ pc \in {"rendering", "writing", "cut"} => call.loop = "inventory"
    /\ file = IF pc \in {"writing", "cut"} THEN Torn
              ELSE IF WroteTable THEN Table(Rendered(call.format, Collected))
              ELSE Old

CursorLoop == call.loop # "inventory" /\ honest

CursorInv ==
    CursorLoop =>
        /\ CursorRowsOnce
        /\ pc = "paging" =>
              /\ \A k \in Row : got[k] = 1 => k <= cursor
              /\ \A k \in Stable : k <= cursor => got[k] = 1
              /\ \A k \in seen : k <= cursor

\* The rows of the collection that skip rows precede at most.
Passed == {k \in rows : Before(k, rows) < skip}
Inserted == (rows \cup deleted) \ initial
\* The rows collected that will be collected again.
Ahead == {k \in rows : got[k] > 0 /\ Before(k, rows) >= skip}

Scanned == pc \in {"rendering", "writing", "returned"}

MissedInv ==
    call.loop = "inventory" =>
        /\ pc = "paging" => Cardinality(Missed \cap Passed) <= Cardinality(deleted)
        /\ Scanned => Cardinality(Missed) <= Cardinality(deleted)

RepeatedInv ==
    call.loop = "inventory" =>
        /\ pc = "paging" =>
              Cardinality(Repeats) + Cardinality(Ahead) <= Cardinality(Inserted)
        /\ Scanned => Cardinality(Repeats) <= Cardinality(Inserted)

IInv == TypeOK /\ HistoryInv /\ PlaceInv /\ CursorInv /\ MissedInv /\ RepeatedInv

-----------------------------------------------------------------------------
\* Rows and their ranks.

LEMMA Constants ==
  /\ Last \in Nat /\ Row = 1..Last /\ Row \subseteq Nat /\ Start = 0 /\ Start \notin Row
  /\ Limit \in Nat /\ 1 <= Limit /\ MaxEdits \in Nat /\ Located \subseteq Row
BY ScanAssumption DEF Row, Start

LEMMA RowsFinite ==
  ASSUME NEW S, S \subseteq Row
  PROVE  IsFiniteSet(S) /\ Cardinality(S) \in Nat
<1>1. IsFiniteSet(Row)
  BY Constants, FS_Interval
<1> QED BY <1>1, FS_Subset, FS_CardinalityType

LEMMA LeastRow ==
  ASSUME NEW S, S \subseteq Nat, S # {}
  PROVE  \E m \in S : \A n \in S : m <= n
<1> DEFINE R == {p \in Nat \X Nat : p[1] < p[2]}
<1>1. IsWellFoundedOn(R, Nat)
  <2>1. OpToRel(<, Nat) = R
    BY Zenon DEF OpToRel
  <2> QED BY <2>1, NatLessThanWellFounded, Zenon
<1>2. PICK m \in S : \A n \in S : <<n, m>> \notin R
  BY <1>1, WFMin
<1>3. ASSUME NEW n \in S PROVE m <= n
  <2>1. m \in Nat /\ n \in Nat /\ <<n, m>> \notin R
    BY <1>2
  <2> QED BY <2>1
<1> QED BY <1>3

LEMMA LastOfPage ==
  ASSUME NEW S, S \subseteq Row, S # {}
  PROVE  \E m \in S : \A n \in S : n <= m
<1> DEFINE T == {Last - n : n \in S}
<1>1. T \subseteq Nat /\ T # {}
  BY Constants
<1>2. PICK t \in T : \A u \in T : t <= u
  BY <1>1, LeastRow
<1>3. PICK m \in S : t = Last - m
  OBVIOUS
<1>4. ASSUME NEW n \in S PROVE n <= m
  <2>1. Last - m <= Last - n
    BY <1>2, <1>3
  <2>2. Last \in Nat /\ m \in Nat /\ n \in Nat
    BY Constants
  <2> QED BY <2>1, <2>2
<1> QED BY <1>4

LEMMA BeforeType ==
  ASSUME NEW S, S \subseteq Row, NEW k \in Row
  PROVE  IsFiniteSet({j \in S : j < k}) /\ Before(k, S) \in Nat
<1>1. {j \in S : j < k} \subseteq Row
  OBVIOUS
<1> QED BY <1>1, RowsFinite DEF Before

\* A row has a smaller rank than the rows behind it.
LEMMA BeforeGrows ==
  ASSUME NEW S, S \subseteq Row, NEW j \in S, NEW k \in S, j < k
  PROVE  Before(j, S) < Before(k, S)
<1> DEFINE A == {i \in S : i < j}
           B == {i \in S : i < k}
<1>1. j \in Nat /\ k \in Nat /\ S \subseteq Nat
  BY Constants
<1>2. A \subseteq B /\ j \in B /\ j \notin A
  <2>1. \A i \in A : i \in S /\ i < k
    BY <1>1
  <2>2. j \in B
    OBVIOUS
  <2>3. ~(j < j)
    BY <1>1
  <2> QED BY <2>1, <2>2, <2>3
<1>3. IsFiniteSet(B) /\ Cardinality(A) \in Nat /\ Cardinality(B) \in Nat
  BY BeforeType DEF Before
<1>4. Cardinality(A) <= Cardinality(B) /\ Cardinality(A) # Cardinality(B)
  <2> HIDE DEF A, B
  <2> QED BY <1>2, <1>3, FS_Subset
<1> QED BY <1>3, <1>4 DEF Before

LEMMA RanksDiffer ==
  ASSUME NEW S, S \subseteq Row, NEW j \in S, NEW k \in S, Before(j, S) = Before(k, S)
  PROVE  j = k
<1>1. j \in Nat /\ k \in Nat /\ Before(j, S) \in Nat
  BY Constants, BeforeType
<1>2. (j < k => Before(j, S) < Before(k, S)) /\ (k < j => Before(k, S) < Before(j, S))
  BY BeforeGrows
<1> QED BY <1>1, <1>2

\* No more rows have one of so many ranks.
LEMMA RankedAtMost ==
  ASSUME NEW S, S \subseteq Row, NEW a \in Nat, NEW n \in Nat,
         NEW T, T \subseteq S, \A k \in T : Before(k, S) \in a..(a + n - 1)
  PROVE  Cardinality(T) <= n
<1> DEFINE f == [k \in T |-> Before(k, S)]
<1>1. f \in [T -> a..(a + n - 1)]
  OBVIOUS
<1>2. \A j, k \in T : f[j] = f[k] => j = k
  BY RanksDiffer
<1>3. f \in Injection(T, a..(a + n - 1))
  BY <1>1, <1>2 DEF Injection, IsInjective
<1>4. IsFiniteSet(a..(a + n - 1)) /\ Cardinality(a..(a + n - 1)) = n
  <2>1. a + n - 1 \in Int
    OBVIOUS
  <2> QED BY <2>1, FS_Interval
<1> HIDE DEF f
<1> QED BY <1>3, <1>4, FS_Injection

\* What an edit does to the ranks.
LEMMA BeforeInsert ==
  ASSUME NEW S, S \subseteq Row, NEW j \in Row \ S, NEW k \in Row
  PROVE  Before(k, S \cup {j}) = Before(k, S) + (IF j < k THEN 1 ELSE 0)
<1> DEFINE B == {i \in S : i < k}
<1>1. IsFiniteSet(B) /\ Cardinality(B) \in Nat /\ j \notin B
  BY BeforeType DEF Before
<1>2. CASE j < k
  <2>1. {i \in S \cup {j} : i < k} = B \cup {j}
    BY <1>2
  <2> HIDE DEF B
  <2>2. Cardinality(B \cup {j}) = Cardinality(B) + 1
    BY <1>1, FS_AddElement
  <2> QED BY <1>2, <2>1, <2>2 DEF Before, B
<1>3. CASE ~(j < k)
  <2>1. {i \in S \cup {j} : i < k} = B
    BY <1>3
  <2> QED BY <1>1, <1>3, <2>1 DEF Before
<1> QED BY <1>2, <1>3

-----------------------------------------------------------------------------
\* The cursor loops.

\* A page of a cursor takes the rows behind it up to its last one; the cursor
\* that leads on is that row.
LEMMA KeysetFacts ==
  ASSUME rows \subseteq Row, NEW c \in Row \cup {Start}
  PROVE  /\ KeysetPage(c) \subseteq Above(c) /\ Above(c) \subseteq Row
         /\ \A k \in Above(c) : k > c
         /\ KeysetNext(c) = Start => KeysetPage(c) = Above(c)
         /\ KeysetNext(c) # Start =>
               /\ KeysetNext(c) \in KeysetPage(c)
               /\ \A k \in KeysetPage(c) : k <= KeysetNext(c)
               /\ \A k \in Above(c) : k <= KeysetNext(c) => k \in KeysetPage(c)
<1> DEFINE P == KeysetPage(c)
           A == Above(c)
           m == KeysetNext(c)
<1>1. P \subseteq A /\ A \subseteq Row /\ (\A k \in A : k > c) /\ A \subseteq Nat
  BY Constants DEF KeysetPage, Above
<1>2. CASE P = A
  BY <1>1, <1>2 DEF KeysetNext
<1>3. CASE P # A
  <2>1. A # {}
    BY <1>1, <1>3
  <2>2. PICK k0 \in A : \A k \in A : k0 <= k
    BY <1>1, <2>1, LeastRow
  <2>3. Before(k0, A) = 0
    <3>1. {j \in A : j < k0} = {}
      BY <1>1, <2>2
    <3> QED BY <3>1, FS_EmptySet DEF Before
  <2>4. k0 \in P
    BY <2>3, Constants DEF KeysetPage
  <2>5. \E k \in P : \A j \in P : j <= k
    <3>1. P \subseteq Row /\ P # {}
      BY <1>1, <2>4
    <3> HIDE DEF P
    <3> QED BY <3>1, LastOfPage
  <2>6. m \in P /\ \A j \in P : j <= m
    <3>1. m = CHOOSE k \in P : \A j \in P : j <= k
      BY <1>3 DEF KeysetNext
    <3> HIDE DEF P, m
    <3> QED BY <2>5, <3>1
  <2>7. ASSUME NEW k \in A, k <= m PROVE k \in P
    <3>1. CASE k = m
      BY <2>6, <3>1
    <3>2. CASE k # m
      <4>1. k < m /\ m \in A
        BY <1>1, <2>6, <2>7, <3>2
      <4>2. Before(k, A) < Before(m, A)
        BY <1>1, <4>1, BeforeGrows
      <4>3. Before(m, A) < Limit
        BY <2>6 DEF KeysetPage
      <4>4. Before(k, A) \in Nat /\ Before(m, A) \in Nat
        BY <1>1, <4>1, BeforeType
      <4>5. Before(k, A) < Limit
        BY <4>2, <4>3, <4>4, Constants
      <4> QED BY <4>5 DEF KeysetPage
    <3> QED BY <3>1, <3>2
  <2>8. m # Start
    BY <1>1, <2>6, Constants
  <2> QED BY <1>1, <2>6, <2>7, <2>8
<1> QED BY <1>2, <1>3

-----------------------------------------------------------------------------
\* Types and history.

LEMMA CollectFacts ==
  ASSUME TypeOK, NEW page, Collect(page)
  PROVE  /\ got' \in [Row -> Nat]
         /\ \A k \in Row : got[k] \in Nat
         /\ \A k \in Row : got'[k] = IF k \in page THEN got[k] + 1 ELSE got[k]
BY DEF TypeOK, Collect

LEMMA AnswerFacts ==
  ASSUME TypeOK, NEW a \in CursorAnswers(cursor)
  PROVE  /\ a.items \subseteq rows /\ a.next \in Row \cup {Start}
         /\ honest => a.items = KeysetPage(cursor) /\ a.next = KeysetNext(cursor)
<1>1. CASE honest
  <2>1. a.items = KeysetPage(cursor) /\ a.next = KeysetNext(cursor)
    BY <1>1 DEF CursorAnswers
  <2>2. KeysetPage(cursor) \subseteq rows
    BY DEF KeysetPage, Above
  <2>3. KeysetNext(cursor) \in Row \cup {Start}
    BY KeysetFacts DEF TypeOK
  <2> QED BY <2>1, <2>2, <2>3
<1>2. CASE ~honest
  BY <1>2 DEF CursorAnswers
<1> QED BY <1>1, <1>2

LEMMA OffsetFacts ==
  ASSUME TypeOK
  PROVE  /\ OffsetRows \subseteq rows /\ rows \subseteq Row
         /\ IsFiniteSet(OffsetRows) /\ Cardinality(OffsetRows) \in Nat
BY RowsFinite DEF OffsetRows, TypeOK

LEMMA CursorTypes ==
  ASSUME TypeOK, HistoryInv, CursorPage
  PROVE  TypeOK' /\ HistoryInv'
<1>1. PICK a \in CursorAnswers(cursor) :
        /\ Collect(a.items)
        /\ \/ a.next = Start /\ Goto("returned") /\ UNCHANGED <<cursor, seen>>
           \/ a.next # Start /\ Repeated(a.next)
              /\ Goto("repeated") /\ UNCHANGED <<cursor, seen>>
           \/ a.next # Start /\ ~Repeated(a.next)
              /\ Advance(a.next) /\ UNCHANGED pc
  BY DEF CursorPage
<1>2. UNCHANGED <<call, honest, collection, skip, file>>
  BY DEF CursorPage
<1>3. a.items \subseteq rows /\ a.next \in Row \cup {Start}
  BY AnswerFacts
<1>4. /\ got' \in [Row -> Nat]
      /\ \A k \in Row : got'[k] = IF k \in a.items THEN got[k] + 1 ELSE got[k]
  BY <1>1, CollectFacts
<1>5. /\ pc' \in {"paging", "rendering", "writing"} \cup Ended
      /\ cursor' \in Row \cup {Start} /\ seen' \subseteq Row /\ cursor' \in seen' \cup {Start}
  <2>1. CASE Goto("returned") /\ UNCHANGED <<cursor, seen>>
    BY <2>1 DEF TypeOK, Goto, Ended
  <2>2. CASE Goto("repeated") /\ UNCHANGED <<cursor, seen>>
    BY <2>2 DEF TypeOK, Goto, Ended
  <2>3. CASE a.next # Start /\ Advance(a.next) /\ UNCHANGED pc
    BY <1>3, <2>3 DEF TypeOK, Advance
  <2> QED BY <1>1, <2>1, <2>2, <2>3
<1>6. TypeOK'
  BY <1>2, <1>4, <1>5 DEF TypeOK, collection
<1>7. HistoryInv'
  BY <1>2, <1>3, <1>4 DEF HistoryInv, collection
<1> QED BY <1>6, <1>7

LEMMA InventoryTypes ==
  ASSUME TypeOK, HistoryInv, InventoryPage
  PROVE  TypeOK' /\ HistoryInv'
<1>1. /\ Collect(OffsetRows) /\ skip' = skip + Cardinality(OffsetRows)
      /\ Goto("rendering") \/ UNCHANGED pc
      /\ UNCHANGED <<call, honest, collection, cursor, seen, file>>
  BY DEF InventoryPage
<1>2. OffsetRows \subseteq rows /\ Cardinality(OffsetRows) \in Nat
  BY OffsetFacts
<1>3. /\ got' \in [Row -> Nat]
      /\ \A k \in Row : got'[k] = IF k \in OffsetRows THEN got[k] + 1 ELSE got[k]
  BY <1>1, CollectFacts
<1>4. skip' \in Nat /\ pc' \in {"paging", "rendering", "writing"} \cup Ended
  BY <1>1, <1>2 DEF TypeOK, Goto
<1>5. TypeOK'
  BY <1>1, <1>3, <1>4 DEF TypeOK, collection
<1>6. HistoryInv'
  BY <1>1, <1>2, <1>3 DEF HistoryInv, collection
<1> QED BY <1>5, <1>6

LEMMA RenderedFacts ==
  ASSUME call \in Calls, call.loop = "inventory", NEW R
  PROVE  Rendered(call.format, R) =
            IF call.format \in {"geojson", "kml"} THEN R \cap Located ELSE R
<1>1. call.format \in {"csv", "json", "geojson", "kml"}
  BY DEF Calls, Formats
<1> QED BY <1>1 DEF Rendered, CsvRows, GeojsonRows, KmlRows

LEMMA TypesInductive ==
  ASSUME TypeOK, HistoryInv, PlaceInv, [Next]_vars
  PROVE  TypeOK' /\ HistoryInv'
<1>1. CASE IterProjects \/ IterJobs
  BY <1>1, CursorTypes DEF IterProjects, IterJobs
<1>2. CASE InventoryPage
  BY <1>2, InventoryTypes
<1>3. CASE PageFails \/ OpenTable \/ Crash
  <2>1. /\ pc' \in Ended \cup {"writing"} /\ file' \in {file, Torn}
        /\ UNCHANGED <<call, honest, collection, cursor, seen, skip, got>>
    BY <1>3 DEF PageFails, OpenTable, Crash, Goto, Ended
  <2> QED BY <2>1 DEF TypeOK, HistoryInv, collection, Torn
<1>4. CASE WriteTable
  <2>1. /\ pc' \in Ended /\ UNCHANGED <<call, honest, collection, cursor, seen, skip, got>>
        /\ file' \in {file, Table(Rendered(call.format, Collected))}
    BY <1>4 DEF WriteTable, Goto, Ended
  <2>2. call \in Calls /\ call.loop = "inventory"
    BY <1>4 DEF WriteTable, PlaceInv, TypeOK
  <2>3. Rendered(call.format, Collected) \subseteq Row
    <3>1. Collected \subseteq Row
      BY DEF Collected
    <3> QED BY <2>2, <3>1, RenderedFacts
  <2>4. file'.rows \subseteq Row
    BY <2>1, <2>3 DEF TypeOK, Table
  <2> QED BY <2>1, <2>4 DEF TypeOK, HistoryInv, collection
<1>5. CASE \E k \in Row : Insert(k)
  BY <1>5 DEF Insert, TypeOK, HistoryInv
<1>6. CASE \E k \in Row : Delete(k)
  BY <1>6 DEF Delete, TypeOK, HistoryInv
<1>7. CASE AllOver \/ UNCHANGED vars
  BY <1>7 DEF AllOver, vars, collection, TypeOK, HistoryInv
<1> QED BY <1>1, <1>2, <1>3, <1>4, <1>5, <1>6, <1>7 DEF Next, Client

\* The table at the destination follows the place of the call.
LEMMA PlaceInductive ==
  ASSUME TypeOK, PlaceInv, [Next]_vars
  PROVE  PlaceInv'
<1>1. CASE IterProjects \/ IterJobs
  <2>1. /\ call.loop # "inventory" /\ pc = "paging" /\ pc' \in {"returned", "repeated", "paging"}
        /\ UNCHANGED <<call, file>>
    BY <1>1 DEF IterProjects, IterJobs, CursorPage, Goto
  <2> QED BY <2>1 DEF PlaceInv, WroteTable
<1>2. CASE InventoryPage
  <2>1. /\ call.loop = "inventory" /\ pc = "paging" /\ pc' \in {"rendering", "paging"}
        /\ UNCHANGED <<call, file>>
    BY <1>2 DEF InventoryPage, Goto
  <2> QED BY <2>1 DEF PlaceInv, WroteTable
<1>3. CASE PageFails \/ OpenTable
  <2>1. /\ \/ pc = "paging" /\ pc' = "raised" /\ file' = file
           \/ pc = "rendering" /\ pc' = "writing" /\ file' = Torn
           \/ pc = "rendering" /\ pc' = "raised" /\ file' = file
        /\ UNCHANGED call
    <3>1. CASE PageFails
      BY <3>1 DEF PageFails, Goto
    <3>2. CASE OpenTable
      BY <3>2 DEF OpenTable, Goto
    <3> QED BY <1>3, <3>1, <3>2
  <2> QED BY <2>1 DEF PlaceInv, WroteTable
<1>4. CASE WriteTable
  <2>1. /\ pc = "writing" /\ UNCHANGED <<call, got>>
        /\ \/ pc' = "returned" /\ file' = Table(Rendered(call.format, Collected))
           \/ pc' = "cut" /\ file' = file
    BY <1>4 DEF WriteTable, Goto
  <2>2. Collected' = Collected
    BY <2>1 DEF Collected
  <2> QED BY <2>1, <2>2 DEF PlaceInv, WroteTable
<1>5. CASE Crash
  <2>1. /\ pc \notin Ended /\ UNCHANGED <<call, file>>
        /\ pc' = IF pc = "writing" THEN "cut" ELSE "crashed"
    BY <1>5 DEF Crash, Goto
  <2> QED BY <2>1 DEF PlaceInv, WroteTable, Ended
<1>6. CASE AllOver \/ (\E k \in Row : Insert(k) \/ Delete(k)) \/ UNCHANGED vars
  <2>1. UNCHANGED <<call, pc, got, file>>
    BY <1>6 DEF AllOver, Insert, Delete, vars
  <2> QED BY <2>1 DEF PlaceInv, WroteTable, Collected
<1> QED BY <1>1, <1>2, <1>3, <1>4, <1>5, <1>6 DEF Next, Client

-----------------------------------------------------------------------------
\* The cursor loops: what is behind the cursor has come once.

LEMMA PageKeepsCursorInv ==
  ASSUME TypeOK, HistoryInv, CursorInv, CursorPage, CursorLoop
  PROVE  CursorInv'
<1> DEFINE P == KeysetPage(cursor)
           m == KeysetNext(cursor)
<1>1. /\ Collect(P) /\ pc = "paging" /\ UNCHANGED <<call, honest, rows, initial, deleted>>
      /\ \/ m = Start /\ pc' = "returned"
         \/ m # Start /\ m \in seen /\ pc' = "repeated"
         \/ m # Start /\ cursor' = m /\ seen' = seen \cup {m} /\ pc' = "paging"
  BY DEF CursorPage, CursorLoop, CursorAnswers, collection, Goto, Repeated, Advance
<1>2. /\ \A k \in Row : got[k] \in Nat
      /\ \A k \in Row : got'[k] = IF k \in P THEN got[k] + 1 ELSE got[k]
  BY <1>1, CollectFacts
<1>3. /\ rows \subseteq Row /\ cursor \in Row \cup {Start} /\ seen \subseteq Row
      /\ Row \subseteq Nat /\ Start = 0 /\ cursor \in Nat
  BY Constants DEF TypeOK
<1>4. /\ \A k \in Row : got[k] <= 1 /\ (got[k] = 1 => k <= cursor)
      /\ \A k \in Stable : k <= cursor => got[k] = 1
      /\ \A k \in seen : k <= cursor
  BY <1>1 DEF CursorInv, CursorRowsOnce, CursorLoop
<1>5. /\ P \subseteq Above(cursor) /\ Above(cursor) \subseteq Row
      /\ \A k \in Above(cursor) : k > cursor
      /\ m = Start => P = Above(cursor)
      /\ m # Start =>
            /\ m \in P
            /\ \A k \in P : k <= m
            /\ \A k \in Above(cursor) : k <= m => k \in P
  BY <1>3, KeysetFacts
<1>6. \A k \in Stable : k \in Row /\ (k > cursor => k \in Above(cursor))
  BY <1>3 DEF HistoryInv, Stable, Above
<1> HIDE DEF P, m
<1>7. \A k \in Row : k \in P => got[k] = 0
  <2> SUFFICES ASSUME NEW k \in Row, k \in P PROVE got[k] = 0
    OBVIOUS
  <2>1. k > cursor /\ k \in Nat
    BY <1>3, <1>5
  <2> QED BY <1>2, <1>3, <1>4, <2>1
<1>8. \A k \in Row : got'[k] <= 1 /\ (got'[k] = 1 => got[k] = 1 \/ k \in P)
  BY <1>2, <1>4, <1>7
<1>9. \A k \in Stable : k <= cursor \/ k \in P => got'[k] = 1
  <2> SUFFICES ASSUME NEW k \in Stable, k <= cursor \/ k \in P PROVE got'[k] = 1
    OBVIOUS
  <2>1. k \in Row
    BY <1>6
  <2>2. CASE k \in P
    BY <1>2, <1>7, <2>1, <2>2
  <2>3. CASE k \notin P
    BY <1>2, <1>4, <2>1, <2>3
  <2> QED BY <2>2, <2>3
<1>10. m # Start => m \notin seen /\ m \in Nat /\ m > cursor
  <2> SUFFICES ASSUME m # Start PROVE m \notin seen /\ m \in Nat /\ m > cursor
    OBVIOUS
  <2>1. m \in Nat /\ m > cursor
    BY <1>3, <1>5
  <2>2. m \in seen => m <= cursor
    BY <1>4
  <2> QED BY <1>3, <2>1, <2>2
<1>11. Stable' = Stable /\ CursorLoop' /\ pc' # "repeated"
  BY <1>1, <1>10 DEF Stable, CursorLoop
<1>12. CASE m = Start
  <2>1. pc' = "returned"
    BY <1>1, <1>12
  <2>2. \A k \in Stable : got'[k] = 1
    <3> SUFFICES ASSUME NEW k \in Stable PROVE k <= cursor \/ k \in P
      BY <1>9
    <3>1. k \in Nat /\ (k > cursor => k \in P)
      BY <1>3, <1>5, <1>6, <1>12
    <3> QED BY <1>3, <3>1
  <2> QED BY <1>8, <1>11, <2>1, <2>2 DEF CursorInv, CursorRowsOnce
<1>13. CASE m # Start
  <2>1. cursor' = m /\ seen' = seen \cup {m} /\ pc' = "paging"
    BY <1>1, <1>10, <1>13
  <2>2. \A k \in Row : got'[k] = 1 => k <= m
    <3> SUFFICES ASSUME NEW k \in Row, got'[k] = 1 PROVE k <= m
      OBVIOUS
    <3>1. k <= cursor \/ k \in P
      BY <1>4, <1>8
    <3>2. k \in Nat
      BY <1>3
    <3> QED BY <1>3, <1>5, <1>10, <1>13, <3>1, <3>2
  <2>3. \A k \in Stable : k <= m => got'[k] = 1
    <3> SUFFICES ASSUME NEW k \in Stable, k <= m PROVE k <= cursor \/ k \in P
      BY <1>9
    <3>1. k \in Nat /\ (k > cursor => k \in P)
      BY <1>3, <1>5, <1>6, <1>13
    <3> QED BY <1>3, <3>1
  <2>4. \A k \in seen' : k <= m
    <3> SUFFICES ASSUME NEW k \in seen PROVE k <= m
      BY <1>10, <1>13, <2>1
    <3>1. k \in Nat /\ k <= cursor
      BY <1>3, <1>4
    <3> QED BY <1>3, <1>10, <1>13, <3>1
  <2> QED BY <1>8, <1>11, <2>1, <2>2, <2>3, <2>4 DEF CursorInv, CursorRowsOnce
<1> QED BY <1>12, <1>13

LEMMA CursorInductive ==
  ASSUME TypeOK, HistoryInv, PlaceInv, CursorInv, [Next]_vars
  PROVE  CursorInv'
<1> SUFFICES ASSUME CursorLoop' PROVE CursorInv'
  BY DEF CursorInv
<1>0. UNCHANGED <<call, honest>>
  BY DEF Next, Client, IterProjects, IterJobs, CursorPage, InventoryPage, PageFails,
         OpenTable, WriteTable, Crash, AllOver, Insert, Delete, vars
<1>1. CursorLoop
  BY <1>0 DEF CursorLoop
<1>2. CASE IterProjects \/ IterJobs
  BY <1>1, <1>2, PageKeepsCursorInv DEF IterProjects, IterJobs
<1>3. CASE PageFails \/ Crash
  <2>1. /\ pc' \in {"raised", "cut", "crashed"}
        /\ UNCHANGED <<call, honest, collection, cursor, seen, got>>
    BY <1>3 DEF PageFails, Crash, Goto
  <2> QED BY <1>1, <2>1 DEF CursorInv, CursorRowsOnce, CursorLoop, collection, Stable
<1>4. ~InventoryPage /\ ~OpenTable /\ ~WriteTable
  BY <1>1 DEF CursorLoop, InventoryPage, OpenTable, WriteTable, PlaceInv
<1>5. CASE \E k \in Row : Insert(k) \/ Delete(k)
  <2>1. Stable' \subseteq Stable /\ UNCHANGED <<call, honest, pc, cursor, seen, got>>
    BY <1>5 DEF Insert, Delete, Stable
  <2> QED BY <1>1, <2>1 DEF CursorInv, CursorRowsOnce, CursorLoop
<1>6. CASE AllOver \/ UNCHANGED vars
  BY <1>6 DEF AllOver, vars, CursorInv, CursorRowsOnce, CursorLoop, Stable
<1> QED BY <1>2, <1>3, <1>4, <1>5, <1>6 DEF Next, Client

-----------------------------------------------------------------------------
\* The inventory loop: what a page takes of the ranks.

\* A row has at most skip rows before it that were passed, and the others.
LEMMA CountBelow ==
  ASSUME TypeOK, NEW k \in rows, NEW T, T \subseteq rows,
         \A j \in rows : j < k => Before(j, rows) < skip \/ j \in T
  PROVE  Before(k, rows) <= skip + Cardinality(T)
<1> DEFINE B == {j \in rows : j < k}
           Low == {j \in B : Before(j, rows) < skip}
<1>0. rows \subseteq Row /\ skip \in Nat
  BY DEF TypeOK
<1>1. /\ IsFiniteSet(T) /\ Cardinality(T) \in Nat
      /\ IsFiniteSet(Low) /\ Cardinality(Low) \in Nat
      /\ IsFiniteSet(B) /\ Cardinality(B) \in Nat
  BY <1>0, RowsFinite
<1>2. Cardinality(Low) <= skip
  <2>1. \A j \in Low : Before(j, rows) \in 0..(0 + skip - 1)
    <3> SUFFICES ASSUME NEW j \in Low PROVE Before(j, rows) \in 0..(0 + skip - 1)
      OBVIOUS
    <3>1. Before(j, rows) \in Nat /\ Before(j, rows) < skip
      BY <1>0, BeforeType
    <3> QED BY <1>0, <3>1
  <2>2. Low \subseteq rows
    OBVIOUS
  <2> HIDE DEF Low
  <2> QED BY <1>0, <2>1, <2>2, RankedAtMost
<1>3. B \subseteq Low \cup T
  OBVIOUS
<1> HIDE DEF B, Low
<1>4. /\ IsFiniteSet(Low \cup T) /\ Cardinality(Low \cap T) \in Nat
      /\ Cardinality(Low \cup T) = Cardinality(Low) + Cardinality(T) - Cardinality(Low \cap T)
  BY <1>1, FS_Union, FS_Intersection, FS_CardinalityType
<1>5. Cardinality(B) <= Cardinality(Low \cup T)
  BY <1>3, <1>4, FS_Subset
<1>6. Cardinality(B) <= skip + Cardinality(T)
  BY <1>0, <1>1, <1>2, <1>4, <1>5
<1> QED BY <1>6 DEF Before, B

\* No page is longer than asked for.
LEMMA PageLength ==
  ASSUME TypeOK
  PROVE  Cardinality(OffsetRows) <= Limit
<1>1. rows \subseteq Row /\ skip \in Nat /\ Limit \in Nat
  BY Constants DEF TypeOK
<1>2. OffsetRows \subseteq rows /\ \A k \in OffsetRows : Before(k, rows) \in skip..(skip + Limit - 1)
  BY DEF OffsetRows
<1> QED BY <1>1, <1>2, RankedAtMost

\* The rows of a page have the ranks from skip on, without a gap.
LEMMA PageRanks ==
  ASSUME TypeOK
  PROVE  /\ \A k \in OffsetRows :
               skip <= Before(k, rows) /\ Before(k, rows) < skip + Cardinality(OffsetRows)
         /\ \A k \in rows :
               Before(k, rows) < skip + Cardinality(OffsetRows) =>
                  Before(k, rows) < skip \/ k \in OffsetRows
<1> DEFINE P == OffsetRows
           n == Cardinality(P)
<1>0. /\ rows \subseteq Row /\ skip \in Nat /\ Limit \in Nat /\ P \subseteq rows
      /\ n \in Nat /\ n <= Limit /\ IsFiniteSet(P)
  BY Constants, OffsetFacts, PageLength DEF TypeOK
<1>1. \A k \in rows : Before(k, rows) \in Nat
  BY <1>0, BeforeType
<1>2. \A k \in rows : k \in P <=> skip <= Before(k, rows) /\ Before(k, rows) <= skip + Limit - 1
  BY <1>0, <1>1 DEF OffsetRows
<1> HIDE DEF P
<1>3. ASSUME NEW k \in P PROVE skip <= Before(k, rows) /\ Before(k, rows) < skip + n
  <2>1. k \in rows /\ skip <= Before(k, rows) /\ Before(k, rows) <= skip + Limit - 1
    BY <1>0, <1>2
  <2>2. ASSUME NEW j \in rows, j < k PROVE Before(j, rows) < skip \/ j \in P \ {k}
    <3>1. Before(j, rows) < Before(k, rows) /\ Before(j, rows) \in Nat /\ Before(k, rows) \in Nat
      BY <1>0, <1>1, <2>1, <2>2, BeforeGrows
    <3>2. j # k
      <4>1. j \in Nat /\ k \in Nat
        BY <1>0, <2>1, Constants
      <4> QED BY <2>2, <4>1
    <3>3. CASE Before(j, rows) < skip
      BY <3>3
    <3>4. CASE skip <= Before(j, rows)
      <4>1. Before(j, rows) <= skip + Limit - 1
        BY <1>0, <2>1, <3>1
      <4> QED BY <1>2, <3>2, <3>4, <4>1
    <3> QED BY <1>0, <3>1, <3>3, <3>4
  <2>3. Before(k, rows) <= skip + Cardinality(P \ {k})
    <3>1. P \ {k} \subseteq rows
      BY <1>0
    <3> QED BY <2>1, <2>2, <3>1, CountBelow
  <2>4. Cardinality(P \ {k}) = n - 1
    BY <1>0, FS_RemoveElement
  <2>5. Before(k, rows) \in Nat
    BY <1>1, <2>1
  <2> QED BY <1>0, <2>1, <2>3, <2>4, <2>5
<1>4. ASSUME NEW k \in rows, Before(k, rows) < skip + n
      PROVE  Before(k, rows) < skip \/ k \in P
  <2>1. Before(k, rows) \in Nat
    BY <1>1
  <2>2. CASE skip <= Before(k, rows)
    <3>1. Before(k, rows) <= skip + Limit - 1
      BY <1>0, <1>4, <2>1
    <3> QED BY <1>2, <2>2, <3>1
  <2> QED BY <1>0, <2>1, <2>2
<1> QED BY <1>3, <1>4 DEF P

\* After the last page no row is left.
LEMMA LastPageFacts ==
  ASSUME TypeOK, NEW named, LastPage(OffsetRows, named), NEW k \in rows
  PROVE  Before(k, rows) < skip \/ k \in OffsetRows
<1> DEFINE P == OffsetRows
           n == Cardinality(P)
<1>0. /\ rows \subseteq Row /\ rows \subseteq Nat /\ skip \in Nat /\ Limit \in Nat /\ P \subseteq rows
      /\ n \in Nat /\ n <= Limit
  BY Constants, OffsetFacts, PageLength DEF TypeOK
<1>1. \A j \in rows : Before(j, rows) \in Nat
  BY <1>0, BeforeType
<1>2. \A j \in rows :
         Before(j, rows) < skip + Limit => Before(j, rows) < skip \/ j \in P
  <2> SUFFICES ASSUME NEW j \in rows, Before(j, rows) < skip + Limit, skip <= Before(j, rows)
               PROVE  j \in P
    BY <1>0, <1>1
  <2>1. Before(j, rows) \in skip..(skip + Limit - 1)
    BY <1>0, <1>1
  <2> QED BY <2>1 DEF OffsetRows
<1>3. CASE n < Limit
  <2> DEFINE Left == {j \in rows : ~(Before(j, rows) < skip + Limit)}
  <2>1. SUFFICES ASSUME Left # {} PROVE FALSE
    BY <1>2
  <2>2. PICK l \in Left : \A j \in Left : l <= j
    BY <1>0, <2>1, LeastRow
  <2>3. \A j \in rows : j < l => Before(j, rows) < skip \/ j \in P
    <3> SUFFICES ASSUME NEW j \in rows, j < l PROVE j \notin Left
      BY <1>2
    <3>1. j \in Nat /\ l \in Nat
      BY <1>0
    <3> QED BY <2>2, <3>1
  <2>4. Before(l, rows) <= skip + n
    BY <1>0, <2>3, CountBelow
  <2>5. Before(l, rows) \in Nat /\ ~(Before(l, rows) < skip + Limit)
    BY <1>1
  <2> HIDE DEF n, P
  <2> QED BY <1>0, <1>3, <2>4, <2>5
<1>4. CASE skip + n >= Cardinality(rows)
  <2> DEFINE B == {j \in rows : j < k}
  <2>1. IsFiniteSet(rows) /\ Cardinality(rows) \in Nat
    BY <1>0, RowsFinite
  <2>2. B \subseteq rows \ {k}
    <3>1. k \in Nat
      BY <1>0
    <3> QED BY <3>1
  <2>3. IsFiniteSet(rows \ {k}) /\ Cardinality(rows \ {k}) = Cardinality(rows) - 1
    BY <2>1, FS_RemoveElement
  <2> HIDE DEF B
  <2>4. Cardinality(B) <= Cardinality(rows) - 1
    BY <2>2, <2>3, FS_Subset
  <2>5. Before(k, rows) <= Cardinality(rows) - 1
    BY <2>4 DEF Before, B
  <2>6. Before(k, rows) < skip + n
    <3>1. Before(k, rows) \in Nat
      BY <1>1
    <3> HIDE DEF n
    <3> QED BY <1>0, <1>4, <2>1, <2>5, <3>1
  <2> QED BY <2>6, PageRanks
<1> QED BY <1>3, <1>4 DEF LastPage

-----------------------------------------------------------------------------
\* What an edit and a page do to the counts.

LEMMA CountsFinite ==
  ASSUME TypeOK
  PROVE  /\ IsFiniteSet(Missed) /\ Cardinality(Missed) \in Nat
         /\ IsFiniteSet(Missed \cap Passed) /\ Cardinality(Missed \cap Passed) \in Nat
         /\ IsFiniteSet(deleted) /\ Cardinality(deleted) \in Nat
         /\ IsFiniteSet(Inserted) /\ Cardinality(Inserted) \in Nat
         /\ IsFiniteSet(Ahead) /\ Cardinality(Ahead) \in Nat
         /\ IsFiniteSet(Repeats) /\ Cardinality(Repeats) \in Nat
<1>1. /\ Missed \subseteq Row /\ Missed \cap Passed \subseteq Row /\ deleted \subseteq Row
      /\ Inserted \subseteq Row /\ Ahead \subseteq Row
  BY DEF TypeOK, Missed, Stable, Inserted, Ahead
<1>2. IsFiniteSet(Repeats)
  <2>1. IsFiniteSet(Row) /\ IsFiniteSet(2..(MaxEdits + 2))
    <3>1. 2 \in Int /\ MaxEdits + 2 \in Int
      BY Constants
    <3> QED BY <3>1, RowsFinite, FS_Interval
  <2>2. IsFiniteSet(Row \X (2..(MaxEdits + 2)))
    BY <2>1, FS_Product
  <2>3. Repeats \subseteq Row \X (2..(MaxEdits + 2))
    BY DEF Repeats
  <2> QED BY <2>2, <2>3, FS_Subset
<1> QED BY <1>1, <1>2, RowsFinite, FS_CardinalityType

\* Two sets that differ by one element at most.
LEMMA OneMore ==
  ASSUME NEW S, IsFiniteSet(S), NEW T, NEW x, T \subseteq S \cup {x}
  PROVE  IsFiniteSet(T) /\ Cardinality(T) <= Cardinality(S) + 1
<1>1. /\ IsFiniteSet(S \cup {x}) /\ Cardinality(S) \in Nat
      /\ Cardinality(S \cup {x}) = IF x \in S THEN Cardinality(S) ELSE Cardinality(S) + 1
  BY FS_AddElement, FS_CardinalityType
<1>2. IsFiniteSet(T) /\ Cardinality(T) <= Cardinality(S \cup {x})
  BY <1>1, FS_Subset
<1>3. Cardinality(T) \in Nat
  BY <1>2, FS_CardinalityType
<1> QED BY <1>1, <1>2, <1>3

LEMMA InsertRanks ==
  ASSUME TypeOK, NEW j \in Row, Insert(j)
  PROVE  \A k \in rows : /\ Before(k, rows) \in Nat /\ Before(k, rows') \in Nat
                          /\ Before(k, rows) <= Before(k, rows')
                          /\ Before(k, rows') <= Before(k, rows) + 1
<1> SUFFICES ASSUME NEW k \in rows
             PROVE  /\ Before(k, rows) \in Nat /\ Before(k, rows') \in Nat
                    /\ Before(k, rows) <= Before(k, rows')
                    /\ Before(k, rows') <= Before(k, rows) + 1
  OBVIOUS
<1>1. rows \subseteq Row /\ j \in Row \ rows /\ k \in Row /\ rows' = rows \cup {j}
  BY DEF TypeOK, Insert
<1>2. Before(k, rows') = Before(k, rows) + (IF j < k THEN 1 ELSE 0)
  BY <1>1, BeforeInsert
<1>3. Before(k, rows) \in Nat
  BY <1>1, BeforeType
<1> QED BY <1>2, <1>3

LEMMA DeleteRanks ==
  ASSUME TypeOK, NEW j \in Row, Delete(j)
  PROVE  \A k \in rows' : /\ Before(k, rows) \in Nat /\ Before(k, rows') \in Nat
                           /\ Before(k, rows') <= Before(k, rows)
                           /\ Before(k, rows) <= Before(k, rows') + 1
<1> SUFFICES ASSUME NEW k \in rows'
             PROVE  /\ Before(k, rows) \in Nat /\ Before(k, rows') \in Nat
                    /\ Before(k, rows') <= Before(k, rows)
                    /\ Before(k, rows) <= Before(k, rows') + 1
  OBVIOUS
<1>1. rows' \subseteq Row /\ j \in Row \ rows' /\ k \in Row /\ rows = rows' \cup {j}
  BY DEF TypeOK, Delete
<1>2. Before(k, rows) = Before(k, rows') + (IF j < k THEN 1 ELSE 0)
  BY <1>1, BeforeInsert
<1>3. Before(k, rows') \in Nat
  BY <1>1, BeforeType
<1> QED BY <1>2, <1>3

\* An inserted row moves no row back over the offset, and one ahead at most.
LEMMA InsertKeeps ==
  ASSUME TypeOK, HistoryInv, MissedInv, RepeatedInv, NEW j \in Row, Insert(j)
  PROVE  MissedInv' /\ RepeatedInv'
<1>1. /\ j \notin rows \cup deleted /\ rows' = rows \cup {j}
      /\ UNCHANGED <<call, initial, deleted, pc, skip, got>>
      /\ rows \subseteq Row /\ skip \in Nat
  BY DEF Insert, TypeOK
<1>2. /\ j \notin initial /\ got[j] = 0
  BY <1>1 DEF HistoryInv, TypeOK
<1>3. Missed' = Missed /\ Repeats' = Repeats /\ j \notin Missed
  BY <1>1, <1>2 DEF Missed, Stable, Repeats
<1>4. Missed \cap Passed' \subseteq Missed \cap Passed
  <2> SUFFICES ASSUME NEW k \in Missed, k \in Passed' PROVE k \in Passed
    OBVIOUS
  <2>1. k \in rows /\ Before(k, rows') < skip
    BY <1>1, <1>3 DEF Passed
  <2>2. Before(k, rows) < skip
    BY <1>1, <2>1, InsertRanks
  <2> QED BY <2>1, <2>2 DEF Passed
<1>5. \E x : Ahead' \subseteq Ahead \cup {x}
  <2>1. ASSUME NEW x \in Ahead' \ Ahead, NEW y \in Ahead' \ Ahead PROVE x = y
    <3>1. ASSUME NEW k \in Ahead' \ Ahead PROVE k \in rows /\ Before(k, rows) = skip - 1
      <4>1. k \in rows' /\ got[k] > 0 /\ Before(k, rows') >= skip
        BY <1>1 DEF Ahead
      <4>2. k \in rows
        BY <1>1, <1>2, <4>1
      <4>3. ~(Before(k, rows) >= skip)
        BY <4>1, <4>2 DEF Ahead
      <4>4. /\ Before(k, rows) \in Nat /\ Before(k, rows') \in Nat
            /\ Before(k, rows') <= Before(k, rows) + 1
        BY <4>2, InsertRanks
      <4> QED BY <1>1, <4>1, <4>2, <4>3, <4>4
    <3> QED BY <1>1, <2>1, <3>1, RanksDiffer
  <2>2. CASE Ahead' \subseteq Ahead
    BY <2>2
  <2>3. CASE ~(Ahead' \subseteq Ahead)
    <3>1. PICK x \in Ahead' \ Ahead : TRUE
      BY <2>3
    <3>2. Ahead' \subseteq Ahead \cup {x}
      BY <2>1, <3>1
    <3> QED BY <3>2
  <2> QED BY <2>2, <2>3
<1>6. PICK x : Ahead' \subseteq Ahead \cup {x}
  BY <1>5
<1>7. Cardinality(Inserted') = Cardinality(Inserted) + 1
  <2>1. Inserted' = Inserted \cup {j} /\ j \notin Inserted
    BY <1>1, <1>2 DEF Inserted
  <2>2. IsFiniteSet(Inserted)
    BY CountsFinite
  <2> QED BY <2>1, <2>2, FS_AddElement
<1>8. MissedInv'
  <2>1. Cardinality(Missed \cap Passed') <= Cardinality(Missed \cap Passed)
        /\ Cardinality(Missed \cap Passed') \in Nat
    BY <1>4, CountsFinite, FS_Subset, FS_CardinalityType
  <2>2. deleted' = deleted /\ pc' = pc /\ call' = call
    BY <1>1
  <2>3. pc = "paging" /\ call.loop = "inventory" =>
           Cardinality(Missed' \cap Passed') <= Cardinality(deleted')
    BY <1>3, <2>1, <2>2, CountsFinite DEF MissedInv
  <2>4. Scanned' = Scanned
    BY <2>2 DEF Scanned
  <2> QED BY <1>3, <2>2, <2>3, <2>4 DEF MissedInv
<1>9. RepeatedInv'
  <2>1. Cardinality(Ahead') <= Cardinality(Ahead) + 1 /\ Cardinality(Ahead') \in Nat
    BY <1>6, CountsFinite, OneMore, FS_CardinalityType
  <2>2. pc' = pc /\ call' = call /\ Scanned' = Scanned
    BY <1>1 DEF Scanned
  <2>3. pc = "paging" /\ call.loop = "inventory" =>
           Cardinality(Repeats) + Cardinality(Ahead') <= Cardinality(Inserted')
    BY <1>7, <2>1, CountsFinite DEF RepeatedInv
  <2>4. Scanned /\ call.loop = "inventory" => Cardinality(Repeats) <= Cardinality(Inserted')
    BY <1>7, CountsFinite DEF RepeatedInv
  <2> QED BY <1>3, <2>2, <2>3, <2>4 DEF RepeatedInv
<1> QED BY <1>8, <1>9

\* A deleted row moves one row back over the offset at most, and none ahead.
LEMMA DeleteKeeps ==
  ASSUME TypeOK, HistoryInv, MissedInv, RepeatedInv, NEW j \in Row, Delete(j)
  PROVE  MissedInv' /\ RepeatedInv'
<1>1. /\ j \in rows /\ rows' = rows \ {j} /\ deleted' = deleted \cup {j}
      /\ UNCHANGED <<call, initial, pc, skip, got>>
      /\ rows \subseteq Row /\ skip \in Nat /\ j \notin deleted
  BY DEF Delete, TypeOK, HistoryInv
<1>2. Missed' \subseteq Missed /\ Repeats' = Repeats /\ Inserted' = Inserted
  BY <1>1 DEF Missed, Stable, Repeats, Inserted
<1>3. Ahead' \subseteq Ahead
  <2> SUFFICES ASSUME NEW k \in Ahead' PROVE k \in Ahead
    OBVIOUS
  <2>1. k \in rows' /\ k \in rows /\ got[k] > 0 /\ Before(k, rows') >= skip
    BY <1>1 DEF Ahead
  <2>2. Before(k, rows) >= skip
    BY <1>1, <2>1, DeleteRanks
  <2> QED BY <2>1, <2>2 DEF Ahead
<1>4. \E x : Passed' \subseteq Passed \cup {x}
  <2>1. ASSUME NEW x \in Passed' \ Passed, NEW y \in Passed' \ Passed PROVE x = y
    <3>1. ASSUME NEW k \in Passed' \ Passed PROVE k \in rows /\ Before(k, rows) = skip
      <4>1. k \in rows' /\ k \in rows /\ Before(k, rows') < skip
        BY <1>1 DEF Passed
      <4>2. ~(Before(k, rows) < skip)
        BY <4>1 DEF Passed
      <4> QED BY <1>1, <4>1, <4>2, DeleteRanks
    <3> QED BY <1>1, <2>1, <3>1, RanksDiffer
  <2>2. CASE Passed' \subseteq Passed
    BY <2>2
  <2>3. CASE ~(Passed' \subseteq Passed)
    <3>1. PICK x \in Passed' \ Passed : TRUE
      BY <2>3
    <3>2. Passed' \subseteq Passed \cup {x}
      BY <2>1, <3>1
    <3> QED BY <3>2
  <2> QED BY <2>2, <2>3
<1>5. PICK x : Passed' \subseteq Passed \cup {x}
  BY <1>4
<1>6. Cardinality(deleted') = Cardinality(deleted) + 1
  BY <1>1, CountsFinite, FS_AddElement
<1>7. MissedInv'
  <2>1. Missed' \cap Passed' \subseteq (Missed \cap Passed) \cup {x}
    BY <1>2, <1>5
  <2>2. /\ Cardinality(Missed' \cap Passed') <= Cardinality(Missed \cap Passed) + 1
        /\ Cardinality(Missed' \cap Passed') \in Nat
    BY <2>1, CountsFinite, OneMore, FS_CardinalityType
  <2>3. Cardinality(Missed') <= Cardinality(Missed) /\ Cardinality(Missed') \in Nat
    BY <1>2, CountsFinite, FS_Subset, FS_CardinalityType
  <2>4. pc' = pc /\ call' = call /\ Scanned' = Scanned
    BY <1>1 DEF Scanned
  <2>5. pc = "paging" /\ call.loop = "inventory" =>
           Cardinality(Missed' \cap Passed') <= Cardinality(deleted')
    BY <1>6, <2>2, CountsFinite DEF MissedInv
  <2>6. Scanned /\ call.loop = "inventory" => Cardinality(Missed') <= Cardinality(deleted')
    BY <1>6, <2>3, CountsFinite DEF MissedInv
  <2> QED BY <2>4, <2>5, <2>6 DEF MissedInv
<1>8. RepeatedInv'
  <2>1. Cardinality(Ahead') <= Cardinality(Ahead) /\ Cardinality(Ahead') \in Nat
    BY <1>3, CountsFinite, FS_Subset, FS_CardinalityType
  <2>2. pc' = pc /\ call' = call /\ Scanned' = Scanned
    BY <1>1 DEF Scanned
  <2>3. pc = "paging" /\ call.loop = "inventory" =>
           Cardinality(Repeats) + Cardinality(Ahead') <= Cardinality(Inserted)
    BY <2>1, CountsFinite DEF RepeatedInv
  <2> QED BY <1>2, <2>2, <2>3 DEF RepeatedInv
<1> QED BY <1>7, <1>8

\* A page collects what it passes, and what it repeats was ahead.
LEMMA PageKeeps ==
  ASSUME TypeOK, HistoryInv, MissedInv, RepeatedInv, InventoryPage
  PROVE  MissedInv' /\ RepeatedInv'
<1> DEFINE P == OffsetRows
           n == Cardinality(P)
           A == {k \in P : got[k] > 0}
<1>1. PICK named \in BOOLEAN :
        /\ Collect(P) /\ skip' = skip + n
        /\ IF LastPage(P, named) THEN Goto("rendering") ELSE UNCHANGED pc
  BY DEF InventoryPage
<1>2. /\ pc = "paging" /\ call.loop = "inventory"
      /\ UNCHANGED <<call, rows, initial, deleted>>
  BY DEF InventoryPage, collection
<1>3. P \subseteq rows /\ rows \subseteq Row /\ n \in Nat /\ skip \in Nat /\ IsFiniteSet(P)
  BY OffsetFacts DEF TypeOK
<1>4. /\ \A k \in Row : got[k] \in Nat
      /\ \A k \in Row : got'[k] = IF k \in P THEN got[k] + 1 ELSE got[k]
  BY <1>1, CollectFacts
<1>5. \A k \in rows : Before(k, rows) \in Nat
  BY <1>3, BeforeType
<1>6. /\ \A k \in P : skip <= Before(k, rows) /\ Before(k, rows) < skip + n
      /\ \A k \in rows : Before(k, rows) < skip + n => Before(k, rows) < skip \/ k \in P
  BY PageRanks
<1>7. LastPage(P, named) => \A k \in rows : Before(k, rows) < skip \/ k \in P
  BY LastPageFacts
<1>8. Inserted' = Inserted /\ Stable' = Stable /\ Stable \subseteq rows
  BY <1>2 DEF Inserted, Stable, HistoryInv
<1>9. \/ pc' = "paging"
      \/ pc' = "rendering" /\ LastPage(P, named)
  BY <1>1, <1>2 DEF Goto
<1> HIDE DEF P, n
\* The rows the page passes are no longer missed.
<1>10. \A k \in Missed' : k \in Missed /\ k \notin P
  <2> SUFFICES ASSUME NEW k \in Missed' PROVE k \in Missed /\ k \notin P
    OBVIOUS
  <2>1. k \in Stable /\ got'[k] = 0 /\ k \in Row
    BY <1>3, <1>8 DEF Missed
  <2> QED BY <1>4, <2>1 DEF Missed
<1>11. MissedInv'
  <2>1. Missed' \cap Passed' \subseteq Missed \cap Passed
    <3> SUFFICES ASSUME NEW k \in Missed', k \in Passed' PROVE k \in Passed
      BY <1>10
    <3>1. k \in rows /\ Before(k, rows) < skip + n
      BY <1>1, <1>2 DEF Passed
    <3> QED BY <1>6, <1>10, <3>1 DEF Passed
  <2>2. LastPage(P, named) => Missed' \subseteq Missed \cap Passed
    <3> SUFFICES ASSUME LastPage(P, named), NEW k \in Missed' PROVE k \in Passed
      BY <1>10
    <3>1. k \in rows
      BY <1>8, <1>10 DEF Missed
    <3> QED BY <1>7, <1>10, <3>1 DEF Passed
  <2>3. Cardinality(Missed \cap Passed) <= Cardinality(deleted)
    BY <1>2 DEF MissedInv
  <2>4. \A S : S \subseteq Missed \cap Passed => Cardinality(S) <= Cardinality(deleted)
    <3> SUFFICES ASSUME NEW S, S \subseteq Missed \cap Passed
                 PROVE  Cardinality(S) <= Cardinality(deleted)
      OBVIOUS
    <3>1. Cardinality(S) <= Cardinality(Missed \cap Passed) /\ Cardinality(S) \in Nat
      BY CountsFinite, FS_Subset, FS_CardinalityType
    <3> QED BY <2>3, <3>1, CountsFinite
  <2>5. deleted' = deleted
    BY <1>2
  <2> QED BY <1>9, <2>1, <2>2, <2>4, <2>5 DEF MissedInv, Scanned
<1>12. RepeatedInv'
  <2> DEFINE f == [k \in A |-> <<k, got[k] + 1>>]
             N == {f[k] : k \in A}
  <2>1. A \subseteq Ahead /\ IsFiniteSet(A) /\ Cardinality(A) \in Nat
    <3>1. A \subseteq Ahead
      BY <1>3, <1>6 DEF Ahead
    <3> QED BY <3>1, CountsFinite, FS_Subset, FS_CardinalityType
  <2>2. Ahead' \subseteq Ahead \ A
    <3> SUFFICES ASSUME NEW k \in Ahead' PROVE k \in Ahead \ A
      OBVIOUS
    <3>1. k \in rows /\ got'[k] > 0 /\ Before(k, rows) >= skip + n
      BY <1>1, <1>2 DEF Ahead
    <3>2. k \notin P
      BY <1>3, <1>5, <1>6, <3>1
    <3>3. Before(k, rows) >= skip
      BY <1>3, <1>5, <3>1
    <3> QED BY <1>3, <1>4, <3>1, <3>2, <3>3 DEF Ahead
  <2>3. IsFiniteSet(N) /\ Cardinality(N) <= Cardinality(A) /\ Cardinality(N) \in Nat
    <3>1. f \in Surjection(A, N)
      <4> HIDE DEF A
      <4> QED BY DEF Surjection
    <3> HIDE DEF N, f
    <3> QED BY <2>1, <3>1, FS_Surjection, FS_CardinalityType
  <2>4. Repeats' \subseteq Repeats \cup N
    <3> SUFFICES ASSUME NEW r \in Repeats', r \notin Repeats PROVE r \in N
      OBVIOUS
    <3>1. /\ r \in Row \X (2..(MaxEdits + 2)) /\ got'[r[1]] >= r[2] /\ ~(got[r[1]] >= r[2])
      BY DEF Repeats
    <3>2. /\ r[1] \in Row /\ r[2] \in Nat /\ r[2] >= 2 /\ r = <<r[1], r[2]>>
      BY <3>1
    <3>3. r[1] \in P /\ r[2] = got[r[1]] + 1
      BY <1>4, <3>1, <3>2
    <3>4. r[1] \in A /\ f[r[1]] = r
      BY <1>4, <3>2, <3>3
    <3> QED BY <3>4
  <2> HIDE DEF A, N, f
  <2>5. /\ Cardinality(Repeats') <= Cardinality(Repeats) + Cardinality(A)
        /\ Cardinality(Repeats') \in Nat
    <3>1. /\ IsFiniteSet(Repeats \cup N) /\ Cardinality(Repeats \cap N) \in Nat
          /\ Cardinality(Repeats \cup N)
                = Cardinality(Repeats) + Cardinality(N) - Cardinality(Repeats \cap N)
      BY <2>3, CountsFinite, FS_Union, FS_Intersection, FS_CardinalityType
    <3>2. IsFiniteSet(Repeats') /\ Cardinality(Repeats') <= Cardinality(Repeats \cup N)
      BY <2>4, <3>1, FS_Subset
    <3>3. Cardinality(Repeats') \in Nat
      BY <3>2, FS_CardinalityType
    <3> QED BY <2>1, <2>3, <3>1, <3>2, <3>3, CountsFinite
  <2>6. /\ Cardinality(Ahead') <= Cardinality(Ahead) - Cardinality(A)
        /\ Cardinality(Ahead') \in Nat
    <3>1. IsFiniteSet(Ahead \ A) /\ Cardinality(Ahead \ A) = Cardinality(Ahead) - Cardinality(Ahead \cap A)
      BY CountsFinite, FS_Difference
    <3>2. Ahead \cap A = A
      BY <2>1
    <3>3. Cardinality(Ahead') <= Cardinality(Ahead \ A) /\ Cardinality(Ahead') \in Nat
      BY <2>2, <3>1, FS_Subset, FS_CardinalityType
    <3> QED BY <3>1, <3>2, <3>3
  <2>7. Cardinality(Repeats) + Cardinality(Ahead) <= Cardinality(Inserted)
    BY <1>2 DEF RepeatedInv
  <2>8. Cardinality(Repeats') + Cardinality(Ahead') <= Cardinality(Inserted)
    BY <2>1, <2>5, <2>6, <2>7, CountsFinite
  <2>9. Cardinality(Repeats') <= Cardinality(Inserted)
    BY <2>5, <2>6, <2>8, CountsFinite
  <2> QED BY <1>8, <2>8, <2>9 DEF RepeatedInv
<1> QED BY <1>11, <1>12

LEMMA CountsInductive ==
  ASSUME TypeOK, HistoryInv, MissedInv, RepeatedInv, [Next]_vars
  PROVE  MissedInv' /\ RepeatedInv'
<1>1. CASE IterProjects \/ IterJobs
  <2>1. call.loop # "inventory" /\ call' = call
    BY <1>1 DEF IterProjects, IterJobs, CursorPage
  <2> QED BY <2>1 DEF MissedInv, RepeatedInv
<1>2. CASE InventoryPage
  BY <1>2, PageKeeps
<1>3. CASE PageFails \/ OpenTable \/ WriteTable \/ Crash \/ AllOver \/ UNCHANGED vars
  <2>1. UNCHANGED <<call, rows, initial, deleted, skip, got>>
    BY <1>3 DEF PageFails, OpenTable, WriteTable, Crash, AllOver, vars, collection
  <2>2. pc' # pc => pc' # "paging" /\ (Scanned' => Scanned)
    BY <1>3 DEF PageFails, OpenTable, WriteTable, Crash, AllOver, vars, Goto, Scanned
  <2>3. /\ Missed' = Missed /\ Passed' = Passed /\ Repeats' = Repeats
        /\ Ahead' = Ahead /\ Inserted' = Inserted
    BY <2>1 DEF Missed, Stable, Passed, Repeats, Ahead, Inserted
  <2> QED BY <2>1, <2>2, <2>3 DEF MissedInv, RepeatedInv, Scanned
<1>4. CASE \E k \in Row : Insert(k)
  BY <1>4, InsertKeeps
<1>5. CASE \E k \in Row : Delete(k)
  BY <1>5, DeleteKeeps
<1> QED BY <1>1, <1>2, <1>3, <1>4, <1>5 DEF Next, Client

-----------------------------------------------------------------------------
\* The invariant and what follows from it.

LEMMA Initial == Init => IInv
<1> SUFFICES ASSUME Init PROVE IInv
  OBVIOUS
<1> USE DEF Init
<1>1. TypeOK
  <2>1. call \in Calls /\ honest \in BOOLEAN
    OBVIOUS
  <2> QED BY <2>1 DEF TypeOK, Old
<1>2. HistoryInv /\ CursorInv
  BY Constants DEF HistoryInv, CursorInv, CursorRowsOnce, Stable
<1>3. PlaceInv
  BY DEF PlaceInv, WroteTable
<1>4. Missed \cap Passed = {} /\ Repeats = {} /\ Ahead = {}
  <2>1. \A k \in rows : Before(k, rows) \in Nat
    BY BeforeType
  <2>2. \A r \in Row \X (2..(MaxEdits + 2)) : r[1] \in Row /\ ~(0 >= r[2])
    OBVIOUS
  <2> QED BY <2>1, <2>2 DEF Passed, Repeats, Ahead
<1>5. Cardinality({}) = 0 /\ Cardinality(deleted) \in Nat /\ Cardinality(Inserted) \in Nat
  BY <1>1, CountsFinite, FS_EmptySet
<1>6. MissedInv /\ RepeatedInv
  BY <1>4, <1>5 DEF MissedInv, RepeatedInv, Scanned
<1> QED BY <1>1, <1>2, <1>3, <1>6 DEF IInv

LEMMA Invariant == Spec => []IInv
<1>1. IInv /\ [Next]_vars => IInv'
  BY TypesInductive, PlaceInductive, CursorInductive, CountsInductive DEF IInv
<1> QED BY <1>1, Initial, PTL DEF Spec

\* The variables keep their shape (client.py 401-413, 458-477, 1125-1169,
\* 1320-1343).
THEOREM TypeCorrect == Spec => []TypeOK
<1>1. IInv => TypeOK
  BY DEF IInv
<1> QED BY <1>1, Invariant, PTL

\* With an honest service no cursor is refused, no row is yielded twice, and
\* every row that was there all the time is (client.py 401-413, 458-477).
THEOREM CursorsAreExact == Spec => []CursorRowsOnce
<1>1. IInv => CursorRowsOnce
  BY DEF IInv, CursorInv, CursorLoop, CursorRowsOnce
<1> QED BY <1>1, Invariant, PTL

\* An inventory scan misses at most one row for every row deleted meanwhile,
\* and repeats one for every row inserted (client.py 1320-1343).
THEOREM DriftIsBounded == Spec => []OffsetDriftBounded
<1>1. IInv => OffsetDriftBounded
  BY DEF IInv, MissedInv, RepeatedInv, Scanned, Inserted, OffsetDriftBounded
<1> QED BY <1>1, Invariant, PTL

\* A scan that fails or breaks off leaves the old table, and the table of one that
\* ends lacks, of the rows it has a place for, at most one for every row deleted
\* meanwhile (client.py 1125-1169).
THEOREM TableIsOfTheScan == Spec => []TableAfterScan
<1>1. ASSUME IInv PROVE TableAfterScan
  <2>1. /\ TypeOK /\ PlaceInv /\ MissedInv
        /\ \A k \in Row : got[k] > 0 => k \in rows \cup deleted
    BY <1>1 DEF IInv, HistoryInv
  <2>2. file # Old => call.loop = "inventory" /\ pc \in {"writing", "cut", "returned"}
    BY <2>1 DEF PlaceInv, WroteTable
  <2>3. ASSUME WroteTable
        PROVE  /\ file.kind = "table" /\ file.rows \subseteq rows \cup deleted
               /\ Cardinality((Stable \cap HasPlace(call.format)) \ file.rows)
                     <= Cardinality(deleted)
    <3>1. file = Table(Rendered(call.format, Collected)) /\ Rendered(call.format, Collected)
            = Collected \cap HasPlace(call.format)
      <4>1. Collected \subseteq Row
        BY DEF Collected
      <4>2. Rendered(call.format, Collected) =
               IF call.format \in {"geojson", "kml"} THEN Collected \cap Located
                                                    ELSE Collected
        BY <2>1, <2>3, RenderedFacts DEF WroteTable, TypeOK
      <4>3. file = Table(Rendered(call.format, Collected))
        BY <2>1, <2>3 DEF PlaceInv, WroteTable
      <4> QED BY <4>1, <4>2, <4>3 DEF HasPlace
    <3>2. file.kind = "table" /\ file.rows = Collected \cap HasPlace(call.format)
      BY <3>1 DEF Table
    <3>3. Stable \subseteq Row /\ Missed \subseteq Row /\ got \in [Row -> Nat]
      BY <2>1 DEF TypeOK, Stable, Missed
    <3>4. (Stable \cap HasPlace(call.format)) \ file.rows \subseteq Missed
      BY <3>2, <3>3 DEF Collected, Missed
    <3>5. /\ Cardinality((Stable \cap HasPlace(call.format)) \ file.rows)
               <= Cardinality(Missed)
          /\ Cardinality((Stable \cap HasPlace(call.format)) \ file.rows) \in Nat
      <4>1. IsFiniteSet(Missed)
        BY <3>3, RowsFinite
      <4>2. (Stable \cap HasPlace(call.format)) \ file.rows \subseteq Row
        BY <3>3
      <4> QED BY <3>4, <4>1, <4>2, FS_Subset, RowsFinite
    <3>6. Cardinality(Missed) <= Cardinality(deleted)
      BY <2>1, <2>3 DEF MissedInv, Scanned, WroteTable
    <3>7. Cardinality(Missed) \in Nat /\ Cardinality(deleted) \in Nat
      BY <2>1, <3>3, RowsFinite DEF TypeOK
    <3>8. file.rows \subseteq rows \cup deleted
      BY <2>1, <3>2 DEF Collected
    <3>9. Cardinality((Stable \cap HasPlace(call.format)) \ file.rows) <= Cardinality(deleted)
      BY <3>5, <3>6, <3>7
    <3> QED BY <3>2, <3>8, <3>9
  <2> QED BY <2>2, <2>3 DEF TableAfterScan
<1> QED BY <1>1, Invariant, PTL
=============================================================================
