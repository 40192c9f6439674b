-------------------------------- MODULE Scan --------------------------------
(***************************************************************************)
(* The paging loops of the client over a collection that other users edit: *)
(* iter_projects and iter_jobs follow cursors (client.py 401-413, 458-477), *)
(* _all_inventory_items counts rows with skip (1320-1343) and is the first *)
(* half of download_project_table, whose second half writes the            *)
(* destination in place (1125-1169).                                       *)
(*                                                                         *)
(* A row is its position in the service's order.  Each page is cut from    *)
(* the rows the collection has at that moment.                             *)
(*                                                                         *)
(* A definition marked "fault" is a wrong variant of the one that follows  *)
(* it; nothing uses it (README, "Faults").                                 *)
(***************************************************************************)
EXTENDS Naturals, FiniteSets

CONSTANTS
    Last,       \* the rows that may exist are 1..Last
    Located,    \* the rows with a numeric latitude and longitude
    Limit,      \* the page length asked for, within the service's maximum
    MaxEdits    \* bound: how many rows others insert or delete meanwhile

ASSUME ScanAssumption ==
    /\ Last \in Nat /\ Limit \in Nat \ {0} /\ MaxEdits \in Nat
    /\ Located \subseteq 1..Last

Row == 1..Last
Start == 0      \* the empty cursor, which also stands for no next cursor

VARIABLES
    call,       \* [loop, format]: which loop runs, for which table format
    honest,     \* the service follows its own cursors
    rows,       \* the collection now
    initial,    \* the collection when the scan began (history)
    deleted,    \* the rows deleted since (history)
    pc,         \* "paging", "rendering", "writing", or how the call ended
    cursor, seen,   \* of the cursor loops
    skip,       \* of the offset loop: also the number of rows collected
    got,        \* how often each row has been yielded or collected
    file        \* the table at the destination

vars == <<call, honest, rows, initial, deleted, pc, cursor, seen, skip, got, file>>
collection == <<rows, initial, deleted>>

\* "cut": the write of the table broke off; "crashed": the call before it
Ended == {"returned", "raised", "repeated", "cut", "crashed"}
Old == [kind |-> "old", rows |-> {}]
Torn == [kind |-> "torn", rows |-> {}]
Table(R) == [kind |-> "table", rows |-> R]

Formats == {"csv", "json", "geojson", "kml"}
Calls == [loop : {"projects", "jobs"}, format : {"none"}]
             \cup [loop : {"inventory"}, format : Formats]

Init ==
    /\ call \in Calls
    /\ honest \in IF call.loop = "inventory" THEN {TRUE} ELSE BOOLEAN
    /\ rows \in SUBSET Row /\ initial = rows /\ deleted = {}
    /\ pc = "paging" /\ cursor = Start /\ seen = {} /\ skip = 0
    /\ got = [k \in Row |-> 0]
    /\ file = Old

Goto(where) == pc' = where
Collect(page) == got' = [k \in Row |-> got[k] + IF k \in page THEN 1 ELSE 0]

-----------------------------------------------------------------------------
\* External: others edit the collection; a new row gets an unused position.

Edits == Cardinality(deleted) + Cardinality((rows \cup deleted) \ initial)

Insert(k) ==
    /\ Edits < MaxEdits /\ k \notin rows \cup deleted
    /\ rows' = rows \cup {k}
    /\ UNCHANGED <<call, honest, initial, deleted, pc, cursor, seen, skip, got, file>>

Delete(k) ==
    /\ Edits < MaxEdits /\ k \in rows
    /\ rows' = rows \ {k} /\ deleted' = deleted \cup {k}
    /\ UNCHANGED <<call, honest, initial, pc, cursor, seen, skip, got, file>>

-----------------------------------------------------------------------------
\* iter_projects, iter_jobs.

Above(c) == {k \in rows : k > c}
Before(k, S) == Cardinality({j \in S : j < k})

\* External: the first Limit rows behind the cursor, and the last of them as
\* the next cursor when more rows follow.
KeysetPage(c) == {k \in Above(c) : Before(k, Above(c)) < Limit}
KeysetNext(c) ==
    IF KeysetPage(c) = Above(c) THEN Start
    ELSE CHOOSE k \in KeysetPage(c) : \A j \in KeysetPage(c) : j <= k

\* External: what the service may answer; one that does not follow its own
\* cursors sends any of them.
CursorAnswers(c) ==
    IF honest THEN {[items |-> KeysetPage(c), next |-> KeysetNext(c)]}
    ELSE [items : {{}}, next : Row \cup {Start}]

\* The rows go to the caller before the cursor is looked at.
NeverRepeated(n) == FALSE                           \* fault
Repeated(n) == n \in seen

AdvanceUnseen(n) == cursor' = n /\ UNCHANGED seen   \* fault
AdvanceSeenOnly(n) == seen' = seen \cup {n} /\ UNCHANGED cursor  \* fault
Advance(n) == cursor' = n /\ seen' = seen \cup {n}

CursorPage ==
    /\ pc = "paging"
    /\ \E a \in CursorAnswers(cursor) :
        /\ Collect(a.items)
        /\ \/ a.next = Start /\ Goto("returned") /\ UNCHANGED <<cursor, seen>>
           \/ a.next # Start /\ Repeated(a.next)
              /\ Goto("repeated") /\ UNCHANGED <<cursor, seen>>
           \/ a.next # Start /\ ~Repeated(a.next)
              /\ Advance(a.next) /\ UNCHANGED pc
    /\ UNCHANGED <<call, honest, collection, skip, file>>

IterProjects == call.loop = "projects" /\ CursorPage
IterJobs == call.loop = "jobs" /\ CursorPage

-----------------------------------------------------------------------------
\* _all_inventory_items.

\* External: the rows ranked skip .. skip + Limit - 1.
OffsetRows == {k \in rows : Before(k, rows) \in skip..(skip + Limit - 1)}

\* The page is short, or the answer names a total and that many are collected.
LastPageFull(page, named) == Cardinality(page) <= Limit           \* fault
LastPage(page, named) ==
    \/ Cardinality(page) < Limit
    \/ named /\ skip + Cardinality(page) >= Cardinality(rows)

InventoryPage ==
    /\ pc = "paging" /\ call.loop = "inventory"
    /\ \E named \in BOOLEAN :
        /\ Collect(OffsetRows)
        /\ skip' = skip + Cardinality(OffsetRows)
        /\ IF LastPage(OffsetRows, named) THEN Goto("rendering") ELSE UNCHANGED pc
    /\ UNCHANGED <<call, honest, collection, cursor, seen, file>>

\* A request fails for good, or the answer has no page in it (TypeError).
PageFailsOpening ==                                 \* fault
    /\ pc = "paging" /\ Goto("raised")
    /\ file' = IF call.loop = "inventory" THEN Torn ELSE file
    /\ UNCHANGED <<call, honest, collection, cursor, seen, skip, got>>
PageFails ==
    /\ pc = "paging" /\ Goto("raised")
    /\ UNCHANGED <<call, honest, collection, cursor, seen, skip, got, file>>

-----------------------------------------------------------------------------
\* download_project_table, after the scan.

Collected == {k \in Row : got[k] > 0}
CsvRows(R) == R
GeojsonRows(R) == R \cap Located
KmlRows(R) == R \cap Located

Rendered(format, R) ==
    CASE format \in {"csv", "json"} -> CsvRows(R)
      [] format = "geojson" -> GeojsonRows(R)
      [] format = "kml" -> KmlRows(R)

\* write_bytes opens the destination itself: from here on the old table is
\* gone.
OpenTable ==
    /\ pc = "rendering"
    /\ \/ Goto("writing") /\ file' = Torn
       \/ Goto("raised") /\ UNCHANGED file
    /\ UNCHANGED <<call, honest, collection, cursor, seen, skip, got>>

WriteTable ==
    /\ pc = "writing"
    /\ \/ Goto("returned") /\ file' = Table(Rendered(call.format, Collected))
       \/ Goto("cut") /\ UNCHANGED file
    /\ UNCHANGED <<call, honest, collection, cursor, seen, skip, got>>

\* The process is killed, or the caller of a generator drops it.
Crash ==
    /\ pc \notin Ended
    /\ Goto(IF pc = "writing" THEN "cut" ELSE "crashed")
    /\ UNCHANGED <<call, honest, collection, cursor, seen, skip, got, file>>

Client ==
    \/ IterProjects \/ IterJobs \/ InventoryPage \/ PageFails
    \/ OpenTable \/ WriteTable

AllOver == pc \in Ended /\ UNCHANGED vars

Next == Client \/ Crash \/ AllOver \/ \E k \in Row : Insert(k) \/ Delete(k)

\* Every request and every write ends, with a result or by its timeout.
Spec == Init /\ [][Next]_vars /\ WF_vars(Client)

-----------------------------------------------------------------------------
\* Every variable has the shape the code gives it.
TypeOK ==
    /\ call \in Calls /\ honest \in BOOLEAN
    /\ rows \subseteq Row /\ initial \subseteq Row /\ deleted \subseteq Row
    /\ pc \in {"paging", "rendering", "writing"} \cup Ended
    /\ cursor \in Row \cup {Start} /\ seen \subseteq Row /\ cursor \in seen \cup {Start}
    /\ skip \in Nat /\ got \in [Row -> Nat]
    /\ file.rows \subseteq Row

Stable == initial \ deleted
WroteTable == call.loop = "inventory" /\ pc = "returned"

\* README 226-227, "the iterator helpers handle keyset cursors automatically":
\* whatever is inserted and deleted meanwhile, an honest service has no cursor
\* refused, no row comes twice, and when the loop ends by itself every row
\* that was there all the time has come.
CursorRowsOnce ==
    call.loop # "inventory" /\ honest =>
        /\ pc # "repeated"
        /\ \A k \in Row : got[k] <= 1
        /\ pc = "returned" => \A k \in Stable : got[k] = 1

\* The rows a scan misses; and, as pairs of a row and an n, its n-th yields.
Missed == {k \in Stable : got[k] = 0}
Repeats == {r \in Row \X (2..(MaxEdits + 2)) : got[r[1]] >= r[2]}

\* What client.py 1341-1343 loses to concurrent edits is bounded by them: a
\* scan that ends has missed at most one row for every row deleted, and
\* repeats at most one for every row inserted.
OffsetDriftBounded ==
    call.loop = "inventory" /\ pc \in {"rendering", "writing", "returned"} =>
        /\ Cardinality(Missed) <= Cardinality(deleted)
        /\ Cardinality(Repeats) <= Cardinality((rows \cup deleted) \ initial)

\* The rows a format has a place for: a map shows only those with a position.
HasPlace(format) == IF format \in {"geojson", "kml"} THEN Located ELSE Row

\* client.py 1152-1169: the old table is touched by no scan that fails, breaks off
\* or is still paging.  A call that returns has left a table with rows of the
\* project only, and of the rows that were there all the time and have a place in
\* its format it lacks at most one for every row deleted meanwhile.
TableAfterScan ==
    /\ file # Old => call.loop = "inventory" /\ pc \in {"writing", "cut", "returned"}
    /\ WroteTable =>
          /\ file.kind = "table" /\ file.rows \subseteq rows \cup deleted
          /\ Cardinality((Stable \cap HasPlace(call.format)) \ file.rows)
                <= Cardinality(deleted)

\* client.py 410-411, 474-475, 1341-1342: a scan ends, also when the service
\* answers with a cursor it has answered before.
ScanEnds == pc = "paging" ~> pc # "paging"

-----------------------------------------------------------------------------
\* README 87-89: "Downloads are written to a temporary file, length-checked when
\* available, and atomically renamed so a partial response cannot replace a valid
\* export."  A call that is over has left no cut table.
TableReplacedWhole == pc \in Ended => file.kind # "torn"
=============================================================================
