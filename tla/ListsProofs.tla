----------------------------- MODULE ListsProofs -----------------------------
(***************************************************************************)
(* Machine-checked proofs about Lists, for any number of rows, any size of *)
(* pages and whatever rows and queries there are.                          *)
(***************************************************************************)
EXTENDS Lists, FiniteSetTheorems, TLAPS

-----------------------------------------------------------------------------
(* The inductive invariant. *)

\* What is shown was found by the query that is under way, when it was `now`; the
\* clock has not gone back since.
ShownWereFound ==
  /\ pc = "idle" => shown = NoRows
  /\ pc # "idle" => query \in Queries[list]
  /\ \A i \in Ids : shown[i] # Any => \E time \in BOOLEAN :
       /\ time => passed
       /\ Matches(query, shown[i], time)
  /\ now => passed

IndInv == TypeOK /\ ShownWereFound

\* Rows are numbered as they come.
RowsAreBorn == \A i \in Ids : i > born => rows[i] = Any

\* A newer row left the list, which is what moves a row to a page already read.
Moved(i) == list # "logs" /\ \E j \in gone : j > i

\* The pages that have been read, and the rows on pages that have not.
PagesRead == IF pc = "more" THEN page ELSE page - 1
Ahead(i) == Position(i, Matching(rows)) >= PagesRead * PageSize

\* Of the rows that matched all the while, those not seen yet are still ahead of
\* the reader, unless a newer one left; and the count of the page under way is no
\* less than what matches, unless a row entered since.
WalkInv ==
  /\ pc \in {"idle", "figures"} => page = 0
  /\ pc \in {"count", "page", "more"} =>
       /\ page > 0 /\ kept \subseteq Matching(rows)
       /\ \A i \in kept \ seen : Moved(i) \/ Ahead(i)
  /\ pc = "page" /\ ~entered => Cardinality(Matching(rows)) <= total
  /\ WalkMissesOnlyWhatMoved

\* The figures that have been read, of the rows that have not changed since they
\* were asked for.
EntriesAmong(ids, table, user) == {j \in ids : table[j] # Any /\ table[j].by = user}
FigureIsRight(f) ==
  \A i \in kept :
    IF f = "byUser"
    THEN /\ i \in figures[f] => rows[i] # Any
         /\ rows[i] # Any /\ i \notin figures[f] =>
              Cardinality(figures[f])
                >= TopUsers * Cardinality(EntriesAmong(kept, rows, rows[i].by))
    ELSE i \in figures[f] <=> rows[i] # Any /\ Counts(f, rows[i])
FiguresInv ==
  /\ pc = "idle" => figures = NoFigures
  /\ pc = "figures" \/ (pc = "done" /\ page = 0) =>
       \A f \in Statements[list] : figures[f] # Any => FigureIsRight(f)
  /\ pc = "done" /\ page = 0 => \A f \in Statements[list] : figures[f] # Any

-----------------------------------------------------------------------------
(* What the filters find. *)

LEMMA MatchingFacts ==
  ASSUME NEW table
  PROVE  /\ Matching(table) \subseteq Ids /\ IsFiniteSet(Matching(table))
         /\ Cardinality(Matching(table)) \in 0..MaxRows
<1>1. Matching(table) \subseteq Ids
  BY DEF Matching
<1>2. IsFiniteSet(Ids) /\ Cardinality(Ids) = MaxRows
  <2>1. MaxRows \in Nat
    BY BoundsAssumption
  <2>2. IsFiniteSet(1..MaxRows) /\ Cardinality(1..MaxRows) = IF 1 > MaxRows THEN 0 ELSE MaxRows - 1 + 1
    BY <2>1, FS_Interval
  <2> QED
    BY <2>1, <2>2 DEF Ids
<1> QED
  BY <1>1, <1>2, FS_Subset, FS_CardinalityType

\* The condition findAll adds for workers is the one findOne checks.
LEMMA VisibleIsViewable ==
  ASSUME NEW q \in Queries["orders"], NEW row, NEW time, OrderMatches(q, row, time)
  PROVE  MayView(q, row)
BY ListsAssumption DEF OrderMatches, Visible, MayView

\* The `overdue` filter is the mark of formatOrder, but for closed orders that were
\* asked for.
LEMMA OverdueIsMarked ==
  ASSUME NEW q \in Queries["orders"], NEW row, NEW time \in BOOLEAN,
         OrderMatches(q, row, time), Flag(q.overdue), q.status \notin Closed
  PROVE  Overdue(row, time)
BY DEF OrderMatches, Given, Overdue

-----------------------------------------------------------------------------
(* Every step keeps the invariant. *)

LEMMA PutKeeps ==
  ASSUME IndInv, NEW table \in Rows, Put(table), born' \in 0..MaxRows
  PROVE  IndInv'
<1>1. /\ pc # "idle" /\ rows' = table
      /\ UNCHANGED <<list, passed, pc, query, now, page, total, shown, figures, seen>>
  BY DEF Put, walk
<1>2. kept' \subseteq Ids /\ gone' \subseteq Ids /\ entered' \in BOOLEAN
  BY MatchingFacts DEF Put, Record, IndInv, TypeOK
<1>3. TypeOK'
  BY <1>1, <1>2 DEF IndInv, TypeOK, Rows
<1>4. ShownWereFound'
  BY <1>1 DEF IndInv, ShownWereFound, Matches
<1> QED
  BY <1>3, <1>4 DEF IndInv

LEMMA ChangesKeep ==
  ASSUME IndInv, Insert \/ Update \/ Remove \/ Cleanup \/ Tick
  PROVE  IndInv'
<1>1. rows \in [Ids -> Kinds[list] \cup {Any}] /\ born \in 0..MaxRows /\ MaxRows \in Nat
  BY BoundsAssumption DEF IndInv, TypeOK, Rows
<1>2. CASE Insert
  <2>1. PICK row \in Kinds[list] : Put([rows EXCEPT ![born + 1] = row])
    BY <1>2 DEF Insert
  <2>2. [rows EXCEPT ![born + 1] = row] \in Rows
    BY <1>1 DEF Rows
  <2>3. born' \in 0..MaxRows
    BY <1>1, <1>2 DEF Insert
  <2> QED
    BY <2>1, <2>2, <2>3, PutKeeps
<1>3. CASE Update
  <2>1. PICK i \in Ids, row \in Kinds[list] : Put([rows EXCEPT ![i] = row])
    BY <1>3 DEF Update
  <2>2. [rows EXCEPT ![i] = row] \in Rows
    BY <1>1 DEF Rows
  <2>3. born' \in 0..MaxRows
    BY <1>1, <1>3 DEF Update
  <2> QED
    BY <2>1, <2>2, <2>3, PutKeeps
<1>4. CASE Remove
  <2>1. PICK i \in Ids : Put([rows EXCEPT ![i] = Any])
    BY <1>4 DEF Remove
  <2>2. [rows EXCEPT ![i] = Any] \in Rows
    BY <1>1 DEF Rows
  <2>3. born' \in 0..MaxRows
    BY <1>1, <1>4 DEF Remove
  <2> QED
    BY <2>1, <2>2, <2>3, PutKeeps
<1>5. CASE Cleanup
  <2>1. PICK last \in Ids : Put([i \in Ids |-> IF i <= last THEN Any ELSE rows[i]])
    BY <1>5 DEF Cleanup
  <2>2. [i \in Ids |-> IF i <= last THEN Any ELSE rows[i]] \in Rows
    BY <1>1 DEF Rows
  <2>3. born' \in 0..MaxRows
    BY <1>1, <1>5 DEF Cleanup
  <2> QED
    BY <2>1, <2>2, <2>3, PutKeeps
<1>6. CASE Tick
  <2>1. /\ passed' = TRUE /\ pc' = pc
        /\ UNCHANGED <<list, rows, born, query, now, page, total, shown, figures>>
        /\ UNCHANGED <<seen, kept, gone, entered>>
    BY <1>6 DEF Tick, walk, history
  <2>2. TypeOK'
    BY <2>1 DEF IndInv, TypeOK, Rows
  <2>3. ShownWereFound'
    BY <2>1 DEF IndInv, ShownWereFound, NoRows, Matches
  <2> QED
    BY <2>2, <2>3 DEF IndInv
<1> QED
  BY <1>2, <1>3, <1>4, <1>5, <1>6

\* Whoever asks has been shown nothing yet, or goes on with the query they asked.
LEMMA AskingKeeps ==
  ASSUME IndInv, AskPage \/ NextPage \/ AskFigures
  PROVE  IndInv'
<1>1. Matching(rows)' \subseteq Ids
  BY DEF Matching, Ids
<1>2. NoRows \in Rows
  BY DEF NoRows, Rows
<1>3. CASE AskPage \/ AskFigures
  <2>1. /\ pc = "idle" /\ pc' \in {"count", "figures"} /\ query' \in Queries[list]
        /\ page' \in Nat /\ now' = passed
        /\ UNCHANGED <<list, rows, born, passed, total, shown, figures, seen, gone, entered>>
        /\ kept' \subseteq Ids
    BY <1>1, <1>3 DEF AskPage, AskFigures, IndInv, TypeOK
  <2>2. TypeOK'
    BY <2>1 DEF IndInv, TypeOK, Rows
  <2>3. shown' = NoRows
    BY <2>1 DEF IndInv, ShownWereFound
  <2>4. ShownWereFound'
    BY <2>1, <2>3 DEF ShownWereFound, NoRows
  <2> QED
    BY <2>2, <2>4 DEF IndInv
<1>4. CASE NextPage
  <2>1. /\ pc = "more" /\ pc' = "count" /\ page' = page + 1 /\ now' = passed /\ shown' = NoRows /\ total' = 0
        /\ UNCHANGED <<list, rows, born, passed, query, figures, seen, entered>>
        /\ kept' \subseteq Ids /\ gone' \subseteq Ids
    BY <1>1, <1>4, MatchingFacts DEF NextPage, IndInv, TypeOK
  <2>2. TypeOK'
    BY <1>2, <2>1, BoundsAssumption DEF IndInv, TypeOK, Rows
  <2>3. ShownWereFound'
    BY <2>1 DEF IndInv, ShownWereFound, NoRows
  <2> QED
    BY <2>2, <2>3 DEF IndInv
<1> QED
  BY <1>3, <1>4

LEMMA CountRowsKeeps ==
  ASSUME IndInv, CountRows
  PROVE  IndInv'
<1>1. /\ pc = "count" /\ pc' = "page" /\ total' \in 0..MaxRows /\ entered' = FALSE
      /\ UNCHANGED <<list, rows, born, passed, query, now, page, shown, figures, seen, kept, gone>>
  BY MatchingFacts DEF CountRows
<1>2. TypeOK'
  BY <1>1 DEF IndInv, TypeOK, Rows
<1>3. ShownWereFound'
  BY <1>1 DEF IndInv, ShownWereFound, Matches
<1> QED
  BY <1>2, <1>3 DEF IndInv

LEMMA ReadPageKeeps ==
  ASSUME IndInv, ReadPage
  PROVE  IndInv'
<1> DEFINE ids == Slice(Matching(rows), page)
<1>1. ids \subseteq Matching(rows) /\ ids \subseteq Ids
  BY MatchingFacts DEF Slice
<1>2. /\ shown' = [i \in Ids |-> IF i \in ids THEN rows[i] ELSE Any]
      /\ seen' \subseteq Ids /\ pc = "page" /\ pc' \in {"more", "done"}
      /\ UNCHANGED <<list, rows, born, passed, query, now, page, total, figures, kept, gone, entered>>
  BY <1>1 DEF ReadPage, IndInv, TypeOK
<1> HIDE DEF ids
<1>3. TypeOK'
  BY <1>2 DEF IndInv, TypeOK, Rows
<1>4. ShownWereFound'
  <2>1. ASSUME NEW i \in Ids, shown'[i] # Any
        PROVE  Matches(query, shown'[i], now)
    BY <1>1, <1>2, <2>1 DEF Matching
  <2>2. now \in BOOLEAN /\ (now => passed) /\ query \in Queries[list]
    BY <1>2 DEF IndInv, TypeOK, ShownWereFound
  <2> QED
    BY <1>2, <2>1, <2>2 DEF ShownWereFound, Matches
<1> QED
  BY <1>3, <1>4 DEF IndInv

LEMMA ReadFigureKeeps ==
  ASSUME IndInv, ReadFigure
  PROVE  IndInv'
<1>0. PICK f \in Statements[list] : \E ids \in Counted(f) : figures' = [figures EXCEPT ![f] = ids]
  BY DEF ReadFigure
<1>1. PICK ids \in Counted(f) : figures' = [figures EXCEPT ![f] = ids]
  BY <1>0
<1>2. ids \subseteq Ids
  BY <1>1 DEF Counted, EntriesOf
<1>3. /\ pc = "figures" /\ pc' \in {"figures", "done"}
      /\ UNCHANGED <<list, rows, born, passed, query, now, page, total, shown>>
      /\ UNCHANGED <<seen, kept, gone, entered>>
  BY DEF ReadFigure, history
<1>4. TypeOK'
  BY <1>1, <1>2, <1>3 DEF IndInv, TypeOK, Rows
<1>5. ShownWereFound'
  BY <1>3 DEF IndInv, ShownWereFound, Matches
<1> QED
  BY <1>4, <1>5 DEF IndInv

LEMMA InitIndInv == Init => IndInv
<1> SUFFICES ASSUME Init
             PROVE  IndInv
  OBVIOUS
<1>1. TypeOK
  <2>1. figures \in [Statements[list] -> (SUBSET Ids) \cup {Any}]
    BY DEF Init, NoFigures
  <2>2. shown \in Rows /\ rows \in Rows
    BY DEF Init, NoRows, Rows
  <2>3. 0 \in 0..MaxRows /\ 0 \in Nat
    BY BoundsAssumption
  <2> QED
    BY <2>1, <2>2, <2>3 DEF Init, TypeOK
<1>2. ShownWereFound
  BY DEF Init, ShownWereFound, NoRows
<1> QED
  BY <1>1, <1>2 DEF IndInv

LEMMA NextIndInv == IndInv /\ [Next]_vars => IndInv'
<1> SUFFICES ASSUME IndInv, [Next]_vars
             PROVE  IndInv'
  OBVIOUS
<1>1. CASE Next
  BY <1>1, ChangesKeep, AskingKeeps, CountRowsKeeps, ReadPageKeeps, ReadFigureKeeps DEF Next
<1>2. CASE UNCHANGED vars
  <2>1. TypeOK'
    BY <1>2 DEF vars, walk, history, IndInv, TypeOK, Rows
  <2>2. ShownWereFound'
    BY <1>2 DEF vars, walk, history, IndInv, ShownWereFound, Matches
  <2> QED
    BY <2>1, <2>2 DEF IndInv
<1> QED
  BY <1>1, <1>2

-----------------------------------------------------------------------------
(* The walk: nothing is missed but what moved. *)

LEMMA PositionFacts ==
  ASSUME NEW A \in SUBSET Ids, NEW i
  PROVE  /\ Position(i, A) \in Nat
         /\ IsFiniteSet({j \in A : j > i}) /\ IsFiniteSet(A)
<1>1. IsFiniteSet(Ids)
  BY BoundsAssumption, FS_Interval DEF Ids
<1>2. {j \in A : j > i} \in SUBSET Ids
  OBVIOUS
<1> QED
  BY <1>1, <1>2, FS_Subset, FS_CardinalityType DEF Position

\* A row moves up in a list only when a newer one leaves it.
LEMMA PositionKept ==
  ASSUME NEW A \in SUBSET Ids, NEW B \in SUBSET Ids, NEW i,
         \A j \in A : j > i => j \in B
  PROVE  Position(i, A) <= Position(i, B)
<1>1. {j \in A : j > i} \in SUBSET {j \in B : j > i}
  OBVIOUS
<1> QED
  BY <1>1, PositionFacts, FS_Subset DEF Position

LEMMA PositionInside ==
  ASSUME NEW A \in SUBSET Ids, NEW i \in A
  PROVE  Position(i, A) < Cardinality(A)
<1>1. IsFiniteSet(A) /\ Cardinality(A) \in Nat
  BY PositionFacts, FS_CardinalityType
<1>2. /\ {j \in A : j > i} \in SUBSET A
      /\ {j \in A : j > i} # A
  BY DEF Ids
<1>3. /\ Position(i, A) <= Cardinality(A)
      /\ Position(i, A) # Cardinality(A)
  BY <1>1, <1>2, FS_Subset DEF Position
<1>4. Position(i, A) \in Nat
  BY PositionFacts
<1> QED
  BY <1>1, <1>3, <1>4

\* A change of what matches, seen from the walk: rows that stayed in the list are
\* still ahead, or a newer one left.
LEMMA StillAhead ==
  ASSUME IndInv, WalkInv, pc \in {"count", "page", "more"},
         pc' \in {"count", "page", "more"}, PagesRead' = PagesRead,
         list' = list, seen' = seen,
         kept' \subseteq kept \cap Matching(rows)',
         gone' = gone \cup (Matching(rows) \ Matching(rows)'),
         list = "logs" => \A i \in kept', j \in Matching(rows) : j > i => j \in Matching(rows)'
  PROVE  \A i \in kept' \ seen' : Moved(i)' \/ Ahead(i)'
<1> SUFFICES ASSUME NEW i \in kept', i \notin seen, ~Moved(i)'
             PROVE  Position(i, Matching(rows)') >= PagesRead * PageSize
  BY DEF Moved, Ahead, Position
<1>1. i \in kept /\ i \notin seen /\ ~Moved(i)
  BY DEF Moved
<1>2. Position(i, Matching(rows)) >= PagesRead * PageSize
  BY <1>1 DEF WalkInv, Ahead
<1>3. Matching(rows) \in SUBSET Ids /\ Matching(rows)' \in SUBSET Ids
  BY DEF Matching, Ids
<1>4. \A j \in Matching(rows) : j > i => j \in Matching(rows)'
  BY DEF Moved
<1>5. Position(i, Matching(rows)) <= Position(i, Matching(rows)')
  BY <1>3, <1>4, PositionKept
<1>6. PagesRead \in Int /\ PageSize \in Int /\ PagesRead * PageSize \in Int
  BY BoundsAssumption DEF PagesRead, IndInv, TypeOK
<1>7. Position(i, Matching(rows)) \in Nat /\ Position(i, Matching(rows)') \in Nat
  BY <1>3, PositionFacts
<1> QED
  BY <1>2, <1>5, <1>6, <1>7

LEMMA PutKeepsWalk ==
  ASSUME IndInv, WalkInv, NEW table \in Rows, Put(table),
         list = "logs" => \A i \in Matching(rows) \cap Matching(table), j \in Matching(rows) :
                            j > i => j \in Matching(table)
  PROVE  WalkInv'
<1>1. /\ pc \notin {"idle", "done"} /\ rows' = table
      /\ UNCHANGED <<list, passed, pc, query, now, page, total, shown, figures, seen>>
  BY DEF Put, walk
<1>2. Matching(rows)' = Matching(table)
  BY <1>1 DEF Matching, Matches
<1>3. CASE pc = "figures"
  BY <1>1, <1>3 DEF WalkInv, WalkMissesOnlyWhatMoved
<1>4. CASE pc \in {"count", "page", "more"}
  <2>1. /\ kept' = kept \cap Matching(table)
        /\ gone' = gone \cup (Matching(rows) \ Matching(table))
        /\ entered' = (entered \/ (pc = "page" /\ ~(Matching(table) \subseteq Matching(rows))))
    BY <1>4 DEF Put, Record
  <2>2. \A i \in kept' : i \in Matching(rows) \cap Matching(table)
    BY <1>4, <2>1 DEF WalkInv
  <2>3. \A i \in kept' \ seen' : Moved(i)' \/ Ahead(i)'
    <3>1. PagesRead' = PagesRead
      BY <1>1 DEF PagesRead
    <3> QED
      BY <1>1, <1>2, <1>4, <2>1, <2>2, <3>1, StillAhead
  <2>4. ASSUME pc = "page", ~entered' PROVE Cardinality(Matching(table)) <= total
    <3>1. ~entered /\ Matching(table) \in SUBSET Matching(rows)
      BY <2>1, <2>4
    <3>2. Cardinality(Matching(rows)) <= total
      BY <2>4, <3>1 DEF WalkInv
    <3>3. /\ Cardinality(Matching(table)) <= Cardinality(Matching(rows))
          /\ Cardinality(Matching(table)) \in Nat /\ Cardinality(Matching(rows)) \in Nat
          /\ total \in Nat
      BY <3>1, MatchingFacts, FS_Subset DEF IndInv, TypeOK
    <3> QED
      BY <3>2, <3>3
  <2>5. /\ page' > 0 /\ kept' \subseteq Matching(rows)'
        /\ pc' = "page" /\ ~entered' => Cardinality(Matching(rows)') <= total'
    BY <1>1, <1>2, <1>4, <2>1, <2>4 DEF WalkInv
  <2> QED
    BY <1>1, <1>4, <2>3, <2>5 DEF WalkInv, WalkMissesOnlyWhatMoved
<1> QED
  BY <1>1, <1>3, <1>4 DEF IndInv, TypeOK

LEMMA ChangesKeepWalk ==
  ASSUME IndInv, RowsAreBorn, WalkInv, Insert \/ Update \/ Remove \/ Cleanup \/ Tick
  PROVE  WalkInv' /\ RowsAreBorn'
<1>1. rows \in [Ids -> Kinds[list] \cup {Any}] /\ born \in 0..MaxRows /\ MaxRows \in Nat
  BY BoundsAssumption DEF IndInv, TypeOK, Rows
<1>2. CASE Insert
  <2>1. PICK row \in Kinds[list] : Put([rows EXCEPT ![born + 1] = row])
    BY <1>2 DEF Insert
  <2> DEFINE table == [rows EXCEPT ![born + 1] = row]
  <2>2. /\ table \in Rows /\ rows' = table /\ born' = born + 1
        /\ \A i \in Ids : i # born + 1 => table[i] = rows[i]
    BY <1>1, <1>2, <2>1 DEF Rows, Put, Insert
  <2>3. born + 1 \in Ids /\ rows[born + 1] = Any
    BY <1>1, <1>2 DEF Insert, Ids, RowsAreBorn
  <2>4. RowsAreBorn'
    BY <1>1, <2>2 DEF RowsAreBorn, Ids
  <2> HIDE DEF table
  <2>5. Matching(rows) \subseteq Matching(table)
    BY <2>2, <2>3 DEF Matching
  <2>6. Put(table)
    BY <2>1 DEF table
  <2> QED
    BY <2>2, <2>4, <2>5, <2>6, PutKeepsWalk
<1>3. CASE Update
  <2>1. PICK i \in Ids, row \in Kinds[list] : rows[i] # Any /\ Put([rows EXCEPT ![i] = row])
    BY <1>3 DEF Update
  <2>2. /\ [rows EXCEPT ![i] = row] \in Rows /\ rows' = [rows EXCEPT ![i] = row]
        /\ born' = born /\ list # "logs"
    BY <1>1, <1>3, <2>1 DEF Rows, Put, Update
  <2>3. RowsAreBorn'
    BY <1>1, <2>1, <2>2 DEF RowsAreBorn
  <2> QED
    BY <2>1, <2>2, <2>3, PutKeepsWalk
<1>4. CASE Remove
  <2>1. PICK i \in Ids : Put([rows EXCEPT ![i] = Any])
    BY <1>4 DEF Remove
  <2>2. /\ [rows EXCEPT ![i] = Any] \in Rows /\ rows' = [rows EXCEPT ![i] = Any]
        /\ born' = born /\ list # "logs"
    BY <1>1, <1>4, <2>1 DEF Rows, Put, Remove
  <2>3. RowsAreBorn'
    BY <1>1, <2>2 DEF RowsAreBorn
  <2> QED
    BY <2>1, <2>2, <2>3, PutKeepsWalk
<1>5. CASE Cleanup
  <2>1. PICK last \in Ids : Put([i \in Ids |-> IF i <= last THEN Any ELSE rows[i]])
    BY <1>5 DEF Cleanup
  <2> DEFINE table == [i \in Ids |-> IF i <= last THEN Any ELSE rows[i]]
  <2>2. table \in Rows /\ rows' = table /\ born' = born
    BY <1>1, <1>5, <2>1 DEF Rows, Put, Cleanup
  <2>3. RowsAreBorn'
    BY <2>2 DEF RowsAreBorn
  <2>4. \A i \in Ids : /\ i <= last => table[i] = Any
                       /\ ~(i <= last) => table[i] = rows[i]
    OBVIOUS
  <2> HIDE DEF table
  <2>5. ASSUME NEW i \in Matching(rows) \cap Matching(table), NEW j \in Matching(rows), j > i
        PROVE  j \in Matching(table)
    <3>1. i \in Ids /\ j \in Ids /\ table[i] # Any /\ rows[j] # Any /\ Matches(query, rows[j], now)
      BY <2>5 DEF Matching
    <3>2. ~(j <= last)
      BY <2>4, <2>5, <3>1 DEF Ids
    <3> QED
      BY <2>4, <3>1, <3>2 DEF Matching
  <2>6. Put(table)
    BY <2>1 DEF table
  <2> QED
    BY <2>2, <2>3, <2>5, <2>6, PutKeepsWalk
<1>6. CASE Tick
  <2>1. /\ pc' = pc
        /\ UNCHANGED <<list, rows, born, query, now, page, total, shown, figures>>
        /\ UNCHANGED <<seen, kept, gone, entered>>
    BY <1>6 DEF Tick, walk, history
  <2>2. Matching(rows)' = Matching(rows) /\ PagesRead' = PagesRead
    BY <2>1 DEF Matching, Matches, PagesRead
  <2>3. \A i : (Moved(i)' <=> Moved(i)) /\ (Ahead(i)' <=> Ahead(i))
    BY <2>1, <2>2 DEF Moved, Ahead, Position
  <2>4. WalkMissesOnlyWhatMoved'
    BY <2>1 DEF WalkInv, WalkMissesOnlyWhatMoved
  <2>5. WalkInv'
    BY <2>1, <2>2, <2>3, <2>4 DEF WalkInv
  <2> QED
    BY <2>1, <2>5 DEF RowsAreBorn
<1> QED
  BY <1>2, <1>3, <1>4, <1>5, <1>6

LEMMA AskingKeepsWalk ==
  ASSUME IndInv, WalkInv, AskPage \/ NextPage \/ AskFigures
  PROVE  WalkInv'
<1>1. CASE AskFigures
  BY <1>1 DEF AskFigures, WalkInv, WalkMissesOnlyWhatMoved
<1>2. CASE AskPage
  <2>1. pc' = "count" /\ page' = 1 /\ kept' = Matching(rows)'
    BY <1>2 DEF AskPage
  <2>2. \A i : Ahead(i)'
    <3>1. PagesRead' * PageSize = 0
      BY <2>1, BoundsAssumption DEF PagesRead
    <3>2. \A i : Position(i, Matching(rows)') \in Nat
      <4>1. Matching(rows)' \in SUBSET Ids
        BY DEF Matching, Ids
      <4> QED
        BY <4>1, PositionFacts
    <3> QED
      BY <3>1, <3>2 DEF Ahead, Position
  <2> QED
    BY <2>1, <2>2 DEF WalkInv, WalkMissesOnlyWhatMoved
<1>3. CASE NextPage
  <2>1. /\ pc = "more" /\ pc' = "count" /\ page' = page + 1 /\ page \in Nat
        /\ kept' = kept \cap Matching(rows)'
        /\ gone' = gone \cup (Matching(rows) \ Matching(rows)')
        /\ UNCHANGED <<list, rows, query, seen>>
    BY <1>3 DEF NextPage, IndInv, TypeOK
  <2>2. PagesRead' = PagesRead
    BY <2>1 DEF PagesRead
  <2>3. list = "logs" => Matching(rows)' = Matching(rows)
    BY <2>1 DEF Matching, Matches
  <2>4. \A i \in kept' \ seen' : Moved(i)' \/ Ahead(i)'
    BY <2>1, <2>2, <2>3, StillAhead
  <2>5. page' > 0
    BY <2>1
  <2> QED
    BY <2>1, <2>4, <2>5 DEF WalkInv, WalkMissesOnlyWhatMoved
<1> QED
  BY <1>1, <1>2, <1>3

LEMMA CountRowsKeepsWalk ==
  ASSUME IndInv, WalkInv, CountRows
  PROVE  WalkInv'
<1>1. /\ pc = "count" /\ pc' = "page" /\ total' = Cardinality(Matching(rows))
      /\ UNCHANGED <<list, rows, query, now, page, seen, kept, gone>>
  BY DEF CountRows
<1>2. Matching(rows)' = Matching(rows) /\ PagesRead' = PagesRead
  BY <1>1 DEF Matching, Matches, PagesRead
<1>3. \A i : (Moved(i)' <=> Moved(i)) /\ (Ahead(i)' <=> Ahead(i))
  BY <1>1, <1>2 DEF Moved, Ahead, Position
<1>4. Cardinality(Matching(rows)) <= Cardinality(Matching(rows))
  BY MatchingFacts
<1> QED
  BY <1>1, <1>2, <1>3, <1>4 DEF WalkInv, WalkMissesOnlyWhatMoved

\* The page that is read takes the rows that were next; the last page, by its count,
\* leaves none.
LEMMA ReadPageKeepsWalk ==
  ASSUME IndInv, WalkInv, ReadPage
  PROVE  WalkInv'
<1> DEFINE M == Matching(rows)
<1>1. /\ pc = "page" /\ seen' = seen \cup Slice(M, page)
      /\ pc' = IF page * PageSize < total THEN "more" ELSE "done"
      /\ UNCHANGED <<list, rows, query, now, page, total, kept, gone, entered>>
  BY DEF ReadPage
<1>2. /\ page \in Nat /\ page > 0 /\ PageSize \in Nat /\ total \in Nat
      /\ M \in SUBSET Ids /\ kept \subseteq M /\ Cardinality(M) \in Nat
  BY <1>1, BoundsAssumption, MatchingFacts DEF IndInv, TypeOK, WalkInv
<1>3. M' = M /\ PagesRead = page - 1
  BY <1>1 DEF Matching, Matches, PagesRead
<1> HIDE DEF M
<1>4. page * PageSize \in Nat
  BY <1>2
<1>5. ASSUME NEW i \in kept' \ seen', ~Moved(i)
      PROVE  Position(i, M) >= page * PageSize
  <2>1. i \in kept \ seen /\ i \in M /\ i \notin Slice(M, page)
    BY <1>1, <1>2, <1>5
  <2>2. Position(i, M) >= (page - 1) * PageSize
    BY <1>1, <1>3, <1>5, <2>1 DEF WalkInv, Ahead, M
  <2>3. Position(i, M) \in Nat
    BY <1>2, PositionFacts
  <2> QED
    BY <1>4, <2>1, <2>2, <2>3 DEF Slice
<1>6. CASE pc' = "more"
  <2>1. PagesRead' = page
    BY <1>1, <1>6 DEF PagesRead
  <2>2. \A i \in kept' \ seen' : Moved(i)' \/ Ahead(i)'
    BY <1>1, <1>3, <1>5, <2>1 DEF Moved, Ahead, Position, M
  <2> QED
    BY <1>1, <1>2, <1>3, <1>6, <2>2 DEF WalkInv, WalkMissesOnlyWhatMoved, M
<1>7. CASE pc' = "done"
  <2>1. total <= page * PageSize
    BY <1>1, <1>2, <1>4, <1>7
  <2>2. ASSUME NEW i \in kept' \ seen', ~entered, ~Moved(i)
        PROVE  FALSE
    <3>1. i \in M
      BY <1>1, <1>2, <2>2
    <3>2. Position(i, M) < Cardinality(M) /\ Position(i, M) \in Nat
      BY <1>2, <3>1, PositionInside, PositionFacts
    <3>3. Cardinality(M) <= total
      BY <1>1, <2>2 DEF WalkInv, M
    <3>4. Position(i, M) >= page * PageSize
      BY <1>5, <2>2
    <3> QED
      BY <1>2, <1>4, <2>1, <3>2, <3>3, <3>4
  <2>3. WalkMissesOnlyWhatMoved'
    BY <1>1, <2>2 DEF WalkMissesOnlyWhatMoved, Moved
  <2> QED
    BY <1>7, <2>3 DEF WalkInv
<1> QED
  BY <1>1, <1>6, <1>7

LEMMA NextWalkInv == IndInv /\ RowsAreBorn /\ WalkInv /\ [Next]_vars => WalkInv' /\ RowsAreBorn'
<1> SUFFICES ASSUME IndInv, RowsAreBorn, WalkInv, [Next]_vars
             PROVE  WalkInv' /\ RowsAreBorn'
  OBVIOUS
<1>1. CASE UNCHANGED vars
  <2>1. UNCHANGED <<list, rows, born, query, now, pc, page, total, seen, kept, gone, entered>>
    BY <1>1 DEF vars, walk, history
  <2>2. Matching(rows)' = Matching(rows) /\ PagesRead' = PagesRead
    BY <2>1 DEF Matching, Matches, PagesRead
  <2>3. \A i : (Moved(i)' <=> Moved(i)) /\ (Ahead(i)' <=> Ahead(i))
    BY <2>1, <2>2 DEF Moved, Ahead, Position
  <2> QED
    BY <2>1, <2>2, <2>3 DEF WalkInv, WalkMissesOnlyWhatMoved, RowsAreBorn
<1>2. CASE AskPage \/ NextPage \/ AskFigures
  <2>1. UNCHANGED <<rows, born>>
    BY <1>2 DEF AskPage, NextPage, AskFigures
  <2> QED
    BY <1>2, <2>1, AskingKeepsWalk DEF RowsAreBorn
<1>3. CASE CountRows
  BY <1>3, CountRowsKeepsWalk DEF CountRows, RowsAreBorn
<1>4. CASE ReadPage
  BY <1>4, ReadPageKeepsWalk DEF ReadPage, RowsAreBorn
<1>5. CASE ReadFigure
  <2>1. /\ pc = "figures" /\ pc' \in {"figures", "done"}
        /\ UNCHANGED <<list, rows, born, page>>
    BY <1>5 DEF ReadFigure
  <2> QED
    BY <2>1 DEF WalkInv, WalkMissesOnlyWhatMoved, RowsAreBorn
<1> QED
  BY <1>1, <1>2, <1>3, <1>4, <1>5, ChangesKeepWalk DEF Next

-----------------------------------------------------------------------------
(* The statistics: the figures add up. *)

LEMMA KeptEntriesAreFew ==
  ASSUME IndInv, NEW A \in SUBSET Ids, NEW B \in SUBSET A
  PROVE  Cardinality(B) <= Cardinality(A) /\ Cardinality(A) \in Nat /\ Cardinality(B) \in Nat
<1>1. IsFiniteSet(Ids)
  BY BoundsAssumption, FS_Interval DEF Ids
<1>2. IsFiniteSet(A)
  BY <1>1, FS_Subset
<1> QED
  BY <1>2, FS_Subset, FS_CardinalityType

\* A figure stays right for the rows that go on unchanged.
LEMMA FigureStaysRight ==
  ASSUME IndInv, NEW f \in Statements[list], FigureIsRight(f), figures[f] # Any,
         kept' \subseteq kept, \A i \in kept' : rows'[i] = rows[i],
         UNCHANGED <<list, query, now, figures>>
  PROVE  FigureIsRight(f)'
<1>1. CASE f # "byUser"
  <2>1. \A i \in kept' : i \in figures[f] <=> rows[i] # Any /\ Counts(f, rows[i])
    BY <1>1 DEF FigureIsRight
  <2> QED
    BY <1>1, <2>1 DEF FigureIsRight, Counts
<1>2. CASE f = "byUser"
  <2>1. ASSUME NEW i \in kept'
        PROVE  /\ i \in figures'[f] => rows'[i] # Any
               /\ rows'[i] # Any /\ i \notin figures'[f] =>
                    Cardinality(figures'[f])
                      >= TopUsers * Cardinality(EntriesAmong(kept', rows', rows'[i].by))
    <3> DEFINE A == EntriesAmong(kept, rows, rows[i].by)
               B == EntriesAmong(kept', rows', rows'[i].by)
    <3>1. /\ i \in kept /\ rows'[i] = rows[i] /\ figures' = figures
          /\ i \in figures[f] => rows[i] # Any
          /\ rows[i] # Any /\ i \notin figures[f] =>
               Cardinality(figures[f]) >= TopUsers * Cardinality(A)
      BY <1>2, <2>1 DEF FigureIsRight
    <3>2. A \in SUBSET Ids /\ B \in SUBSET A
      BY <3>1 DEF EntriesAmong, IndInv, TypeOK
    <3> HIDE DEF A, B
    <3>3. Cardinality(B) <= Cardinality(A) /\ Cardinality(A) \in Nat /\ Cardinality(B) \in Nat
      BY <3>2, KeptEntriesAreFew
    <3>4. rows[i] # Any /\ i \notin figures[f] =>
            Cardinality(figures[f]) >= TopUsers * Cardinality(B)
      <4> SUFFICES ASSUME rows[i] # Any, i \notin figures[f]
                   PROVE  Cardinality(figures[f]) >= TopUsers * Cardinality(B)
        OBVIOUS
      <4>1. Cardinality(figures[f]) >= TopUsers * Cardinality(A)
        BY <3>1
      <4>2. figures[f] # Any => Cardinality(figures[f]) \in Nat
        BY KeptEntriesAreFew DEF IndInv, TypeOK
      <4>3. /\ TopUsers * Cardinality(B) <= TopUsers * Cardinality(A)
            /\ TopUsers * Cardinality(B) \in Nat /\ TopUsers * Cardinality(A) \in Nat
        BY <3>3, BoundsAssumption
      <4> QED
        BY <4>1, <4>2, <4>3
    <3> QED
      BY <3>1, <3>4 DEF B
  <2> QED
    BY <1>2, <2>1 DEF FigureIsRight
<1> QED
  BY <1>1, <1>2

LEMMA AuthorsAreFinite ==
  ASSUME IndInv PROVE IsFiniteSet(Authors)
<1> DEFINE D == {j \in Ids : rows[j] # Any}
           f == [j \in D |-> rows[j].by]
<1>1. IsFiniteSet(Ids)
  BY BoundsAssumption, FS_Interval DEF Ids
<1>2. IsFiniteSet(D)
  <2>1. D \in SUBSET Ids
    OBVIOUS
  <2> HIDE DEF D
  <2> QED
    BY <1>1, <2>1, FS_Subset
<1>3. f \in Surjection(D, Authors)
  BY DEF Surjection, Authors
<1> HIDE DEF D, f
<1> QED
  BY <1>2, <1>3, FS_Surjection

\* If each of some users has n entries or more, then together they have n times
\* as many as they are: no entry is of two users.
LEMMA EntriesOfMany ==
  ASSUME IndInv, NEW users \in SUBSET Authors, NEW n \in Nat,
         \A u \in users : Cardinality(EntriesOf(u)) >= n
  PROVE  Cardinality(UNION {EntriesOf(u) : u \in users}) >= Cardinality(users) * n
<1> DEFINE U == UNION {EntriesOf(u) : u \in users}
           P == users \X (1..n)
           h == [u \in users |-> CHOOSE b : b \in Bijection(1..Cardinality(EntriesOf(u)), EntriesOf(u))]
           g == [p \in P |-> h[p[1]][p[2]]]
<1>1. IsFiniteSet(users) /\ IsFiniteSet(1..n) /\ Cardinality(1..n) = n
  BY AuthorsAreFinite, FS_Subset, FS_Interval
<1>2. IsFiniteSet(P) /\ Cardinality(P) = Cardinality(users) * n
  BY <1>1, FS_Product
<1>3. \A u : EntriesOf(u) \in SUBSET Ids
  BY DEF EntriesOf
<1>4. IsFiniteSet(Ids) /\ U \in SUBSET Ids
  <2>1. IsFiniteSet(Ids)
    BY BoundsAssumption, FS_Interval DEF Ids
  <2> QED
    BY <1>3, <2>1
<1>5. IsFiniteSet(U) /\ Cardinality(U) \in Nat
  BY <1>4, FS_Subset, FS_CardinalityType
<1>6. \A u \in users : /\ Cardinality(EntriesOf(u)) \in Nat
                       /\ h[u] \in Bijection(1..Cardinality(EntriesOf(u)), EntriesOf(u))
  <2> SUFFICES ASSUME NEW u \in users
               PROVE  /\ Cardinality(EntriesOf(u)) \in Nat
                      /\ ExistsBijection(1..Cardinality(EntriesOf(u)), EntriesOf(u))
    BY DEF ExistsBijection
  <2>1. IsFiniteSet(EntriesOf(u))
    BY <1>3, <1>4, FS_Subset
  <2> QED
    BY <2>1, FS_CardinalityType
<1> HIDE DEF h
<1>7. \A u \in users, i \in 1..n :
        /\ i \in 1..Cardinality(EntriesOf(u)) /\ h[u][i] \in EntriesOf(u)
        /\ \A j \in 1..n : h[u][i] = h[u][j] => i = j
  <2> SUFFICES ASSUME NEW u \in users
               PROVE  \A i \in 1..n : 
                        /\ i \in 1..Cardinality(EntriesOf(u)) /\ h[u][i] \in EntriesOf(u)
                        /\ \A j \in 1..n : h[u][i] = h[u][j] => i = j
    OBVIOUS
  <2>1. \A i \in 1..n : i \in 1..Cardinality(EntriesOf(u))
    BY <1>6
  <2> QED
    BY <1>6, <2>1 DEF Bijection, Injection, Surjection, IsInjective
<1>8. \A p \in P : g[p] = h[p[1]][p[2]] /\ p[1] \in users /\ p[2] \in 1..n /\ p = <<p[1], p[2]>>
  OBVIOUS
<1>9. \A p \in P : g[p] \in EntriesOf(p[1])
  BY <1>7, <1>8
<1>10. \A p, q \in P : g[p] = g[q] => p = q
  <2> SUFFICES ASSUME NEW p \in P, NEW q \in P, g[p] = g[q] PROVE p = q
    OBVIOUS
  <2>1. p[1] = q[1]
    BY <1>9 DEF EntriesOf
  <2>2. p[2] = q[2]
    BY <1>7, <1>8, <2>1
  <2> QED
    BY <1>8, <2>1, <2>2
<1>11. g \in Injection(P, U)
  <2>1. \A p \in P : g[p] \in U
    BY <1>8, <1>9
  <2>2. g \in [P -> U]
    BY <2>1
  <2> QED
    BY <1>10, <2>2 DEF Injection, IsInjective
<1> HIDE DEF g, P, U
<1>12. Cardinality(P) <= Cardinality(U)
  BY <1>5, <1>11, FS_Injection
<1> QED
  BY <1>2, <1>12 DEF U

\* The busiest users leave out nobody who is busier than one of them.
LEMMA ByUserIsRight ==
  ASSUME IndInv, NEW users \in SUBSET Authors, Busiest(users),
         NEW i \in kept, rows[i] # Any, i \notin UNION {EntriesOf(u) : u \in users}
  PROVE  Cardinality(UNION {EntriesOf(u) : u \in users})
           >= TopUsers * Cardinality(EntriesAmong(kept, rows, rows[i].by))
<1> DEFINE v == rows[i].by
           n == Cardinality(EntriesOf(v))
           m == Cardinality(EntriesAmong(kept, rows, v))
           total1 == Cardinality(UNION {EntriesOf(u) : u \in users})
<1>1. kept \in SUBSET Ids
  BY DEF IndInv, TypeOK
<1>2. v \in Authors \ users
  BY <1>1 DEF Authors, EntriesOf
<1>3. /\ Cardinality(users) = TopUsers
      /\ \A u \in users : Cardinality(EntriesOf(u)) >= n
  BY <1>2 DEF Busiest
<1>4. EntriesOf(v) \in SUBSET Ids /\ EntriesAmong(kept, rows, v) \in SUBSET EntriesOf(v)
  BY <1>1 DEF EntriesOf, EntriesAmong
<1> HIDE DEF v
<1>5. m <= n /\ n \in Nat /\ m \in Nat
  BY <1>4, KeptEntriesAreFew
<1>6. total1 >= TopUsers * n
  BY <1>3, <1>5, EntriesOfMany
<1>7. total1 \in Nat
  <2>1. UNION {EntriesOf(u) : u \in users} \in SUBSET Ids
    BY DEF EntriesOf
  <2> QED
    BY <2>1, KeptEntriesAreFew
<1> HIDE DEF total1, n, m
<1>8. TopUsers * m <= TopUsers * n /\ TopUsers * m \in Nat /\ TopUsers * n \in Nat
  BY <1>5, BoundsAssumption
<1>9. total1 >= TopUsers * m
  BY <1>6, <1>7, <1>8
<1> QED
  BY <1>9 DEF total1, m, v

LEMMA ReadFigureKeepsFigures ==
  ASSUME IndInv, FiguresInv, WalkInv, ReadFigure
  PROVE  FiguresInv'
<1>1. PICK f \in Statements[list] : \E ids \in Counted(f) : figures' = [figures EXCEPT ![f] = ids]
  BY DEF ReadFigure
<1>2. PICK ids \in Counted(f) : figures' = [figures EXCEPT ![f] = ids]
  BY <1>1
<1>3. /\ pc = "figures"
      /\ pc' = IF \A e \in Statements[list] : figures'[e] # Any THEN "done" ELSE "figures"
      /\ UNCHANGED <<list, rows, query, now, page, kept>>
  BY DEF ReadFigure, history
<1>4. figures \in [Statements[list] -> (SUBSET Ids) \cup {Any}] /\ kept \subseteq Ids
  BY DEF IndInv, TypeOK
<1>5. \A e \in Statements[list] : figures'[e] = IF e = f THEN ids ELSE figures[e]
  BY <1>2, <1>4
<1>6. ASSUME NEW e \in Statements[list], e # f, figures'[e] # Any
      PROVE  FigureIsRight(e)'
  <2>1. figures'[e] = figures[e] /\ FigureIsRight(e)
    BY <1>3, <1>5, <1>6 DEF FiguresInv
  <2> QED
    BY <1>3, <2>1 DEF FigureIsRight, Counts
<1>7. FigureIsRight(f)'
  <2>1. CASE f # "byUser"
    <3>1. ids = {i \in Ids : rows[i] # Any /\ Counts(f, rows[i])}
      BY <1>2, <2>1 DEF Counted
    <3>2. \A i \in kept : i \in ids <=> rows[i] # Any /\ Counts(f, rows[i])
      BY <1>4, <3>1
    <3> QED
      BY <1>3, <1>5, <2>1, <3>2 DEF FigureIsRight, Counts
  <2>2. CASE f = "byUser"
    <3>1. PICK users \in SUBSET Authors :
            Busiest(users) /\ ids = UNION {EntriesOf(u) : u \in users}
      BY <1>2, <2>2 DEF Counted
    <3>2. \A i \in ids : rows[i] # Any
      BY <3>1 DEF EntriesOf
    <3>3. \A i \in kept : rows[i] # Any /\ i \notin ids =>
            Cardinality(ids) >= TopUsers * Cardinality(EntriesAmong(kept, rows, rows[i].by))
      BY <3>1, ByUserIsRight
    <3> QED
      BY <1>3, <1>5, <2>2, <3>2, <3>3 DEF FigureIsRight
  <2> QED
    BY <2>1, <2>2
<1>8. \A e \in Statements[list'] : figures'[e] # Any => FigureIsRight(e)'
  BY <1>3, <1>6, <1>7
<1> QED
  BY <1>3, <1>8 DEF FiguresInv

LEMMA PutKeepsFigures ==
  ASSUME IndInv, FiguresInv, NEW table, Put(table)
  PROVE  FiguresInv'
<1>1. /\ pc \notin {"idle", "done"} /\ rows' = table
      /\ UNCHANGED <<list, pc, query, now, page, figures>>
  BY DEF Put, walk
<1>2. CASE pc = "figures"
  <2>1. kept' = {i \in kept : table[i] = rows[i]}
    BY <1>2 DEF Put, Record
  <2>2. \A f \in Statements[list] : figures[f] # Any => FigureIsRight(f)'
    BY <1>1, <1>2, <2>1, FigureStaysRight DEF FiguresInv
  <2> QED
    BY <1>1, <1>2, <2>2 DEF FiguresInv
<1>3. CASE pc # "figures"
  BY <1>1, <1>3 DEF FiguresInv
<1> QED
  BY <1>2, <1>3

LEMMA NextFiguresInv == IndInv /\ WalkInv /\ FiguresInv /\ [Next]_vars => FiguresInv'
<1> SUFFICES ASSUME IndInv, WalkInv, FiguresInv, [Next]_vars
             PROVE  FiguresInv'
  OBVIOUS
<1>1. ASSUME UNCHANGED <<list, rows, query, now, pc, page, figures, kept>> PROVE FiguresInv'
  <2>1. \A f \in Statements[list] : FigureIsRight(f)' <=> FigureIsRight(f)
    BY <1>1 DEF FigureIsRight, Counts
  <2> QED
    BY <1>1, <2>1 DEF FiguresInv, NoFigures
<1>2. CASE UNCHANGED vars
  BY <1>1, <1>2 DEF vars, walk, history
<1>3. CASE Tick
  BY <1>1, <1>3 DEF Tick, walk, history
<1>4. CASE Insert \/ Update \/ Remove \/ Cleanup
  BY <1>4, PutKeepsFigures DEF Insert, Update, Remove, Cleanup
<1>5. CASE AskPage \/ NextPage \/ CountRows
  BY <1>5 DEF AskPage, NextPage, CountRows, FiguresInv
<1>6. CASE AskFigures
  <2>1. \A f \in Statements[list] : figures'[f] = Any
    BY <1>6 DEF AskFigures, FiguresInv, NoFigures
  <2> QED
    BY <1>6, <2>1 DEF AskFigures, FiguresInv
<1>7. CASE ReadPage
  <2>1. /\ pc = "page" /\ pc' \in {"more", "done"} /\ page' = page
    BY <1>7 DEF ReadPage
  <2>2. page # 0
    BY <2>1 DEF WalkInv, IndInv, TypeOK
  <2> QED
    BY <2>1, <2>2 DEF FiguresInv
<1> QED
  BY <1>2, <1>3, <1>4, <1>5, <1>6, <1>7, ReadFigureKeepsFigures DEF Next

-----------------------------------------------------------------------------
(* The theorems. *)

LEMMA InitWalkInv == Init => RowsAreBorn /\ WalkInv /\ FiguresInv
BY DEF Init, RowsAreBorn, WalkInv, WalkMissesOnlyWhatMoved, FiguresInv

\* The invariants hold in every behaviour, whatever is written meanwhile.
THEOREM Invariance == Spec => [](IndInv /\ RowsAreBorn /\ WalkInv /\ FiguresInv)
<1>1. IndInv /\ RowsAreBorn /\ WalkInv /\ FiguresInv /\ [Next]_vars
        => (IndInv /\ RowsAreBorn /\ WalkInv /\ FiguresInv)'
  BY NextIndInv, NextWalkInv, NextFiguresInv
<1> QED
  BY <1>1, InitIndInv, InitWalkInv, PTL DEF Spec

\* Every variable keeps its type.
THEOREM TypesHold == Spec => []TypeOK
<1>1. IndInv => TypeOK
  BY DEF IndInv
<1> QED
  BY <1>1, Invariance, PTL

\* Whatever filters a worker combines, findAll shows nothing that findOne refuses.
THEOREM ListsAreViewable == Spec => []ListsShowOnlyViewable
<1>1. IndInv => ListsShowOnlyViewable
  <2> SUFFICES ASSUME IndInv, list = "orders", NEW i \in Ids, shown[i] # Any
               PROVE  MayView(query, shown[i])
    BY DEF ListsShowOnlyViewable
  <2>1. query \in Queries["orders"]
    BY DEF IndInv, ShownWereFound, NoRows
  <2>2. PICK time \in BOOLEAN : Matches(query, shown[i], time)
    BY DEF IndInv, ShownWereFound
  <2> QED
    BY <2>1, <2>2, VisibleIsViewable DEF Matches
<1> QED
  BY <1>1, Invariance, PTL

\* What the overdue filter lists, the answer marks overdue.
THEOREM OverdueListsAreMarked == Spec => []OverdueRowsAreMarked
<1>1. IndInv => OverdueRowsAreMarked
  <2> SUFFICES ASSUME IndInv, list = "orders", query # Any, Flag(query.overdue),
                      query.status \notin Closed, NEW i \in Ids, shown[i] # Any
               PROVE  Overdue(shown[i], passed)
    BY DEF OverdueRowsAreMarked
  <2>1. query \in Queries["orders"]
    BY DEF IndInv, ShownWereFound, NoRows
  <2>2. PICK time \in BOOLEAN : (time => passed) /\ Matches(query, shown[i], time)
    BY DEF IndInv, ShownWereFound
  <2>3. Overdue(shown[i], time)
    BY <2>1, <2>2, OverdueIsMarked DEF Matches
  <2> QED
    BY <2>2, <2>3 DEF Overdue, Late
<1> QED
  BY <1>1, Invariance, PTL

\* Whoever reads all the pages of a list has seen every row that was in it all the
\* while, but for rows that a newer one's leaving moved to a page already read, or
\* that came between a count and its page.  For any number of rows and any page.
THEOREM WalksMissOnlyWhatMoved == Spec => []WalkMissesOnlyWhatMoved
<1>1. WalkInv => WalkMissesOnlyWhatMoved
  BY DEF WalkInv
<1> QED
  BY <1>1, Invariance, PTL

\* The statements of a statistic agree about the rows that did not change while
\* they were read, in whatever order, and nobody is left out of byUser for someone
\* who did less.
THEOREM FiguresOfStatisticsAddUp == Spec => []FiguresAddUp
<1>1. IndInv /\ FiguresInv => FiguresAddUp
  <2> SUFFICES ASSUME IndInv, FiguresInv, pc = "done", page = 0, NEW i \in kept
               PROVE  LET in(f) == i \in figures[f] IN
                      CASE list = "orders" ->
                             /\ in("byStatus") <=> in("total")
                             /\ in("byPriority") <=> in("total")
                             /\ in("overdue") <=> in("total") /\ Overdue(rows[i], now)
                        [] list = "users" ->
                             /\ in("byRole") <=> in("total")
                             /\ in("total") <=> in("active") \/ in("inactive")
                             /\ ~(in("active") /\ in("inactive"))
                        [] list = "logs" ->
                             /\ in("byAction") <=> in("total")
                             /\ in("byUser") => in("total")
                             /\ in("total") /\ ~in("byUser") =>
                                  Cardinality(figures["byUser"])
                                    >= TopUsers * Cardinality({j \in kept : rows[j] # Any /\ rows[j].by = rows[i].by})
    BY DEF FiguresAddUp
  <2>1. \A f \in Statements[list] : FigureIsRight(f)
    BY DEF FiguresInv
  <2>2. CASE list = "orders"
    <3>1. \A f \in {"total", "byStatus", "byPriority", "overdue"} :
            i \in figures[f] <=> rows[i] # Any /\ Counts(f, rows[i])
      BY <2>1, <2>2 DEF FigureIsRight, Statements
    <3> QED
      BY <2>2, <3>1 DEF Counts
  <2>3. CASE list = "users"
    <3>1. \A f \in {"total", "active", "inactive", "byRole"} :
            i \in figures[f] <=> rows[i] # Any /\ Counts(f, rows[i])
      BY <2>1, <2>3 DEF FigureIsRight, Statements
    <3> QED
      BY <2>3, <3>1 DEF Counts
  <2>4. CASE list = "logs"
    <3>1. \A f \in {"total", "byAction"} :
            i \in figures[f] <=> rows[i] # Any /\ Counts(f, rows[i])
      BY <2>1, <2>4 DEF FigureIsRight, Statements
    <3>2. FigureIsRight("byUser")
      BY <2>1, <2>4 DEF Statements
    <3> QED
      BY <2>4, <3>1, <3>2 DEF Counts, FigureIsRight, EntriesAmong
  <2> QED
    BY <2>2, <2>3, <2>4 DEF IndInv, TypeOK, Tables
<1> QED
  BY <1>1, Invariance, PTL
===============================================================================
