------------------------- MODULE Corrupters_proofs -------------------------
(***************************************************************************)
(* What a corrupt run leaves on disk, for every source emit, every list of *)
(* operations of any length and wherever runs die, fail or are repeated on *)
(* one directory.                                                          *)
(*                                                                         *)
(* OutputStands does not follow from what is on disk alone: that opening   *)
(* the database overwrites nothing is known from the check the run made    *)
(* before its first operation.  AtWork carries it through the operations   *)
(* and from file to file.                                                  *)
(***************************************************************************)
EXTENDS Corrupters, Rows_proofs

OutType == out \in [db : {"none", "partial", "whole"}, json : {"none", "whole"},
                    manifest : {"none", "whole"}]

\* What a run knows of the directory it writes to.
AtWork ==
    /\ phase = "running"  => out.db = "none"    /\ out.json = "none"
    /\ phase = "database" => out.db = "partial" /\ out.json = "none"
    /\ phase = "sidecar"  => out.db = "whole"   /\ out.json = "none"
    /\ phase = "manifest" => out.db = "whole"   /\ out.json = "whole"

OnDisk == OutType /\ AtWork /\ EmitsAreWhole

\* Whatever an operation does, it writes nothing, and it ends in a run that goes on
\* or has raised.
LEMMA PerformWritesNothing ==
    ASSUME NEW kind, NEW n, NEW o, Perform(kind, n, o)
    PROVE  phase = "running" /\ phase' \in {"running", "raised"} /\ UNCHANGED out
BY DEF Perform, Budget

\* The same of all the operations a configuration may list.
LEMMA OperationWritesNothing ==
    ASSUME Operation
    PROVE  phase = "running" /\ phase' \in {"running", "raised"} /\ UNCHANGED out
<1>1. CASE NullCellsStep         BY <1>1, PerformWritesNothing DEF NullCellsStep
<1>2. CASE DangleReferenceStep   BY <1>2, PerformWritesNothing DEF DangleReferenceStep
<1>3. CASE MispointReferenceStep BY <1>3, PerformWritesNothing DEF MispointReferenceStep
<1>4. CASE DeleteRowsStep        BY <1>4, PerformWritesNothing DEF DeleteRowsStep
<1>5. CASE InsertRowsStep        BY <1>5, PerformWritesNothing DEF InsertRowsStep
<1>6. CASE DuplicateExactStep    BY <1>6, PerformWritesNothing DEF DuplicateExactStep
<1>7. CASE DuplicateNearStep     BY <1>7, PerformWritesNothing DEF DuplicateNearStep
<1>8. CASE DuplicateConflictStep BY <1>8, PerformWritesNothing DEF DuplicateConflictStep
<1>9. CASE MutateCellsStep       BY <1>9, PerformWritesNothing DEF MutateCellsStep
<1>10. CASE DropEventsStep       BY <1>10, PerformWritesNothing DEF DropEventsStep
<1>11. CASE FreezeSeriesStep     BY <1>11, PerformWritesNothing DEF FreezeSeriesStep
<1>12. CASE ShiftOffsetStep      BY <1>12, PerformWritesNothing DEF ShiftOffsetStep
<1>13. CASE ShiftCollideStep     BY <1>13, PerformWritesNothing DEF ShiftCollideStep
<1>14. CASE ShiftSwapStep        BY <1>14, PerformWritesNothing DEF ShiftSwapStep
<1>15. CASE DistortIntervalsStep BY <1>15, PerformWritesNothing DEF DistortIntervalsStep
<1>16. CASE SchemaDriftStep      BY <1>16, PerformWritesNothing DEF SchemaDriftStep
<1> QED BY <1>1, <1>2, <1>3, <1>4, <1>5, <1>6, <1>7, <1>8, <1>9, <1>10, <1>11, <1>12, <1>13,
           <1>14, <1>15, <1>16 DEF Operation

\* A run that has not written yet finds an empty directory, or is refused.
LEMMA InitOnDisk == Init => OnDisk
BY DEF Init, OnDisk, OutType, AtWork, EmitsAreWhole

\* The files appear in one order, and a failure takes away only what no manifest names.
LEMMA StepOnDisk == OnDisk /\ [Next]_vars => OnDisk' /\ EmitStands
<1> SUFFICES ASSUME OnDisk, [Next]_vars PROVE OnDisk' /\ EmitStands
    OBVIOUS
<1> USE DEF OnDisk, OutType, AtWork, EmitsAreWhole, EmitStands
<1>1. CASE Begin         BY <1>1 DEF Begin, Acceptable
<1>2. CASE Refuse        BY <1>2 DEF Refuse
<1>3. CASE Operation
  <2>1. phase = "running" /\ phase' \in {"running", "raised"} /\ out' = out
    BY <1>3, OperationWritesNothing
  <2> QED BY <2>1
<1>4. CASE OpenDatabase  BY <1>4 DEF OpenDatabase
<1>5. CASE CloseDatabase BY <1>5 DEF CloseDatabase
<1>6. CASE WriteSidecar  BY <1>6 DEF WriteSidecar
<1>7. CASE WriteManifest BY <1>7 DEF WriteManifest
<1>8. CASE WriteFails    BY <1>8 DEF WriteFails
<1>9. CASE Again         BY <1>9 DEF Again, Fresh
<1>10. CASE UNCHANGED vars BY <1>10 DEF vars
<1> QED BY <1>1, <1>2, <1>3, <1>4, <1>5, <1>6, <1>7, <1>8, <1>9, <1>10 DEF Next

\* A manifest never describes a partial emit, a sidecar never names a partial
\* database, and an emit once written stays, whatever dies, fails or runs again
\* (engine.py, corrupt_emit; base_writer.py, write_base_emit).
THEOREM EmitsStandWhole == Spec => OutputStands
<1>1. OnDisk /\ [Next]_vars => [EmitsAreWhole' /\ EmitStands]_vars
  BY StepOnDisk DEF OnDisk
<1> QED BY <1>1, InitOnDisk, StepOnDisk, PTL DEF Spec, OutputStands
---------------------------------------------------------------------------
(* The frame of the data, and what an operation has to do to keep it.      *)

\* The checks C3, C4 and C5 of one table.
Layout(n, t) ==
    /\ n = History => StartsWith(Shape(t.cols), HistoryColumns)
    /\ t.category = "records" => t.kind # NULL /\ n = RecordsOf(t.kind) /\ RecordsLayout(t.cols)
    /\ t.category = "membership" =>
          t.kind # NULL /\ t.property # NULL /\ n = <<"membership", t.kind, t.property>>

\* The high-water mark is above every record_index there is, and there was.
Indexed(t, o, mark) ==
    /\ mark \in Int
    /\ \A r \in Range(t.rows) \cup Range(o.rows) : r[RecordIndex] \in Int /\ r[RecordIndex] <= mark

\* A record of the source is in the table still, or has left a tombstone.
Remembered(t, o, deleted) ==
    \A q \in Range(o.rows) : \/ \E r \in Range(t.rows) : r[RecordId] = q[RecordId]
                             \/ <<t.kind, q[RecordId]>> \in deleted

\* Table n of the working state S against the table the source src has.
FramedTable(src, S, n) ==
    LET t == S.tabs[n]
        o == src.tabs[n]
    IN  /\ IsTable(t) /\ Layout(n, t)
        /\ t.category = o.category /\ t.kind = o.kind /\ t.property = o.property
        /\ \A r \in Range(t.rows) : r[Fork] = src.sidecar.fork
        /\ t.category = "records" =>
              Indexed(t, o, S.marks[n]) /\ Remembered(t, o, S.deleted)

Framed(src, S) ==
    /\ S = [tabs |-> S.tabs, deleted |-> S.deleted, marks |-> S.marks]
    /\ S.tabs = [n \in DOMAIN src.tabs |-> S.tabs[n]]
    /\ S.marks = [n \in {m \in DOMAIN S.tabs : S.tabs[m].category = "records"} |-> S.marks[n]]
    /\ History \in DOMAIN src.tabs /\ src.sidecar.fork # NULL
    /\ \A n \in DOMAIN src.tabs : FramedTable(src, S, n)

\* Every row of t2 has the frame of a row of t, and nothing else of the table changed.
Carried(t, t2) ==
    /\ t2 = [t EXCEPT !.rows = t2.rows] /\ IsTable(t2)
    /\ \A q \in Range(t2.rows) : \E r \in Range(t.rows) : \A c \in FrameColumns(t) : q[c] = r[c]

\* The records of t are in t2, or among the tombstones.
Accounted(t, t2, deleted) ==
    t.category = "records" =>
       \A r \in Range(t.rows) : \/ \E q \in Range(t2.rows) : q[RecordId] = r[RecordId]
                                \/ <<t.kind, r[RecordId]>> \in deleted

\* Which checks fail is which of the definitions are false.
LEMMA FailingFacts ==
    ASSUME NEW e
    PROVE  /\ "C1" \in Failing(e) <=> ~C1(e)
           /\ "C2" \in Failing(e) <=> ~C2(e)
           /\ "C3" \in Failing(e) <=> ~C3(e)
           /\ "C4" \in Failing(e) <=> ~C4(e)
           /\ "C5" \in Failing(e) <=> ~C5(e)
           /\ "C8" \in Failing(e) <=> ~C8(e)
           /\ "C15" \in Failing(e) <=> ~C15(e)
BY DEF Failing

\* The sidecar's entry of a table.
Entry(n, t) == [name |-> n, category |-> t.category, kind |-> t.kind, property |-> t.property,
                cols |-> t.cols, rows |-> Len(t.rows)]

\* The catalog and the table entries of an emit, table by table.
LEMMA EmittedFacts ==
    ASSUME NEW tabs, NEW side, NEW e, e = Emitted(tabs, side)
    PROVE  /\ \A s : s \in e.specs <=> \E n \in DOMAIN tabs : s = Entry(n, tabs[n])
           /\ DOMAIN e.cat = DOMAIN tabs
           /\ \A n \in DOMAIN tabs : /\ e.cat[n].cols = Shape(tabs[n].cols)
                                     /\ e.cat[n].rows = tabs[n].rows
           /\ e.branches = {[fork |-> side.fork, slice |-> side.slice]}
BY DEF Emitted, Entry

LEMMA EntryFacts ==
    ASSUME NEW n, NEW t
    PROVE  /\ Entry(n, t).name = n /\ Entry(n, t).category = t.category
           /\ Entry(n, t).kind = t.kind /\ Entry(n, t).property = t.property
           /\ Entry(n, t).cols = t.cols /\ Entry(n, t).rows = Len(t.rows)
BY DEF Entry

\* C3, C4 and C5 are the layouts of all the tables.
LEMMA LayoutIsChecks ==
    ASSUME NEW tabs, NEW side
    PROVE  C3(Emitted(tabs, side)) /\ C4(Emitted(tabs, side)) /\ C5(Emitted(tabs, side))
             <=> History \in DOMAIN tabs /\ \A n \in DOMAIN tabs : Layout(n, tabs[n])
<1> DEFINE e == Emitted(tabs, side)
<1>1. \A s : s \in e.specs <=> \E n \in DOMAIN tabs : s = Entry(n, tabs[n])
  BY EmittedFacts
<1> HIDE DEF e
<1>2. \A n \in DOMAIN tabs : Entry(n, tabs[n]) \in e.specs
  BY <1>1
<1>3. C3(e) <=> /\ History \in DOMAIN tabs
                /\ \A n \in DOMAIN tabs :
                     /\ tabs[n].category = "records" =>
                           tabs[n].kind # NULL /\ n = RecordsOf(tabs[n].kind)
                     /\ tabs[n].category = "membership" =>
                           /\ tabs[n].kind # NULL /\ tabs[n].property # NULL
                           /\ n = <<"membership", tabs[n].kind, tabs[n].property>>
  <2>1. (\E s \in e.specs : s.name = History) <=> History \in DOMAIN tabs
    BY <1>1, EntryFacts
  <2>2. (\A s \in SpecsOf(e, "records") : s.kind # NULL /\ s.name = RecordsOf(s.kind))
          <=> \A n \in DOMAIN tabs : tabs[n].category = "records" =>
                 tabs[n].kind # NULL /\ n = RecordsOf(tabs[n].kind)
    BY <1>1, <1>2, EntryFacts DEF SpecsOf
  <2>3. (\A s \in SpecsOf(e, "membership") :
           s.kind # NULL /\ s.property # NULL /\ s.name = <<"membership", s.kind, s.property>>)
          <=> \A n \in DOMAIN tabs : tabs[n].category = "membership" =>
                 /\ tabs[n].kind # NULL /\ tabs[n].property # NULL
                 /\ n = <<"membership", tabs[n].kind, tabs[n].property>>
    <3> DEFINE named(s) == s.name = <<"membership", s.kind, s.property>>
               placed(n) == n = <<"membership", tabs[n].kind, tabs[n].property>>
    <3>1. ASSUME NEW n PROVE named(Entry(n, tabs[n])) <=> placed(n)
      <4>1. /\ Entry(n, tabs[n]).name = n /\ Entry(n, tabs[n]).kind = tabs[n].kind
            /\ Entry(n, tabs[n]).property = tabs[n].property
        BY EntryFacts
      <4> QED
        BY <4>1, Zenon
    <3> HIDE DEF named, placed
    <3>2. (\A s \in SpecsOf(e, "membership") : s.kind # NULL /\ s.property # NULL /\ named(s))
            <=> \A n \in DOMAIN tabs : tabs[n].category = "membership" =>
                   tabs[n].kind # NULL /\ tabs[n].property # NULL /\ placed(n)
      BY <1>1, <1>2, <3>1, EntryFacts DEF SpecsOf
    <3> QED
      BY <3>2 DEF named, placed
  <2> QED
    BY <2>1, <2>2, <2>3 DEF C3
<1>4. C4(e) <=> \A n \in DOMAIN tabs : n = History => StartsWith(Shape(tabs[n].cols), HistoryColumns)
  BY <1>1, <1>2, EntryFacts DEF C4
<1>5. C5(e) <=> \A n \in DOMAIN tabs : tabs[n].category = "records" => RecordsLayout(tabs[n].cols)
  BY <1>1, <1>2, EntryFacts DEF C5, SpecsOf
<1> QED
  BY <1>3, <1>4, <1>5 DEF e, Layout

\* Shape keeps the names.
LEMMA ShapeNames ==
    ASSUME NEW cols
    PROVE  \A x : x \in {c.name : c \in Range(Shape(cols))} <=> x \in {c.name : c \in Range(cols)}
<1> DEFINE sh == Shape(cols)
<1>1. DOMAIN sh = DOMAIN cols /\ \A i \in DOMAIN cols : sh[i].name = cols[i].name
  BY DEF Shape
<1> HIDE DEF sh
<1>2. \A c : c \in Range(sh) <=> \E i \in DOMAIN sh : c = sh[i]
  BY DEF Range
<1>3. \A c : c \in Range(cols) <=> \E i \in DOMAIN cols : c = cols[i]
  BY DEF Range
<1>4. \A x : x \in {c.name : c \in Range(sh)} <=> \E i \in DOMAIN sh : x = sh[i].name
  BY <1>2
<1>5. \A x : x \in {c.name : c \in Range(cols)} <=> \E i \in DOMAIN cols : x = cols[i].name
  BY <1>3
<1>6. ASSUME NEW x PROVE (\E i \in DOMAIN sh : x = sh[i].name) <=> \E i \in DOMAIN cols : x = cols[i].name
  BY <1>1
<1>7. \A x : x \in {c.name : c \in Range(sh)} <=> x \in {c.name : c \in Range(cols)}
  BY <1>4, <1>5, <1>6, Zenon
<1> QED
  BY <1>7 DEF sh

\* The names of a table's catalog columns are those of its table entry.
LEMMA CatalogNames ==
    ASSUME NEW tabs, NEW side, NEW n \in DOMAIN tabs
    PROVE  /\ ColumnNames(Emitted(tabs, side), n) = ColumnsOf(tabs[n])
           /\ TableRows(Emitted(tabs, side), n) = Range(tabs[n].rows)
           /\ Tables(Emitted(tabs, side)) = DOMAIN tabs
<1> DEFINE e == Emitted(tabs, side)
<1>1. e.cat[n].cols = Shape(tabs[n].cols) /\ e.cat[n].rows = tabs[n].rows /\ DOMAIN e.cat = DOMAIN tabs
  BY EmittedFacts
<1> HIDE DEF e
<1>2. ColumnNames(e, n) = ColumnsOf(tabs[n])
  BY <1>1, ShapeNames DEF ColumnNames, ColumnsOf
<1> QED
  BY <1>1, <1>2 DEF e, TableRows, Tables

\* The branches the data names, where every table has the branch column.
LEMMA ForksOfTables ==
    ASSUME NEW tabs, NEW side, \A n \in DOMAIN tabs : IsTable(tabs[n])
    PROVE  \A x : x \in DataForks(Emitted(tabs, side)) <=>
              \E n \in DOMAIN tabs : x \in {r[Fork] : r \in Range(tabs[n].rows)} \ {NULL}
<1> DEFINE e == Emitted(tabs, side)
<1>1. /\ \A n \in DOMAIN tabs : ColumnNames(e, n) = ColumnsOf(tabs[n])
                                /\ TableRows(e, n) = Range(tabs[n].rows)
      /\ DOMAIN tabs # {} => Tables(e) = DOMAIN tabs
  BY CatalogNames
<1>2. \A n \in DOMAIN tabs : Fork \in ColumnsOf(tabs[n])
  BY DEF IsTable, FrameColumns
<1>3. \A s : s \in e.specs <=> \E n \in DOMAIN tabs : s = Entry(n, tabs[n])
  BY EmittedFacts
<1> HIDE DEF e
<1>4. \A n \in DOMAIN tabs : Has(e, n, {Fork})
  BY <1>1, <1>2 DEF Has
<1>5. ASSUME NEW s \in e.specs PROVE s.name \in DOMAIN tabs /\ Has(e, s.name, {Fork})
  <2>1. PICK n \in DOMAIN tabs : s = Entry(n, tabs[n])
    BY <1>3
  <2>2. s.name = n
    BY <2>1, EntryFacts
  <2> QED
    BY <1>4, <2>2
<1>6. \A n \in DOMAIN tabs : \E s \in e.specs : s.name = n
  BY <1>3, EntryFacts
<1> DEFINE D == {t \in e.specs : Has(e, t.name, {Fork})}
<1>7. \A s : s \in D <=> s \in e.specs
  BY <1>5
<1> HIDE DEF D
<1>8. {s.name : s \in D} = DOMAIN tabs
  BY <1>5, <1>6, <1>7
<1>9. DataForks(e) = UNION {{r[Fork] : r \in Range(tabs[n].rows)} \ {NULL} : n \in DOMAIN tabs}
  BY <1>1, <1>8 DEF DataForks, D
<1> DEFINE forks(n) == {r[Fork] : r \in Range(tabs[n].rows)} \ {NULL}
<1>10. DataForks(e) = UNION {forks(n) : n \in DOMAIN tabs}
  BY <1>9, Zenon
<1> HIDE DEF forks
<1>11. \A x : x \in DataForks(e) <=> \E n \in DOMAIN tabs : x \in forks(n)
  BY <1>10, Zenon
<1> QED
  BY <1>11 DEF e, forks

\* An emit with the frame, not emptied of every row, passes the structural checks.
LEMMA FramedPasses ==
    ASSUME NEW src, NEW S, Framed(src, S),
           \E n \in DOMAIN S.tabs : S.tabs[n].rows # <<>>
    PROVE  Failing(Emitted(S.tabs, src.sidecar))
             \cap {"C1", "C2", "C3", "C4", "C5", "C8", "C15"} = {}
<1> DEFINE tabs == S.tabs
           side == src.sidecar
           e == Emitted(tabs, side)
<1>1. /\ \A n \in DOMAIN tabs : FramedTable(src, S, n) /\ IsTable(tabs[n])
      /\ History \in DOMAIN tabs /\ side.fork # NULL
  BY DEF Framed, FramedTable
<1>2. C1(e) /\ C15(e)
  BY DEF C1, C15, Emitted
<1>3. C3(e) /\ C4(e) /\ C5(e)
  <2>1. \A n \in DOMAIN tabs : Layout(n, tabs[n])
    BY <1>1 DEF FramedTable
  <2> QED
    BY <1>1, <2>1, LayoutIsChecks
<1>4. C2(e)
  <2>1. /\ \A s : s \in e.specs <=> \E n \in DOMAIN tabs : s = Entry(n, tabs[n])
        /\ DOMAIN e.cat = DOMAIN tabs
        /\ \A n \in DOMAIN tabs : /\ e.cat[n].cols = Shape(tabs[n].cols)
                                  /\ e.cat[n].rows = tabs[n].rows
    BY EmittedFacts
  <2> HIDE DEF e, tabs
  <2>2. \A s \in e.specs : \E n \in DOMAIN tabs :
           s.name = n /\ s.cols = tabs[n].cols /\ s.rows = Len(tabs[n].rows)
    BY <2>1, EntryFacts
  <2>3. \A s \in e.specs : Shape(s.cols) = e.cat[s.name].cols /\ s.rows = Len(e.cat[s.name].rows)
    BY <2>1, <2>2
  <2>4. \A x : x \in {s.name : s \in e.specs} <=> x \in DOMAIN tabs
    BY <2>1, EntryFacts
  <2>5. DOMAIN e.cat = {s.name : s \in e.specs}
    BY <2>1, <2>4
  <2> QED
    BY <2>3, <2>5 DEF C2, Tables
<1>5. C8(e)
  <2>1. e.branches = {[fork |-> side.fork, slice |-> side.slice]}
    BY EmittedFacts
  <2>2. Cardinality(e.branches) = 1 /\ {b.fork : b \in e.branches} = {side.fork}
    <3> DEFINE b == [fork |-> side.fork, slice |-> side.slice]
    <3>1. b.fork = side.fork
      OBVIOUS
    <3> HIDE DEF b
    <3>2. Cardinality({b}) = 1 /\ {x.fork : x \in {b}} = {side.fork}
      BY <3>1, FS_Singleton
    <3> QED
      BY <2>1, <3>2 DEF b
  <2>6. \A n \in DOMAIN tabs : \A r \in Range(tabs[n].rows) : r[Fork] = side.fork
    BY <1>1 DEF FramedTable
  <2>7. PICK m \in DOMAIN tabs : tabs[m].rows # <<>>
    OBVIOUS
  <2>8. \E r \in Range(tabs[m].rows) : TRUE
    <3>1. tabs[m].rows \in Seq(Range(tabs[m].rows))
      BY <1>1, <2>7 DEF IsTable
    <3> DEFINE rows == tabs[m].rows
    <3>2. 1 \in DOMAIN rows
      <4> HIDE DEF rows
      <4>1. Len(rows) \in Nat /\ Len(rows) # 0 /\ DOMAIN rows = 1 .. Len(rows)
        BY <2>7, <3>1 DEF rows
      <4> QED
        BY <4>1
    <3> QED
      BY <3>2 DEF Range
  <2>9. DataForks(e) = {side.fork}
    <3> HIDE DEF tabs, side, e
    <3>1. \A n \in DOMAIN tabs : {r[Fork] : r \in Range(tabs[n].rows)} \ {NULL} \subseteq {side.fork}
      BY <2>6
    <3>2. {r[Fork] : r \in Range(tabs[m].rows)} \ {NULL} = {side.fork}
      BY <1>1, <2>6, <2>7, <2>8
    <3>3. \A x : x \in DataForks(e) <=>
             \E n \in DOMAIN tabs : x \in {r[Fork] : r \in Range(tabs[n].rows)} \ {NULL}
      BY <1>1, ForksOfTables DEF tabs, side, e
    <3>4. \A x : x \in DataForks(e) <=> x = side.fork
      BY <2>7, <3>1, <3>2, <3>3
    <3> QED
      BY <3>4
  <2> QED
    BY <2>2, <2>9 DEF C8
<1> HIDE DEF tabs, side, e
<1>6. \A c \in {"C1", "C2", "C3", "C4", "C5", "C8", "C15"} : c \notin Failing(e)
  BY <1>2, <1>3, <1>4, <1>5, FailingFacts
<1> QED
  BY <1>6 DEF e, tabs, side

---------------------------------------------------------------------------
(* Loading the source.                                                     *)

\* Of finitely many integers one is the greatest.
LEMMA GreatestOf ==
    ASSUME NEW n \in Nat, 1 <= n, NEW f, \A i \in 1 .. n : f[i] \in Int
    PROVE  \E m \in 1 .. n : \A i \in 1 .. n : f[i] <= f[m]
<1> DEFINE Greatest(k) == \E m \in 1 .. k : \A i \in 1 .. k : f[i] <= f[m]
           B == {k \in 1 .. n : ~Greatest(k)}
<1>1. SUFFICES ASSUME B # {} PROVE FALSE
  <2>1. n \in 1 .. n
    OBVIOUS
  <2> QED
    BY <2>1
<1>2. PICK w \in B : \A x \in B : w <= x
  <2>1. B \in SUBSET Nat
    OBVIOUS
  <2> HIDE DEF B
  <2> QED
    BY <1>1, <2>1, LeastNatural
<1>3. w \in 1 .. n /\ ~Greatest(w)
  BY <1>2
<1>4. CASE w = 1
  <2>1. Greatest(1)
    OBVIOUS
  <2> QED
    BY <1>3, <1>4, <2>1
<1>5. CASE w # 1
  <2>1. w - 1 \in 1 .. n /\ w - 1 < w
    BY <1>3, <1>5
  <2>2. w - 1 \notin B
    <3> HIDE DEF B
    <3> QED
      BY <1>2, <1>3, <2>1
  <2>3. Greatest(w - 1)
    <3> HIDE DEF Greatest
    <3> QED
      BY <2>1, <2>2
  <2>4. PICK m \in 1 .. (w - 1) : \A i \in 1 .. (w - 1) : f[i] <= f[m]
    BY <2>3
  <2> DEFINE g == IF f[w] <= f[m] THEN m ELSE w
  <2>5. g \in 1 .. w /\ \A i \in 1 .. w : f[i] <= f[g]
    <3>1. f[w] \in Int /\ f[m] \in Int /\ m \in 1 .. n /\ w \in 1 .. n
      BY <1>3, <2>1
    <3>2. ASSUME NEW i \in 1 .. w PROVE f[i] <= f[g]
      <4>1. i = w \/ i \in 1 .. (w - 1)
        BY <1>3
      <4>2. f[i] \in Int
        BY <1>3
      <4> QED
        BY <2>4, <3>1, <4>1, <4>2
    <3> QED
      BY <1>3, <2>4, <3>2
  <2> HIDE DEF g
  <2>6. Greatest(w)
    BY <2>5
  <2> QED
    BY <1>3, <2>6
<1> QED
  BY <1>4, <1>5

\* The mark taken at load is above every record_index of the table.
LEMMA IndexMarkBounds ==
    ASSUME NEW t, IsTable(t), \A r \in Range(t.rows) : r[RecordIndex] \in Int
    PROVE  IndexMark(t) \in Int /\ \A r \in Range(t.rows) : r[RecordIndex] <= IndexMark(t)
<1> DEFINE rows == t.rows
<1>1. rows \in Seq(Range(rows))
  BY DEF IsTable
<1>2. Len(rows) \in Nat /\ DOMAIN rows = 1 .. Len(rows)
  BY <1>1
<1>3. CASE rows = <<>>
  <2>1. Range(rows) = {}
    BY <1>3 DEF Range
  <2> QED
    BY <1>3, <2>1 DEF IndexMark
<1>4. CASE rows # <<>>
  <2> DEFINE f == [i \in DOMAIN rows |-> rows[i][RecordIndex]]
             values == {r[RecordIndex] : r \in Range(rows)}
  <2>1. 1 <= Len(rows)
    <3> HIDE DEF rows
    <3> QED
      BY <1>1, <1>2, <1>4
  <2>2. \A i \in 1 .. Len(rows) : rows[i] \in Range(rows) /\ f[i] = rows[i][RecordIndex] /\ f[i] \in Int
    BY <1>2 DEF Range
  <2> HIDE DEF f
  <2>3. PICK m \in 1 .. Len(rows) : \A i \in 1 .. Len(rows) : f[i] <= f[m]
    BY <1>2, <2>1, <2>2, GreatestOf
  <2>4. \A r \in Range(rows) : \E i \in 1 .. Len(rows) : r = rows[i]
    BY <1>2 DEF Range
  <2>5. \A r \in Range(rows) : r[RecordIndex] <= f[m]
    BY SMTT(20), <2>2, <2>3, <2>4
  <2>6. f[m] \in values /\ values \subseteq Int
    BY <2>2
  <2>7. IndexMark(t) = CHOOSE x \in values : \A r \in Range(rows) : r[RecordIndex] <= x
    BY <1>4 DEF IndexMark
  <2> HIDE DEF values, rows
  <2>8. IndexMark(t) \in values /\ \A r \in Range(rows) : r[RecordIndex] <= IndexMark(t)
    BY <2>5, <2>6, <2>7
  <2> QED
    BY <2>6, <2>8 DEF rows
<1> QED
  BY <1>3, <1>4

\* A source the reader accepts is a state with the frame.
LEMMA LoadedFramed ==
    ASSUME NEW w \in DOMAIN Worlds,
           Conformant(Emitted(Worlds[w].tabs, Worlds[w].sidecar))
    PROVE  Framed(Worlds[w], Loaded(Worlds[w]))
<1> DEFINE src == Worlds[w]
           tabs == src.tabs
           side == src.sidecar
           e == Emitted(tabs, side)
           S == Loaded(src)
           records == {n \in DOMAIN tabs : tabs[n].category = "records"}
<1>1. /\ tabs = [n \in DOMAIN tabs |-> tabs[n]]
      /\ \A n \in DOMAIN tabs : IsTable(tabs[n])
      /\ \A n \in DOMAIN tabs : \A r \in Range(tabs[n].rows) : r[Fork] # NULL
      /\ \A n \in records : \A r \in Range(tabs[n].rows) : r[RecordIndex] \in Int
  BY WorldsAssumption
<1>2. C3(e) /\ C4(e) /\ C5(e) /\ C8(e)
  <2>1. Failing(e) = {}
    BY DEF Conformant
  <2> HIDE DEF e
  <2> QED
    BY <2>1, FailingFacts
<1>3. History \in DOMAIN tabs /\ \A n \in DOMAIN tabs : Layout(n, tabs[n])
  BY <1>2, LayoutIsChecks
<1>4. DataForks(e) = {side.fork}
  <2>1. e.branches = {[fork |-> side.fork, slice |-> side.slice]}
    BY EmittedFacts
  <2>2. {b.fork : b \in e.branches} = {side.fork}
    <3> DEFINE b == [fork |-> side.fork, slice |-> side.slice]
    <3>1. b.fork = side.fork
      OBVIOUS
    <3> HIDE DEF b
    <3>2. {x.fork : x \in {b}} = {side.fork}
      BY <3>1
    <3> QED
      BY <2>1, <3>2 DEF b
  <2> QED
    BY <1>2, <2>2 DEF C8
<1>5. side.fork # NULL /\ \A n \in DOMAIN tabs : \A r \in Range(tabs[n].rows) : r[Fork] = side.fork
  <2>1. \A x : x = side.fork <=>
           \E n \in DOMAIN tabs : x \in {r[Fork] : r \in Range(tabs[n].rows)} \ {NULL}
    BY <1>1, <1>4, ForksOfTables
  <2> HIDE DEF tabs, side
  <2> QED
    BY <1>1, <2>1
<1>6. /\ S = [tabs |-> tabs, deleted |-> {}, marks |-> [n \in records |-> IndexMark(tabs[n])]]
      /\ S.tabs = tabs /\ S.deleted = {} /\ S.marks = [n \in records |-> IndexMark(tabs[n])]
  BY DEF Loaded
<1> HIDE DEF S, tabs, side, e
<1>7. ASSUME NEW n \in DOMAIN tabs PROVE FramedTable(src, S, n)
  <2>1. tabs[n].category = "records" => Indexed(tabs[n], tabs[n], S.marks[n])
    BY <1>1, <1>6, IndexMarkBounds DEF Indexed
  <2>2. Remembered(tabs[n], tabs[n], S.deleted)
    BY DEF Remembered
  <2> QED
    BY <1>1, <1>3, <1>5, <1>6, <2>1, <2>2 DEF FramedTable, tabs, side
<1>8. /\ S = [tabs |-> S.tabs, deleted |-> S.deleted, marks |-> S.marks]
      /\ S.tabs = [n \in DOMAIN tabs |-> S.tabs[n]]
      /\ S.marks = [n \in {m \in DOMAIN S.tabs : S.tabs[m].category = "records"} |-> S.marks[n]]
  BY <1>1, <1>6
<1> QED
  BY <1>3, <1>5, <1>7, <1>8 DEF Framed, S, tabs, side

---------------------------------------------------------------------------
(* The ways an operation writes a table.                                   *)

\* New rows over the same columns make a table again.
LEMMA RowsTable ==
    ASSUME NEW t, IsTable(t), NEW rows, rows \in Seq(Range(rows)), NEW t2,
           t2 = [t EXCEPT !.rows = rows],
           \A q \in Range(rows) : q = [c \in ColumnsOf(t) |-> q[c]]
    PROVE  /\ IsTable(t2) /\ t2.rows = rows /\ t2.cols = t.cols /\ t2.category = t.category
           /\ t2.kind = t.kind /\ t2.property = t.property
<1>1. /\ t2 = [category |-> t.category, kind |-> t.kind, property |-> t.property,
               cols |-> t.cols, rows |-> rows]
      /\ t2.rows = rows /\ t2.cols = t.cols /\ t2.category = t.category
      /\ t2.kind = t.kind /\ t2.property = t.property
  BY DEF IsTable
<1>2. ColumnsOf(t2) = ColumnsOf(t) /\ FrameColumns(t2) = FrameColumns(t)
  BY <1>1 DEF ColumnsOf, FrameColumns
<1>3. IsTable(t2)
  BY <1>1, <1>2 DEF IsTable
<1> QED
  BY <1>1, <1>3

\* Where each of them has the frame of an old row, it is carried.
LEMMA RowsCarried ==
    ASSUME NEW t, IsTable(t), NEW rows, rows \in Seq(Range(rows)), NEW t2,
           t2 = [t EXCEPT !.rows = rows],
           \A q \in Range(rows) : q = [c \in ColumnsOf(t) |-> q[c]],
           \A q \in Range(rows) : \E r \in Range(t.rows) : \A c \in FrameColumns(t) : q[c] = r[c]
    PROVE  Carried(t, t2) /\ t2.rows = rows
<1>1. IsTable(t2) /\ t2.rows = rows
  BY RowsTable
<1> QED
  BY <1>1 DEF Carried

\* A function on an initial segment of the naturals is a sequence of its values.
LEMMA SequenceOf ==
    ASSUME NEW n \in Nat, NEW f, f = [i \in 1 .. n |-> f[i]]
    PROVE  f \in Seq(Range(f)) /\ Len(f) = n
<1>1. f \in [1 .. n -> Range(f)]
  BY DEF Range
<1> QED
  BY <1>1

\* The rows of t, each in its place, with other values outside the frame.
Reframed(t, rows) ==
    /\ rows = [i \in DOMAIN t.rows |-> rows[i]]
    /\ \A i \in DOMAIN t.rows : rows[i] = [c \in ColumnsOf(t) |-> rows[i][c]]
    /\ \A i \in DOMAIN t.rows : \A c \in FrameColumns(t) : rows[i][c] = t.rows[i][c]

\* Cells are rewritten outside the frame.
LEMMA MapCarried ==
    ASSUME NEW t, IsTable(t), NEW rows, Reframed(t, rows), NEW t2, NEW deleted,
           t2 = [t EXCEPT !.rows = rows]
    PROVE  Carried(t, t2) /\ Accounted(t, t2, deleted)
<1>0. /\ rows = [i \in DOMAIN t.rows |-> rows[i]]
      /\ \A i \in DOMAIN t.rows : rows[i] = [c \in ColumnsOf(t) |-> rows[i][c]]
      /\ \A i \in DOMAIN t.rows : \A c \in FrameColumns(t) : rows[i][c] = t.rows[i][c]
  BY DEF Reframed
<1>1. t.rows \in Seq(Range(t.rows))
  BY DEF IsTable
<1>2. Len(t.rows) \in Nat /\ DOMAIN t.rows = 1 .. Len(t.rows)
  BY <1>1
<1>3. rows \in Seq(Range(rows)) /\ DOMAIN rows = DOMAIN t.rows
  BY <1>0, <1>2, SequenceOf
<1>4. \A q \in Range(rows) : \E i \in DOMAIN t.rows : q = rows[i]
  BY <1>3 DEF Range
<1>5. \A r \in Range(t.rows) : \E i \in DOMAIN t.rows : r = t.rows[i]
  BY DEF Range
<1>6. \A i \in DOMAIN t.rows : rows[i] \in Range(rows) /\ t.rows[i] \in Range(t.rows)
  BY <1>3 DEF Range
<1>7. ASSUME NEW q \in Range(rows) PROVE q = [c \in ColumnsOf(t) |-> q[c]]
  <2>1. PICK i \in DOMAIN t.rows : q = rows[i]
    BY <1>4
  <2>2. rows[i] = [c \in ColumnsOf(t) |-> rows[i][c]]
    BY <1>0
  <2> QED
    BY <2>1, <2>2
<1>8. ASSUME NEW q \in Range(rows)
      PROVE  \E r \in Range(t.rows) : \A c \in FrameColumns(t) : q[c] = r[c]
  <2>1. PICK i \in DOMAIN t.rows : q = rows[i]
    BY <1>4
  <2>2. t.rows[i] \in Range(t.rows) /\ \A c \in FrameColumns(t) : rows[i][c] = t.rows[i][c]
    BY <1>0, <1>6
  <2> QED
    BY <2>1, <2>2
<1>9. Carried(t, t2) /\ t2.rows = rows
  BY <1>3, <1>7, <1>8, RowsCarried
<1>10. Accounted(t, t2, deleted)
  <2> SUFFICES ASSUME t.category = "records", NEW r \in Range(t.rows)
               PROVE  \E q \in Range(t2.rows) : q[RecordId] = r[RecordId]
    BY DEF Accounted
  <2>1. RecordId \in FrameColumns(t)
    BY DEF FrameColumns
  <2>2. PICK i \in DOMAIN t.rows : r = t.rows[i]
    BY <1>5
  <2>3. rows[i][RecordId] = r[RecordId] /\ rows[i] \in Range(t2.rows)
    BY <1>0, <1>6, <1>9, <2>1, <2>2
  <2> QED
    BY <2>3
<1> QED
  BY <1>9, <1>10

\* Rows are taken away.
LEMMA WithoutCarried ==
    ASSUME NEW t, IsTable(t), NEW gone, NEW t2, t2 = [t EXCEPT !.rows = Without(t.rows, gone)]
    PROVE  /\ Carried(t, t2)
           /\ Range(t2.rows) = {t.rows[k] : k \in DOMAIN t.rows \ gone}
<1> DEFINE rows == Without(t.rows, gone)
<1>1. t.rows \in Seq(Range(t.rows)) /\ \A r \in Range(t.rows) : r = [c \in ColumnsOf(t) |-> r[c]]
  BY DEF IsTable
<1>2. DOMAIN t.rows \ gone \in SUBSET DOMAIN t.rows
  OBVIOUS
<1>3. rows \in Seq(Range(rows)) /\ Range(rows) = {t.rows[k] : k \in DOMAIN t.rows \ gone}
  BY <1>1, <1>2, OnlyFacts DEF Without
<1> HIDE DEF rows
<1>4. Range(rows) \subseteq Range(t.rows)
  BY <1>3 DEF Range
<1>5. Carried(t, t2) /\ t2.rows = rows
  BY <1>1, <1>3, <1>4, RowsCarried DEF rows
<1> QED
  BY <1>3, <1>5

\* Rows are repeated at the end.
LEMMA RepeatedCarried ==
    ASSUME NEW t, IsTable(t), NEW again \in SUBSET DOMAIN t.rows, NEW t2, NEW deleted,
           t2 = [t EXCEPT !.rows = t.rows \o Only(t.rows, again)]
    PROVE  Carried(t, t2) /\ Accounted(t, t2, deleted)
<1> DEFINE more == Only(t.rows, again)
           rows == t.rows \o more
<1>1. t.rows \in Seq(Range(t.rows)) /\ \A r \in Range(t.rows) : r = [c \in ColumnsOf(t) |-> r[c]]
  BY DEF IsTable
<1>2. more \in Seq(Range(t.rows)) /\ Range(more) = {t.rows[k] : k \in again}
  BY <1>1, OnlyFacts
<1> HIDE DEF more
<1>3. Range(more) \subseteq Range(t.rows)
  BY <1>2 DEF Range
<1>4. rows \in Seq(Range(rows)) /\ Range(rows) = Range(t.rows)
  <2> DEFINE R == Range(t.rows)
             base == t.rows
  <2>1. base \in Seq(R) /\ more \in Seq(R)
    BY <1>1, <1>2
  <2>2. R \cup Range(more) = R
    BY <1>3
  <2> HIDE DEF R, base
  <2>3. base \o more \in Seq(R) /\ Range(base \o more) = Range(base) \cup Range(more)
    BY <2>1, RangeConcatenation, ConcatProperties
  <2> QED
    BY <2>2, <2>3 DEF R, base
<1>5. t2 = [t EXCEPT !.rows = rows]
  BY DEF more
<1> HIDE DEF rows
<1>6. Carried(t, t2) /\ t2.rows = rows
  BY <1>1, <1>4, <1>5, RowsCarried
<1> QED
  BY <1>4, <1>6 DEF Accounted

\* Appending a row adds it to the rows there are.
LEMMA AppendedRange ==
    ASSUME NEW rows, rows \in Seq(Range(rows)), NEW q
    PROVE  /\ Append(rows, q) \in Seq(Range(Append(rows, q)))
           /\ Range(Append(rows, q)) = Range(rows) \cup {q}
<1> DEFINE R == Range(rows) \cup {q}
           new == Append(rows, q)
<1>1. rows \in Seq(R)
  BY SeqMonotonic
<1>2. /\ new \in Seq(R) /\ Len(new) = Len(rows) + 1 /\ Len(rows) \in Nat
      /\ \A i \in 1 .. Len(rows) : new[i] = rows[i]
      /\ new[Len(rows) + 1] = q
  BY <1>1, AppendProperties
<1>3. DOMAIN rows = 1 .. Len(rows) /\ DOMAIN new = 1 .. (Len(rows) + 1)
  BY <1>1, <1>2
<1> HIDE DEF new, R
<1>4. ASSUME NEW x PROVE x \in Range(new) <=> x \in R
  <2>1. ASSUME x \in Range(new) PROVE x \in R
    <3>1. PICK i \in 1 .. (Len(rows) + 1) : x = new[i]
      BY <1>3, <2>1 DEF Range
    <3>2. i \in 1 .. Len(rows) \/ i = Len(rows) + 1
      BY <1>2
    <3> QED
      BY <1>2, <1>3, <3>1, <3>2 DEF Range, R
  <2>2. ASSUME x \in R PROVE x \in Range(new)
    <3>1. CASE x = q
      <4>1. Len(rows) + 1 \in DOMAIN new
        BY <1>2, <1>3
      <4> QED
        BY <1>2, <3>1, <4>1 DEF Range
    <3>2. CASE x \in Range(rows)
      <4>1. PICK i \in 1 .. Len(rows) : x = rows[i]
        BY <1>3, <3>2 DEF Range
      <4>2. i \in DOMAIN new
        BY <1>2, <1>3
      <4> QED
        BY <1>2, <4>1, <4>2 DEF Range
    <3> QED
      BY <2>2, <3>1, <3>2 DEF R
  <2> QED
    BY <2>1, <2>2
<1>5. Range(new) = R
  BY <1>4
<1> QED
  BY <1>2, <1>5 DEF new, R

\* A row with the frame of an old one is added.
LEMMA AppendCarried ==
    ASSUME NEW t, IsTable(t), NEW q, NEW r \in Range(t.rows), NEW t2, NEW deleted,
           t2 = [t EXCEPT !.rows = Append(t.rows, q)],
           q = [c \in ColumnsOf(t) |-> q[c]], \A c \in FrameColumns(t) : q[c] = r[c]
    PROVE  Carried(t, t2) /\ Accounted(t, t2, deleted)
<1> DEFINE rows == Append(t.rows, q)
<1>1. t.rows \in Seq(Range(t.rows)) /\ \A x \in Range(t.rows) : x = [c \in ColumnsOf(t) |-> x[c]]
  BY DEF IsTable
<1>2. rows \in Seq(Range(rows)) /\ Range(rows) = Range(t.rows) \cup {q}
  BY <1>1, AppendedRange
<1> HIDE DEF rows
<1>3. \A x \in Range(rows) : x = [c \in ColumnsOf(t) |-> x[c]]
  BY <1>1, <1>2
<1>4. \A x \in Range(rows) : \E y \in Range(t.rows) : \A c \in FrameColumns(t) : x[c] = y[c]
  BY <1>2
<1>5. t2 = [t EXCEPT !.rows = rows] /\ rows \in Seq(Range(rows))
  BY <1>2 DEF rows
<1>6. Carried(t, t2) /\ t2.rows = rows
  BY <1>3, <1>4, <1>5, RowsCarried
<1> QED
  BY <1>2, <1>6 DEF Accounted

\* A table left alone.
LEMMA SameCarried ==
    ASSUME NEW t, IsTable(t), NEW deleted
    PROVE  Carried(t, t) /\ Accounted(t, t, deleted)
<1>1. t = [t EXCEPT !.rows = t.rows]
  BY DEF IsTable
<1> QED
  BY <1>1 DEF Carried, Accounted

\* A state whose tables are all carried, and whose records are all accounted
\* for, has the frame.
LEMMA CarriedFramed ==
    ASSUME NEW src, NEW S, Framed(src, S), NEW S2,
           S2 = [tabs |-> S2.tabs, deleted |-> S2.deleted, marks |-> S.marks],
           S2.tabs = [n \in DOMAIN S.tabs |-> S2.tabs[n]],
           S.deleted \subseteq S2.deleted,
           \A n \in DOMAIN S.tabs : /\ Carried(S.tabs[n], S2.tabs[n])
                                    /\ Accounted(S.tabs[n], S2.tabs[n], S2.deleted)
    PROVE  Framed(src, S2)
<1>1. /\ S.tabs = [n \in DOMAIN src.tabs |-> S.tabs[n]]
      /\ S.marks = [n \in {m \in DOMAIN S.tabs : S.tabs[m].category = "records"} |-> S.marks[n]]
      /\ History \in DOMAIN src.tabs /\ src.sidecar.fork # NULL
      /\ \A n \in DOMAIN src.tabs : FramedTable(src, S, n)
  BY DEF Framed
<1>2. DOMAIN S.tabs = DOMAIN src.tabs
  BY <1>1
<1>3. S2.marks = S.marks
  OBVIOUS
<1>4. ASSUME NEW n \in DOMAIN src.tabs
      PROVE  FramedTable(src, S2, n) /\ S2.tabs[n].category = S.tabs[n].category
  <2> DEFINE t == S.tabs[n]
             t2 == S2.tabs[n]
             o == src.tabs[n]
  <2>1. /\ IsTable(t) /\ Layout(n, t)
        /\ t.category = o.category /\ t.kind = o.kind /\ t.property = o.property
        /\ \A r \in Range(t.rows) : r[Fork] = src.sidecar.fork
        /\ t.category = "records" => Indexed(t, o, S.marks[n]) /\ Remembered(t, o, S.deleted)
    BY <1>1 DEF FramedTable
  <2>2. Carried(t, t2) /\ Accounted(t, t2, S2.deleted)
    BY <1>2
  <2> HIDE DEF t, t2, o
  <2>3. /\ IsTable(t2) /\ t2.cols = t.cols /\ t2.category = t.category
        /\ t2.kind = t.kind /\ t2.property = t.property
    BY <2>1, <2>2 DEF Carried, IsTable
  <2>4. Layout(n, t2)
    BY <2>1, <2>3 DEF Layout
  <2>5. \A q \in Range(t2.rows) : \E r \in Range(t.rows) : \A c \in FrameColumns(t) : q[c] = r[c]
    BY <2>2 DEF Carried
  <2>6. \A r \in Range(t2.rows) : r[Fork] = src.sidecar.fork
    <3>1. Fork \in FrameColumns(t)
      BY DEF FrameColumns
    <3> QED
      BY <2>1, <2>5, <3>1
  <2>7. t.category = "records" => Indexed(t2, o, S.marks[n])
    <3>1. t.category = "records" => RecordIndex \in FrameColumns(t)
      BY DEF FrameColumns
    <3> QED
      BY <2>1, <2>5, <3>1 DEF Indexed
  <2>8. t.category = "records" => Remembered(t2, o, S2.deleted)
    <3> SUFFICES ASSUME t.category = "records", NEW q \in Range(o.rows)
                 PROVE  \/ \E r \in Range(t2.rows) : r[RecordId] = q[RecordId]
                        \/ <<t.kind, q[RecordId]>> \in S2.deleted
      BY <2>3 DEF Remembered
    <3>1. CASE <<t.kind, q[RecordId]>> \in S.deleted
      BY <3>1
    <3>2. CASE \E r \in Range(t.rows) : r[RecordId] = q[RecordId]
      <4>1. PICK r \in Range(t.rows) : r[RecordId] = q[RecordId]
        BY <3>2
      <4>2. \/ \E x \in Range(t2.rows) : x[RecordId] = r[RecordId]
            \/ <<t.kind, r[RecordId]>> \in S2.deleted
        BY <2>2 DEF Accounted
      <4> QED
        BY <4>1, <4>2
    <3> QED
      BY <2>1, <3>1, <3>2 DEF Remembered
  <2>9. FramedTable(src, S2, n)
    BY <1>3, <2>1, <2>3, <2>4, <2>6, <2>7, <2>8 DEF FramedTable, t, t2, o
  <2> QED
    BY <2>3, <2>9 DEF t, t2
<1>5. S2.tabs = [n \in DOMAIN src.tabs |-> S2.tabs[n]] /\ DOMAIN S2.tabs = DOMAIN S.tabs
  BY <1>2
<1>6. {m \in DOMAIN S2.tabs : S2.tabs[m].category = "records"}
        = {m \in DOMAIN S.tabs : S.tabs[m].category = "records"}
  BY <1>2, <1>4, <1>5
<1> QED
  BY <1>1, <1>3, <1>4, <1>5, <1>6 DEF Framed

---------------------------------------------------------------------------
(* The operations on cells.                                                *)

\* The frame is no property, element, reference or presentation column.
LEMMA FrameNames ==
    ASSUME NEW t, NEW c \in FrameColumns(t)
    PROVE  c[1] \in {"fork_path", "record_id", "record_index"}
BY DEF FrameColumns, Fork, RecordId, RecordIndex

LEMMA DrawsWithin ==
    ASSUME NEW X, NEW units \in Draws(X)
    PROVE  units \subseteq X
BY DEF Draws, kSubset

\* A cell unit is in a column the operation matches.
LEMMA CellUnitColumn ==
    ASSUME NEW tabs, NEW columns, NEW n, NEW i, NEW c,
           [table |-> n, row |-> i, column |-> c] \in CellUnits(tabs, columns)
    PROVE  n \in DOMAIN tabs /\ i \in DOMAIN tabs[n].rows /\ c \in columns[n]
<1> DEFINE u == [table |-> n, row |-> i, column |-> c]
           unit(m, j, d) == [table |-> m, row |-> j, column |-> d]
<1>1. \A m, j, d : u = unit(m, j, d) => n = m /\ i = j /\ c = d
  OBVIOUS
<1>2. u \in CellUnits(tabs, columns)
  OBVIOUS
<1> HIDE DEF u
<1>3. PICK m \in DOMAIN tabs :
         u \in {[table |-> m, row |-> j, column |-> d] : j \in DOMAIN tabs[m].rows, d \in columns[m]}
  BY <1>2 DEF CellUnits
<1>4. \E j \in DOMAIN tabs[m].rows : \E d \in columns[m] : u = unit(m, j, d)
  BY <1>3
<1> QED
  BY <1>1, <1>4

\* Cells outside the frame are rewritten, in any number and whatever the values.
LEMMA RewrittenFramed ==
    ASSUME NEW src, NEW S, Framed(src, S), NEW value, NEW index, NEW S2,
           S2 = [S EXCEPT !.tabs = RewrittenAll(S.tabs, value, index)],
           \A n \in DOMAIN S.tabs : \A i \in DOMAIN S.tabs[n].rows : \A c \in FrameColumns(S.tabs[n]) :
              [table |-> n, row |-> i, column |-> c] \notin DOMAIN value
    PROVE  Framed(src, S2)
<1> DEFINE tabs == S.tabs
           tabs2 == RewrittenAll(tabs, value, index)
<1>1. S = [tabs |-> S.tabs, deleted |-> S.deleted, marks |-> S.marks]
      /\ \A n \in DOMAIN tabs : IsTable(tabs[n])
  BY DEF Framed, FramedTable
<1>2. ASSUME NEW n \in DOMAIN tabs
      PROVE  Carried(tabs[n], tabs2[n]) /\ Accounted(tabs[n], tabs2[n], S.deleted)
  <2> DEFINE t == tabs[n]
             at(i, c) == [table |-> n, row |-> i, column |-> c]
             cell(i, c) == IF at(i, c) \in DOMAIN value THEN value[at(i, c)]
                           ELSE IF c[1] = "ref_index" /\ at(i, PropOf(c[2])) \in DOMAIN value
                           THEN index[at(i, PropOf(c[2]))] ELSE t.rows[i][c]
             rows == [i \in DOMAIN t.rows |-> [c \in DOMAIN t.rows[i] |-> cell(i, c)]]
  <2>1. IsTable(t) /\ \A r \in Range(t.rows) : DOMAIN r = ColumnsOf(t)
    BY <1>1 DEF IsTable
  <2>2. tabs2[n] = [t EXCEPT !.rows = rows]
    BY DEF RewrittenAll, Rewritten
  <2>3. \A i \in DOMAIN t.rows : \A c \in FrameColumns(t) : at(i, c) \notin DOMAIN value
    OBVIOUS
  <2>4. \A i \in DOMAIN t.rows : \A c \in FrameColumns(t) : cell(i, c) = t.rows[i][c]
    BY <2>3, FrameNames
  <2> HIDE DEF cell
  <2>5. \A i \in DOMAIN t.rows : DOMAIN t.rows[i] = ColumnsOf(t)
    BY <2>1 DEF Range
  <2>6. \A i \in DOMAIN t.rows : rows[i] = [c \in ColumnsOf(t) |-> cell(i, c)]
    BY <2>5
  <2>7. FrameColumns(t) \subseteq ColumnsOf(t)
    BY <2>1 DEF IsTable
  <2>8. Reframed(t, rows)
    <3>1. rows = [i \in DOMAIN t.rows |-> rows[i]]
      OBVIOUS
    <3> HIDE DEF rows, t
    <3> QED
      BY ZenonT(30), <2>4, <2>6, <2>7, <3>1 DEF Reframed
  <2> HIDE DEF rows, t
  <2>9. Carried(t, tabs2[n]) /\ Accounted(t, tabs2[n], S.deleted)
    BY <2>1, <2>2, <2>8, MapCarried
  <2> QED
    BY <2>9 DEF t
<1>3. /\ S2 = [tabs |-> tabs2, deleted |-> S.deleted, marks |-> S.marks]
      /\ tabs2 = [n \in DOMAIN tabs |-> tabs2[n]]
  BY <1>1 DEF RewrittenAll
<1> HIDE DEF tabs2
<1>4. S2.tabs = tabs2 /\ S2.deleted = S.deleted /\ S2.marks = S.marks
  BY <1>3
<1>5. /\ S2 = [tabs |-> S2.tabs, deleted |-> S2.deleted, marks |-> S.marks]
      /\ S2.tabs = [n \in DOMAIN S.tabs |-> S2.tabs[n]] /\ S.deleted \subseteq S2.deleted
      /\ \A n \in DOMAIN S.tabs : /\ Carried(S.tabs[n], S2.tabs[n])
                                   /\ Accounted(S.tabs[n], S2.tabs[n], S2.deleted)
  BY <1>2, <1>3, <1>4
<1> QED
  BY <1>5, CarriedFramed

\* null_cells clears no column of the frame.
LEMMA NullCellsFramed ==
    ASSUME NEW src, NEW S, Framed(src, S),
           NEW units, units \subseteq CellUnits(S.tabs,
                         [n \in DOMAIN S.tabs |-> {c \in ColumnsOf(S.tabs[n]) : Nullable(c)}]),
           NEW order \in SetToSeqs(units)
    PROVE  Framed(src, NullCells(S, order).state)
<1> DEFINE tabs == S.tabs
           columns == [n \in DOMAIN tabs |-> {c \in ColumnsOf(tabs[n]) : Nullable(c)}]
           present == {i \in DOMAIN order : CellOf(tabs, order[i]) # NULL}
           nulls == [u \in {order[i] : i \in present \cap 1 .. Len(order)} |-> NULL]
           S2 == [S EXCEPT !.tabs = RewrittenAll(S.tabs, nulls, nulls)]
<1>1. NullCells(S, order).state = S2
  BY DEF NullCells, Outcome
<1>2. DOMAIN nulls \subseteq units
  BY DEF SetToSeqs
<1>3. ASSUME NEW n \in DOMAIN tabs, NEW i \in DOMAIN tabs[n].rows, NEW c \in FrameColumns(tabs[n])
      PROVE  [table |-> n, row |-> i, column |-> c] \notin DOMAIN nulls
  <2> DEFINE u == [table |-> n, row |-> i, column |-> c]
  <2>1. c[1] \in {"fork_path", "record_id", "record_index"}
    BY FrameNames
  <2>2. ~Nullable(c)
    BY <2>1 DEF Nullable, Presented, Deactivated, Left
  <2>3. u \in units => c \in columns[n]
    BY CellUnitColumn
  <2> HIDE DEF u, nulls
  <2> QED
    BY <1>2, <2>2, <2>3 DEF u
<1> HIDE DEF nulls
<1>4. Framed(src, S2)
  BY <1>3, RewrittenFramed
<1> QED
  BY <1>1, <1>4

\* A cell unit of a reference is in no column of the frame.
LEMMA ReferenceOutsideFrame ==
    ASSUME NEW tabs, NEW n \in DOMAIN tabs, NEW i, NEW c \in FrameColumns(tabs[n])
    PROVE  [table |-> n, row |-> i, column |-> c] \notin ReferenceUnits(tabs)
<1> DEFINE columns == [m \in DOMAIN tabs |-> {d.name : d \in {e \in Range(tabs[m].cols) : ReferenceColumn(m, e)}}]
           u == [table |-> n, row |-> i, column |-> c]
<1>1. c[1] \in {"fork_path", "record_id", "record_index"}
  BY FrameNames
<1>2. ReferenceUnits(tabs) \subseteq CellUnits(tabs, columns)
  BY DEF ReferenceUnits
<1>3. u \in CellUnits(tabs, columns) => c \in columns[n]
  <2> HIDE DEF columns
  <2> QED
    BY CellUnitColumn
<1>4. c \in columns[n] => c[1] = "member_id" \/ c[1] = "prop"
  BY DEF ReferenceColumn, IsReference
<1> QED
  BY <1>1, <1>2, <1>3, <1>4

LEMMA DangleReferenceFramed ==
    ASSUME NEW src, NEW S, Framed(src, S), NEW units, units \subseteq ReferenceUnits(S.tabs)
    PROVE  Framed(src, DangleReference(S, units).state)
<1> DEFINE sentinel == [u \in units |-> Sentinel(S.tabs, TargetKind(S.tabs, u))]
           S2 == [S EXCEPT !.tabs = RewrittenAll(S.tabs, sentinel, sentinel)]
<1>1. DangleReference(S, units).state = S2
  BY DEF DangleReference, Outcome
<1>2. DOMAIN sentinel = units
  OBVIOUS
<1> HIDE DEF sentinel
<1>3. Framed(src, S2)
  BY <1>2, ReferenceOutsideFrame, RewrittenFramed
<1> QED
  BY <1>1, <1>3

LEMMA MispointReferenceFramed ==
    ASSUME NEW src, NEW S, Framed(src, S), NEW units, units \subseteq ReferenceUnits(S.tabs),
           NEW donor, DOMAIN donor = units, NEW side, NEW constrained
    PROVE  Framed(src, MispointReference(S, side, units, donor, constrained).state)
<1> DEFINE index == [u \in units |-> DonorIndex(S.tabs, TargetKind(S.tabs, u), donor[u])]
           S2 == [S EXCEPT !.tabs = RewrittenAll(S.tabs, donor, index)]
<1>1. MispointReference(S, side, units, donor, constrained).state = S2
  BY DEF MispointReference, Outcome
<1> HIDE DEF index
<1>2. Framed(src, S2)
  BY ReferenceOutsideFrame, RewrittenFramed
<1> QED
  BY <1>1, <1>2

\* A transform may not be given a column of the frame.
LEMMA MutableOutsideFrame ==
    ASSUME NEW tabs, NEW n \in DOMAIN tabs, IsTable(tabs[n]), NEW c \in MutableColumns(tabs, n)
    PROVE  c \notin FrameColumns(tabs[n])
<1>1. PICK d \in Range(tabs[n].cols) : c = d.name /\ Mutable(tabs, n, d)
  BY DEF MutableColumns
<1>2. tabs[n].category \in {"fixed", "records", "membership"}
  BY DEF IsTable
<1>3. c[1] \in {"presentation_id", "prop", "elem", "value"}
  <2>1. CASE tabs[n].category = "records"
    BY <1>1, <2>1 DEF Mutable, Presented
  <2>2. CASE tabs[n].category = "membership"
    BY <1>1, <2>2 DEF Mutable
  <2>3. CASE tabs[n].category = "fixed"
    BY <1>1, <2>3 DEF Mutable, Value
  <2> QED
    BY <1>2, <2>1, <2>2, <2>3
<1> QED
  BY <1>3, FrameNames

LEMMA MutateCellsFramed ==
    ASSUME NEW src, NEW S, Framed(src, S), NEW units,
           units \subseteq CellUnits(S.tabs, [n \in DOMAIN S.tabs |-> MutableColumns(S.tabs, n)]),
           NEW value, NEW side
    PROVE  Framed(src, MutateCells(S, side, units, value).state)
<1> DEFINE tabs == S.tabs
           columns == [n \in DOMAIN tabs |-> MutableColumns(tabs, n)]
           changed == {u \in units : CellOf(tabs, u) # NULL /\ value[u] # CellOf(tabs, u)}
           new == [u \in changed |-> value[u]]
           S2 == [S EXCEPT !.tabs = RewrittenAll(S.tabs, new, new)]
<1>1. MutateCells(S, side, units, value).state = S2
  BY DEF MutateCells, Outcome
<1>2. DOMAIN new \subseteq units
  OBVIOUS
<1>3. ASSUME NEW n \in DOMAIN tabs, NEW i \in DOMAIN tabs[n].rows, NEW c \in FrameColumns(tabs[n])
      PROVE  [table |-> n, row |-> i, column |-> c] \notin DOMAIN new
  <2> DEFINE u == [table |-> n, row |-> i, column |-> c]
  <2>1. IsTable(tabs[n])
    BY DEF Framed, FramedTable
  <2>2. c \notin MutableColumns(tabs, n)
    BY <2>1, MutableOutsideFrame
  <2>3. u \in units => c \in columns[n]
    <3> HIDE DEF columns
    <3> QED
      BY CellUnitColumn DEF columns
  <2> HIDE DEF u, new
  <2> QED
    BY <1>2, <2>2, <2>3 DEF u
<1> HIDE DEF new
<1>4. Framed(src, S2)
  BY <1>3, RewrittenFramed
<1> QED
  BY <1>1, <1>4

---------------------------------------------------------------------------
(* The operations on rows and on history.                                  *)

\* Only the tables change, each of them carried.
LEMMA TabsFramed ==
    ASSUME NEW src, NEW S, Framed(src, S), NEW tabs2,
           tabs2 = [n \in DOMAIN S.tabs |-> tabs2[n]],
           \A n \in DOMAIN S.tabs : /\ Carried(S.tabs[n], tabs2[n])
                                    /\ Accounted(S.tabs[n], tabs2[n], S.deleted)
    PROVE  Framed(src, [S EXCEPT !.tabs = tabs2])
<1> DEFINE S2 == [S EXCEPT !.tabs = tabs2]
<1>1. S = [tabs |-> S.tabs, deleted |-> S.deleted, marks |-> S.marks]
  BY DEF Framed
<1>2. S2 = [tabs |-> tabs2, deleted |-> S.deleted, marks |-> S.marks]
  BY <1>1
<1> HIDE DEF S2
<1>3. S2.tabs = tabs2 /\ S2.deleted = S.deleted /\ S2.marks = S.marks
  BY <1>2
<1>4. /\ S2 = [tabs |-> S2.tabs, deleted |-> S2.deleted, marks |-> S.marks]
      /\ S2.tabs = [n \in DOMAIN S.tabs |-> S2.tabs[n]] /\ S.deleted \subseteq S2.deleted
      /\ \A n \in DOMAIN S.tabs : /\ Carried(S.tabs[n], S2.tabs[n])
                                   /\ Accounted(S.tabs[n], S2.tabs[n], S2.deleted)
  BY <1>2, <1>3
<1>5. Framed(src, S2)
  BY <1>4, CarriedFramed
<1> QED
  BY <1>5 DEF S2

\* One table changes.
LEMMA OneFramed ==
    ASSUME NEW src, NEW S, Framed(src, S), NEW m \in DOMAIN S.tabs, NEW t2,
           Carried(S.tabs[m], t2), Accounted(S.tabs[m], t2, S.deleted)
    PROVE  Framed(src, [S EXCEPT !.tabs = [S.tabs EXCEPT ![m] = t2]])
<1> DEFINE tabs2 == [S.tabs EXCEPT ![m] = t2]
<1>1. /\ S.tabs = [n \in DOMAIN S.tabs |-> S.tabs[n]]
      /\ \A n \in DOMAIN S.tabs : IsTable(S.tabs[n])
  BY DEF Framed, FramedTable
<1>2. tabs2 = [n \in DOMAIN S.tabs |-> tabs2[n]]
  BY <1>1
<1>3. ASSUME NEW n \in DOMAIN S.tabs
      PROVE  Carried(S.tabs[n], tabs2[n]) /\ Accounted(S.tabs[n], tabs2[n], S.deleted)
  <2>1. CASE n = m
    BY <1>1, <2>1
  <2>2. CASE n # m
    <3>1. tabs2[n] = S.tabs[n]
      BY <1>1, <2>2
    <3> QED
      BY <1>1, <3>1, SameCarried
  <2> QED
    BY <2>1, <2>2
<1> HIDE DEF tabs2
<1>4. Framed(src, [S EXCEPT !.tabs = tabs2])
  BY <1>2, <1>3, TabsFramed
<1> QED
  BY <1>4 DEF tabs2

\* A row unit is a row of a table.
LEMMA RowUnitRow ==
    ASSUME NEW tabs, NEW names, NEW u \in RowUnits(tabs, names)
    PROVE  /\ u.table \in names \cap DOMAIN tabs /\ u.row \in DOMAIN tabs[u.table].rows
           /\ u = [table |-> u.table, row |-> u.row]
<1>1. PICK m \in names \cap DOMAIN tabs : u \in {[table |-> m, row |-> j] : j \in DOMAIN tabs[m].rows}
  BY DEF RowUnits
<1>2. PICK j \in DOMAIN tabs[m].rows : u = [table |-> m, row |-> j]
  BY <1>1
<1> QED
  BY <1>2

\* The units drawn of a table are rows of it.
LEMMA DrawnOfRows ==
    ASSUME NEW tabs, NEW names, NEW units, units \subseteq RowUnits(tabs, names), NEW n
    PROVE  DrawnOf(units, n) \in SUBSET DOMAIN tabs[n].rows
<1>1. \A u \in units : u.row \in DOMAIN tabs[u.table].rows
  BY RowUnitRow
<1> QED
  BY <1>1 DEF DrawnOf

\* A deleted record leaves its tombstone.
LEMMA DeleteRowsFramed ==
    ASSUME NEW src, NEW S, Framed(src, S), NEW units, NEW side
    PROVE  Framed(src, DeleteRows(S, side, units).state)
<1> DEFINE tabs == S.tabs
           id(u) == tabs[u.table].rows[u.row][RecordId]
           tabs2 == [n \in DOMAIN tabs |-> [tabs[n] EXCEPT !.rows = Without(@, DrawnOf(units, n))]]
           removed == {<<tabs[u.table].kind, id(u)>> :
                         u \in {w \in units : tabs[w.table].category = "records"}}
           S2 == [S EXCEPT !.tabs = tabs2, !.deleted = @ \cup removed]
<1>1. DeleteRows(S, side, units).state = S2
  BY DEF DeleteRows, Outcome
<1>2. /\ S = [tabs |-> S.tabs, deleted |-> S.deleted, marks |-> S.marks]
      /\ \A n \in DOMAIN tabs : IsTable(tabs[n])
  BY DEF Framed, FramedTable
<1>3. ASSUME NEW n \in DOMAIN tabs
      PROVE  Carried(tabs[n], tabs2[n]) /\ Accounted(tabs[n], tabs2[n], S.deleted \cup removed)
  <2> DEFINE t == tabs[n]
             gone == DrawnOf(units, n)
             t2 == tabs2[n]
  <2>1. t2 = [t EXCEPT !.rows = Without(t.rows, gone)] /\ IsTable(t)
    BY <1>2
  <2>2. ASSUME t.category = "records", NEW i \in gone
        PROVE  <<t.kind, t.rows[i][RecordId]>> \in removed
    <3>1. PICK u \in units : u.table = n /\ u.row = i
      BY <2>2 DEF DrawnOf
    <3> QED
      BY <2>2, <3>1
  <2> HIDE DEF t, gone, t2, removed
  <2>3. Carried(t, t2) /\ Range(t2.rows) = {t.rows[k] : k \in DOMAIN t.rows \ gone}
    BY <2>1, WithoutCarried
  <2>4. Accounted(t, t2, S.deleted \cup removed)
    <3> SUFFICES ASSUME t.category = "records", NEW r \in Range(t.rows)
                 PROVE  \/ \E q \in Range(t2.rows) : q[RecordId] = r[RecordId]
                        \/ <<t.kind, r[RecordId]>> \in S.deleted \cup removed
      BY DEF Accounted
    <3>1. PICK i \in DOMAIN t.rows : r = t.rows[i]
      BY DEF Range
    <3>2. CASE i \in gone
      BY <2>2, <3>1, <3>2
    <3>3. CASE i \notin gone
      BY <2>3, <3>1, <3>3
    <3> QED
      BY <3>2, <3>3
  <2> QED
    BY <2>3, <2>4 DEF t, t2
<1>4. S2 = [tabs |-> tabs2, deleted |-> S.deleted \cup removed, marks |-> S.marks]
      /\ tabs2 = [n \in DOMAIN tabs |-> tabs2[n]]
  <2>1. tabs2 = [n \in DOMAIN tabs |-> tabs2[n]]
    OBVIOUS
  <2> HIDE DEF tabs2, removed
  <2> DEFINE D == S.deleted \cup removed
  <2>2. S2 = [S EXCEPT !.tabs = tabs2, !.deleted = D]
    OBVIOUS
  <2> HIDE DEF S2, D
  <2>3. S2 = [tabs |-> tabs2, deleted |-> D, marks |-> S.marks]
    BY <1>2, <2>2
  <2> QED
    BY <2>1, <2>3 DEF D
<1> HIDE DEF S2, tabs2, removed
<1>5. S2.tabs = tabs2 /\ S2.deleted = S.deleted \cup removed /\ S2.marks = S.marks
  BY <1>4
<1>6. /\ S2 = [tabs |-> S2.tabs, deleted |-> S2.deleted, marks |-> S.marks]
      /\ S2.tabs = [n \in DOMAIN S.tabs |-> S2.tabs[n]] /\ S.deleted \subseteq S2.deleted
      /\ \A n \in DOMAIN S.tabs : /\ Carried(S.tabs[n], S2.tabs[n])
                                   /\ Accounted(S.tabs[n], S2.tabs[n], S2.deleted)
  BY <1>3, <1>4, <1>5
<1> QED
  BY <1>1, <1>6, CarriedFramed

LEMMA DuplicateExactFramed ==
    ASSUME NEW src, NEW S, Framed(src, S), NEW units, NEW names,
           units \subseteq RowUnits(S.tabs, names), NEW side
    PROVE  Framed(src, DuplicateExact(S, side, units).state)
<1> DEFINE tabs == S.tabs
           tabs2 == [n \in DOMAIN tabs |-> [tabs[n] EXCEPT !.rows = @ \o Only(@, DrawnOf(units, n))]]
<1>1. DuplicateExact(S, side, units).state = [S EXCEPT !.tabs = tabs2]
  BY DEF DuplicateExact, Outcome
<1>2. \A n \in DOMAIN tabs : IsTable(tabs[n])
  BY DEF Framed, FramedTable
<1>3. ASSUME NEW n \in DOMAIN tabs
      PROVE  Carried(tabs[n], tabs2[n]) /\ Accounted(tabs[n], tabs2[n], S.deleted)
  <2> DEFINE t == tabs[n]
             again == DrawnOf(units, n)
             t2 == tabs2[n]
  <2>1. t2 = [t EXCEPT !.rows = t.rows \o Only(t.rows, again)] /\ IsTable(t)
    BY <1>2
  <2>2. again \in SUBSET DOMAIN t.rows
    BY DrawnOfRows
  <2> HIDE DEF t, again, t2
  <2>3. Carried(t, t2) /\ Accounted(t, t2, S.deleted)
    BY <2>1, <2>2, RepeatedCarried
  <2> QED
    BY <2>3 DEF t, t2
<1>4. tabs2 = [n \in DOMAIN tabs |-> tabs2[n]]
  OBVIOUS
<1> HIDE DEF tabs2
<1> QED
  BY <1>1, <1>3, <1>4, TabsFramed

\* A near or conflicting duplicate differs from its row outside the frame only.
LEMMA DuplicateChangedFramed ==
    ASSUME NEW src, NEW S, Framed(src, S), NEW names, NEW u \in RowUnits(S.tabs, names),
           NEW new, \A c \in DOMAIN new : c \notin FrameColumns(S.tabs[u.table]),
           NEW side, NEW conflict
    PROVE  Framed(src, DuplicateChanged(S, side, u, new, conflict).state)
<1> DEFINE n == u.table
           t == S.tabs[n]
           r == t.rows[u.row]
           changed == {c \in DOMAIN new : r[c] # NULL /\ new[c] # r[c]}
           clone == [c \in DOMAIN r |-> IF c \in changed THEN new[c] ELSE r[c]]
           t2 == [t EXCEPT !.rows = Append(t.rows, clone)]
           S2 == [S EXCEPT !.tabs[u.table].rows = Append(@, clone)]
<1>1. DuplicateChanged(S, side, u, new, conflict).state = S2
  BY DEF DuplicateChanged, Outcome
<1>2. n \in DOMAIN S.tabs /\ u.row \in DOMAIN t.rows
  BY RowUnitRow
<1>3. IsTable(t) /\ S = [tabs |-> S.tabs, deleted |-> S.deleted, marks |-> S.marks]
      /\ S.tabs = [m \in DOMAIN S.tabs |-> S.tabs[m]]
  BY <1>2 DEF Framed, FramedTable
<1>4. r \in Range(t.rows)
  BY <1>2 DEF Range
<1>5. DOMAIN r = ColumnsOf(t) /\ FrameColumns(t) \subseteq ColumnsOf(t)
  BY <1>3, <1>4 DEF IsTable
<1>6. \A c \in FrameColumns(t) : c \notin changed
  OBVIOUS
<1> HIDE DEF changed
<1>7. clone = [c \in ColumnsOf(t) |-> clone[c]] /\ \A c \in FrameColumns(t) : clone[c] = r[c]
  BY <1>5, <1>6
<1>8. S2 = [S EXCEPT !.tabs = [S.tabs EXCEPT ![n] = t2]]
  BY <1>2, <1>3
<1>9. Carried(t, t2) /\ Accounted(t, t2, S.deleted)
  <2> HIDE DEF clone, t, r
  <2> QED
    BY <1>3, <1>4, <1>7, AppendCarried
<1> HIDE DEF clone, t2, S2
<1>10. Framed(src, [S EXCEPT !.tabs = [S.tabs EXCEPT ![n] = t2]])
  BY <1>2, <1>9, OneFramed
<1> QED
  BY <1>1, <1>8, <1>10

\* history is no records table.
LEMMA HistoryFixed ==
    ASSUME NEW src, NEW S, Framed(src, S)
    PROVE  /\ History \in DOMAIN S.tabs /\ IsTable(S.tabs[History])
           /\ S.tabs[History].category # "records"
           /\ FrameColumns(S.tabs[History]) = {Fork}
<1>1. History \in DOMAIN S.tabs /\ IsTable(S.tabs[History]) /\ Layout(History, S.tabs[History])
  BY DEF Framed, FramedTable
<1>2. \A k : History # RecordsOf(k)
  BY DEF History, RecordsOf
<1>3. S.tabs[History].category # "records"
  BY <1>1, <1>2 DEF Layout
<1> QED
  BY <1>1, <1>3 DEF FrameColumns

\* Events are taken out of history (drop_events, freeze_series).
LEMMA HistoryWithoutFramed ==
    ASSUME NEW src, NEW S, Framed(src, S), NEW gone
    PROVE  Framed(src, [S EXCEPT !.tabs = [S.tabs EXCEPT ![History].rows = Without(@, gone)]])
<1> DEFINE t == S.tabs[History]
           t2 == [t EXCEPT !.rows = Without(t.rows, gone)]
<1>1. History \in DOMAIN S.tabs /\ IsTable(t) /\ t.category # "records"
  BY HistoryFixed
<1>2. Carried(t, t2)
  <2> HIDE DEF t
  <2> QED
    BY <1>1, WithoutCarried
<1>3. Accounted(t, t2, S.deleted)
  BY <1>1 DEF Accounted
<1>4. [S.tabs EXCEPT ![History].rows = Without(@, gone)] = [S.tabs EXCEPT ![History] = t2]
  BY <1>1
<1> HIDE DEF t2
<1>5. Framed(src, [S EXCEPT !.tabs = [S.tabs EXCEPT ![History] = t2]])
  BY <1>1, <1>2, <1>3, OneFramed
<1> QED
  BY <1>4, <1>5

LEMMA DropEventsFramed ==
    ASSUME NEW src, NEW S, Framed(src, S), NEW gone, NEW side
    PROVE  Framed(src, DropEvents(S, side, gone).state)
<1>1. DropEvents(S, side, gone).state
        = [S EXCEPT !.tabs = [S.tabs EXCEPT ![History].rows = Without(@, gone)]]
  BY DEF DropEvents, Outcome
<1> QED
  BY <1>1, HistoryWithoutFramed

LEMMA FreezeSeriesFramed ==
    ASSUME NEW src, NEW S, Framed(src, S), NEW cut, NEW side
    PROVE  Framed(src, FreezeSeries(S, side, cut).state)
<1> DEFINE gone == {i \in DOMAIN S.tabs[History].rows :
                      SeriesAt(S.tabs, i) \in DOMAIN cut
                      /\ Position(S.tabs, i) >= cut[SeriesAt(S.tabs, i)]}
<1>1. FreezeSeries(S, side, cut).state
        = [S EXCEPT !.tabs = [S.tabs EXCEPT ![History].rows = Without(@, gone)]]
  BY DEF FreezeSeries, Outcome
<1> HIDE DEF gone
<1> QED
  BY <1>1, HistoryWithoutFramed

\* An event moves in time, and keeps its branch.
LEMMA ShiftSimTimeFramed ==
    ASSUME NEW src, NEW S, Framed(src, S), NEW to, NEW side, NEW class
    PROVE  Framed(src, ShiftSimTime(S, side, to, class).state)
<1> DEFINE t == S.tabs[History]
           moved(i) == IF i \in DOMAIN to THEN [t.rows[i] EXCEPT ![SimTime] = to[i]] ELSE t.rows[i]
           rows == [i \in DOMAIN t.rows |-> moved(i)]
           t2 == [t EXCEPT !.rows = rows]
           tabs2 == [S.tabs EXCEPT ![History].rows =
                       [i \in DOMAIN @ |-> IF i \in DOMAIN to THEN [@[i] EXCEPT ![SimTime] = to[i]] ELSE @[i]]]
<1>1. ShiftSimTime(S, side, to, class).state = [S EXCEPT !.tabs = tabs2]
  BY DEF ShiftSimTime, Outcome
<1>2. History \in DOMAIN S.tabs /\ IsTable(t) /\ FrameColumns(t) = {Fork}
  BY HistoryFixed
<1>3. tabs2 = [S.tabs EXCEPT ![History] = t2]
  BY <1>2
<1>4. ASSUME NEW i \in DOMAIN t.rows
      PROVE  moved(i) = [c \in ColumnsOf(t) |-> moved(i)[c]] /\ moved(i)[Fork] = t.rows[i][Fork]
  <2> DEFINE r == t.rows[i]
  <2>1. r = [c \in ColumnsOf(t) |-> r[c]] /\ Fork \in ColumnsOf(t)
    BY <1>2 DEF IsTable, Range
  <2>2. Fork # SimTime
    BY DEF Fork, SimTime
  <2> HIDE DEF r
  <2>3. [r EXCEPT ![SimTime] = to[i]] = [c \in ColumnsOf(t) |-> [r EXCEPT ![SimTime] = to[i]][c]]
        /\ [r EXCEPT ![SimTime] = to[i]][Fork] = r[Fork]
    BY <2>1, <2>2
  <2> QED
    BY <2>1, <2>3 DEF r
<1> HIDE DEF moved
<1>5. Reframed(t, rows)
  BY <1>2, <1>4 DEF Reframed
<1> HIDE DEF rows, t, tabs2
<1>6. Carried(t, t2) /\ Accounted(t, t2, S.deleted)
  BY <1>2, <1>5, MapCarried
<1> HIDE DEF t2
<1>7. Framed(src, [S EXCEPT !.tabs = [S.tabs EXCEPT ![History] = t2]])
  BY <1>2, <1>6, OneFramed DEF t
<1> QED
  BY <1>1, <1>3, <1>7

\* An interval's ends move, and no membership row changes its branch.
LEMMA DistortIntervalsFramed ==
    ASSUME NEW src, NEW S, Framed(src, S), NEW mode \in {"overlap", "gap", "left_before_join"},
           NEW units, NEW side,
           \A u \in units : S.tabs[u.table].category = "membership"
    PROVE  Framed(src, DistortIntervals(S, side, mode, units).state)
<1> DEFINE tabs == S.tabs
           changed == {u \in units : Distorted(tabs, side, mode, u) # tabs[u.table].rows[u.row]}
           at(n, i) == [table |-> n, row |-> i]
           new(n, i) == IF at(n, i) \in changed THEN Distorted(tabs, side, mode, at(n, i))
                        ELSE tabs[n].rows[i]
           rows(n) == [i \in DOMAIN tabs[n].rows |-> new(n, i)]
           tabs2 == [n \in DOMAIN tabs |-> [tabs[n] EXCEPT !.rows = rows(n)]]
<1>1. DistortIntervals(S, side, mode, units).state = [S EXCEPT !.tabs = tabs2]
  BY DEF DistortIntervals, Outcome
<1>2. \A n \in DOMAIN tabs : IsTable(tabs[n])
  BY DEF Framed, FramedTable
<1>3. ASSUME NEW n \in DOMAIN tabs, NEW i \in DOMAIN tabs[n].rows
      PROVE  /\ new(n, i) = [c \in ColumnsOf(tabs[n]) |-> new(n, i)[c]]
             /\ \A c \in FrameColumns(tabs[n]) : new(n, i)[c] = tabs[n].rows[i][c]
  <2> DEFINE t == tabs[n]
             r == t.rows[i]
             u == at(n, i)
  <2>1. r = [c \in ColumnsOf(t) |-> r[c]]
    <3>1. r \in Range(t.rows) /\ IsTable(t)
      BY <1>2 DEF Range
    <3> HIDE DEF r, t
    <3> QED
      BY <3>1 DEF IsTable
  <2>2. CASE u \notin changed
    <3>1. new(n, i) = r
      BY <2>2
    <3> QED
      BY <2>1, <3>1
  <2>3. CASE u \in changed
    <3>1. u.table = n /\ u.row = i
      OBVIOUS
    <3>2. t.category = "membership"
      BY <2>3, <3>1
    <3>3. FrameColumns(t) = {Fork}
      BY <3>2 DEF FrameColumns
    <3>4. Fork # Left /\ Fork # Joined
      BY DEF Fork, Left, Joined
    <3>5. \E x, y : \/ Distorted(tabs, side, mode, u) = [r EXCEPT ![Left] = x]
                    \/ Distorted(tabs, side, mode, u) = [r EXCEPT ![Joined] = x, ![Left] = y]
      <4>1. CASE mode = "overlap"
        BY <3>1, <4>1 DEF Distorted
      <4>2. CASE mode = "gap"
        BY <3>1, <4>2 DEF Distorted
      <4>3. CASE mode = "left_before_join"
        BY <3>1, <4>3 DEF Distorted
      <4> QED
        BY <4>1, <4>2, <4>3
    <3>6. new(n, i) = Distorted(tabs, side, mode, u)
      BY <2>3
    <3>7. Fork \in ColumnsOf(t)
      BY <1>2 DEF IsTable, FrameColumns
    <3> HIDE DEF r, t, u, new
    <3>8. \A x, y : /\ [r EXCEPT ![Left] = x] = [c \in ColumnsOf(t) |-> [r EXCEPT ![Left] = x][c]]
                    /\ [r EXCEPT ![Left] = x][Fork] = r[Fork]
                    /\ [r EXCEPT ![Joined] = x, ![Left] = y]
                         = [c \in ColumnsOf(t) |-> [r EXCEPT ![Joined] = x, ![Left] = y][c]]
                    /\ [r EXCEPT ![Joined] = x, ![Left] = y][Fork] = r[Fork]
      BY <2>1, <3>4, <3>7
    <3>9. new(n, i) = [c \in ColumnsOf(t) |-> new(n, i)[c]] /\ new(n, i)[Fork] = r[Fork]
      <4>1. PICK x, y : \/ new(n, i) = [r EXCEPT ![Left] = x]
                        \/ new(n, i) = [r EXCEPT ![Joined] = x, ![Left] = y]
        BY <3>5, <3>6
      <4>2. CASE new(n, i) = [r EXCEPT ![Left] = x]
        BY <3>8, <4>2
      <4>3. CASE new(n, i) = [r EXCEPT ![Joined] = x, ![Left] = y]
        <5> DEFINE q == [r EXCEPT ![Joined] = x, ![Left] = y]
        <5>1. q = [c \in ColumnsOf(t) |-> q[c]] /\ q[Fork] = r[Fork]
          BY <3>8
        <5>2. new(n, i) = q
          BY <4>3
        <5> HIDE DEF q
        <5> QED
          BY <5>1, <5>2
      <4> QED
        BY <4>1, <4>2, <4>3
    <3> QED
      BY <3>3, <3>9 DEF r, t
  <2> QED
    BY <2>2, <2>3
<1> HIDE DEF new
<1>4. ASSUME NEW n \in DOMAIN tabs
      PROVE  Carried(tabs[n], tabs2[n]) /\ Accounted(tabs[n], tabs2[n], S.deleted)
  <2> DEFINE t == tabs[n]
             new2 == rows(n)
             t2 == [t EXCEPT !.rows = new2]
  <2>1. tabs2[n] = t2
    OBVIOUS
  <2>2. IsTable(t)
    BY <1>2
  <2>3. Reframed(t, new2)
    BY <1>3 DEF Reframed
  <2> HIDE DEF t, new2, rows, tabs2
  <2>4. Carried(t, t2) /\ Accounted(t, t2, S.deleted)
    BY <2>2, <2>3, MapCarried
  <2> QED
    BY <2>1, <2>4 DEF t
<1>5. tabs2 = [n \in DOMAIN tabs |-> tabs2[n]]
  OBVIOUS
<1> HIDE DEF tabs2
<1> QED
  BY <1>1, <1>4, <1>5, TabsFramed

---------------------------------------------------------------------------
(* insert_rows: the one operation that writes the frame of a row.          *)

\* A row is appended to table n, and takes the next record_index.
Inserted(S, n, row) ==
    [tabs |-> [S.tabs EXCEPT ![n] = [S.tabs[n] EXCEPT !.rows = Append(S.tabs[n].rows, row)]],
     deleted |-> S.deleted, marks |-> [S.marks EXCEPT ![n] = S.marks[n] + 1]]

\* What the phantom is, and where it goes.
LEMMA InsertRowFacts ==
    ASSUME NEW src, NEW S, Framed(src, S), NEW names, NEW u \in RowUnits(S.tabs, names),
           S.tabs[u.table].category = "records", NEW id, NEW side,
           NEW resample, \A c \in DOMAIN resample : c \notin FrameColumns(S.tabs[u.table])
    PROVE  /\ u.table \in DOMAIN S.tabs
           /\ \E phantom :
                /\ phantom = [c \in ColumnsOf(S.tabs[u.table]) |-> phantom[c]]
                /\ phantom[RecordId] = id /\ phantom[RecordIndex] = S.marks[u.table] + 1
                /\ phantom[Fork] = src.sidecar.fork
                /\ InsertRow(S, side, u, id, resample).state = Inserted(S, u.table, phantom)
<1> DEFINE n == u.table
           t == S.tabs[n]
           donor == t.rows[u.row]
           value(c) == IF c = RecordId THEN id
                       ELSE IF c = RecordIndex THEN S.marks[n] + 1
                       ELSE IF c \in DOMAIN resample /\ donor[c] # NULL THEN resample[c]
                       ELSE donor[c]
           phantom == [c \in DOMAIN donor |-> value(c)]
           tabs2 == [S.tabs EXCEPT ![n] = [t EXCEPT !.rows = Append(t.rows, phantom)]]
           marks2 == [S.marks EXCEPT ![n] = S.marks[n] + 1]
<1>1. n \in DOMAIN S.tabs /\ u.row \in DOMAIN t.rows
  BY RowUnitRow
<1>2. /\ S = [tabs |-> S.tabs, deleted |-> S.deleted, marks |-> S.marks]
      /\ S.tabs = [m \in DOMAIN S.tabs |-> S.tabs[m]]
      /\ n \in DOMAIN S.marks
      /\ IsTable(t) /\ \A r \in Range(t.rows) : r[Fork] = src.sidecar.fork
  BY <1>1 DEF Framed, FramedTable
<1>3. donor \in Range(t.rows)
  BY <1>1 DEF Range
<1>4. DOMAIN donor = ColumnsOf(t) /\ FrameColumns(t) \subseteq ColumnsOf(t)
  BY <1>2, <1>3 DEF IsTable
<1>5. FrameColumns(t) = {Fork, RecordId, RecordIndex}
  BY DEF FrameColumns
<1>6. Fork # RecordId /\ Fork # RecordIndex /\ RecordId # RecordIndex
  BY DEF Fork, RecordId, RecordIndex
<1>7. value(RecordId) = id /\ value(RecordIndex) = S.marks[n] + 1 /\ value(Fork) = donor[Fork]
  BY <1>5, <1>6
<1>8. InsertRow(S, side, u, id, resample).state
        = [S EXCEPT !.tabs[n].rows = Append(@, phantom), !.marks[n] = @ + 1]
  BY DEF InsertRow, Outcome
<1> HIDE DEF value
<1>9. /\ phantom = [c \in ColumnsOf(t) |-> phantom[c]]
      /\ phantom[RecordId] = id /\ phantom[RecordIndex] = S.marks[n] + 1
      /\ phantom[Fork] = src.sidecar.fork
  BY <1>2, <1>3, <1>4, <1>5, <1>7
<1> HIDE DEF phantom
<1>10. InsertRow(S, side, u, id, resample).state = Inserted(S, n, phantom)
  <2> DEFINE S2 == InsertRow(S, side, u, id, resample).state
  <2>1. S2 = [S EXCEPT !.tabs = tabs2, !.marks = marks2]
    BY <1>1, <1>2, <1>8
  <2> HIDE DEF tabs2, marks2, S2
  <2>2. S2 = [tabs |-> tabs2, deleted |-> S.deleted, marks |-> marks2]
    BY <1>2, <2>1
  <2> QED
    BY <2>2 DEF S2, tabs2, marks2, Inserted
<1> QED
  BY <1>1, <1>9, <1>10

LEMMA InsertRowFramed ==
    ASSUME NEW src, NEW S, Framed(src, S), NEW names, NEW u \in RowUnits(S.tabs, names),
           S.tabs[u.table].category = "records", NEW id, NEW side,
           NEW resample, \A c \in DOMAIN resample : c \notin FrameColumns(S.tabs[u.table])
    PROVE  Framed(src, InsertRow(S, side, u, id, resample).state)
<1> DEFINE n == u.table
           t == S.tabs[n]
           o == src.tabs[n]
           mark == S.marks[n]
           S2 == InsertRow(S, side, u, id, resample).state
<1>1. PICK phantom :
         /\ n \in DOMAIN S.tabs
         /\ phantom = [c \in ColumnsOf(t) |-> phantom[c]]
         /\ phantom[RecordIndex] = mark + 1 /\ phantom[Fork] = src.sidecar.fork
         /\ S2 = Inserted(S, n, phantom)
  BY InsertRowFacts
<1>2. /\ S.tabs = [m \in DOMAIN src.tabs |-> S.tabs[m]]
      /\ S.marks = [m \in {k \in DOMAIN S.tabs : S.tabs[k].category = "records"} |-> S.marks[m]]
      /\ History \in DOMAIN src.tabs /\ src.sidecar.fork # NULL
      /\ \A m \in DOMAIN src.tabs : FramedTable(src, S, m)
  BY DEF Framed
<1> DEFINE t2 == [t EXCEPT !.rows = Append(t.rows, phantom)]
           records == {k \in DOMAIN S.tabs : S.tabs[k].category = "records"}
<1> HIDE DEF S2
<1>3. /\ S2 = [tabs |-> S2.tabs, deleted |-> S2.deleted, marks |-> S2.marks]
      /\ S2.tabs = [S.tabs EXCEPT ![n] = t2] /\ S2.deleted = S.deleted
      /\ S2.marks = [S.marks EXCEPT ![n] = mark + 1]
  BY <1>1 DEF Inserted
<1>4. t.category = "records" /\ FramedTable(src, S, n) /\ n \in records
  BY <1>1, <1>2
<1> HIDE DEF records, t2
<1>5. /\ DOMAIN S2.tabs = DOMAIN src.tabs /\ DOMAIN S2.marks = records
      /\ S2.tabs[n] = t2 /\ S2.marks[n] = mark + 1
      /\ \A m \in DOMAIN src.tabs : m # n => S2.tabs[m] = S.tabs[m]
      /\ \A m \in records : m # n => S2.marks[m] = S.marks[m]
  BY <1>1, <1>2, <1>3, <1>4 DEF records
<1> HIDE DEF t, o, mark
<1>6. /\ IsTable(t) /\ Layout(n, t)
      /\ t.category = o.category /\ t.kind = o.kind /\ t.property = o.property
      /\ \A r \in Range(t.rows) : r[Fork] = src.sidecar.fork
      /\ Indexed(t, o, mark) /\ Remembered(t, o, S.deleted)
  BY <1>4 DEF FramedTable, t, o, mark
<1>7. /\ Append(t.rows, phantom) \in Seq(Range(Append(t.rows, phantom)))
      /\ Range(Append(t.rows, phantom)) = Range(t.rows) \cup {phantom}
  BY <1>6, AppendedRange DEF IsTable
<1>8. /\ IsTable(t2) /\ t2.rows = Append(t.rows, phantom) /\ t2.cols = t.cols
      /\ t2.category = t.category /\ t2.kind = t.kind /\ t2.property = t.property
  <2> DEFINE rows == Append(t.rows, phantom)
  <2>1. t2 = [t EXCEPT !.rows = rows]
    BY DEF t2
  <2>2. \A r \in Range(t.rows) : r = [c \in ColumnsOf(t) |-> r[c]]
    BY <1>6 DEF IsTable
  <2>3. phantom = [c \in ColumnsOf(t) |-> phantom[c]]
    BY <1>1 DEF t
  <2>4. \A q \in Range(rows) : q = [c \in ColumnsOf(t) |-> q[c]]
    BY <1>7, <2>2, <2>3
  <2>5. rows \in Seq(Range(rows))
    BY <1>7
  <2> HIDE DEF rows
  <2>6. /\ IsTable(t2) /\ t2.rows = rows /\ t2.cols = t.cols
        /\ t2.category = t.category /\ t2.kind = t.kind /\ t2.property = t.property
    BY <1>6, <2>1, <2>4, <2>5, RowsTable
  <2> QED
    BY <2>6 DEF rows
<1>9. FramedTable(src, S2, n)
  <2>1. Layout(n, t2)
    BY <1>6, <1>8 DEF Layout
  <2>2. \A r \in Range(t2.rows) : r[Fork] = src.sidecar.fork
    BY <1>1, <1>6, <1>7, <1>8
  <2>3. Indexed(t2, o, mark + 1)
    <3>1. phantom[RecordIndex] = mark + 1 /\ mark \in Int
      BY <1>1, <1>6 DEF mark, Indexed
    <3>2. \A r \in Range(t.rows) \cup Range(o.rows) : r[RecordIndex] \in Int /\ r[RecordIndex] <= mark + 1
      BY <1>6, <3>1 DEF Indexed
    <3> QED
      BY <1>7, <1>8, <3>1, <3>2 DEF Indexed
  <2>4. Remembered(t2, o, S2.deleted)
    BY <1>3, <1>6, <1>7, <1>8 DEF Remembered
  <2> QED
    BY <1>5, <1>6, <1>8, <2>1, <2>2, <2>3, <2>4 DEF FramedTable, o
<1>10. ASSUME NEW m \in DOMAIN src.tabs, m # n PROVE FramedTable(src, S2, m)
  <2>1. FramedTable(src, S, m) /\ S2.tabs[m] = S.tabs[m] /\ S2.deleted = S.deleted
    BY <1>2, <1>3, <1>5, <1>10
  <2>2. S.tabs[m].category = "records" => S2.marks[m] = S.marks[m]
    BY <1>2, <1>5, <1>10 DEF records
  <2> QED
    BY <2>1, <2>2 DEF FramedTable
<1>11. /\ S2.tabs = [m \in DOMAIN src.tabs |-> S2.tabs[m]]
       /\ S2.marks = [m \in {k \in DOMAIN S2.tabs : S2.tabs[k].category = "records"} |-> S2.marks[m]]
  <2>1. \A k \in DOMAIN src.tabs : S2.tabs[k].category = S.tabs[k].category
    BY <1>5, <1>8 DEF t
  <2>2. {k \in DOMAIN S2.tabs : S2.tabs[k].category = "records"} = records
    BY <1>2, <1>5, <2>1 DEF records
  <2>3. S2.tabs = [m \in DOMAIN src.tabs |-> S2.tabs[m]] /\ S2.marks = [m \in records |-> S2.marks[m]]
    BY <1>2, <1>3, <1>5 DEF records
  <2> QED
    BY <2>2, <2>3
<1>12. Framed(src, S2)
  BY <1>2, <1>3, <1>9, <1>10, <1>11 DEF Framed
<1> QED
  BY <1>12 DEF S2

\* The rows S2 has and S has not are of no record of S or of the source.
Unseen(src, S, S2) ==
    \A m \in DOMAIN S.tabs : \A r \in Range(S2.tabs[m].rows) \ Range(S.tabs[m].rows) :
       \A q \in Range(S.tabs[m].rows) \cup Range(src.tabs[m].rows) :
          r[RecordId] # q[RecordId] /\ r[RecordIndex] # q[RecordIndex]

\* The phantom shares neither its id nor its record_index with a row of its table,
\* or with one the table had.
LEMMA InsertRowNew ==
    ASSUME NEW src, NEW S, Framed(src, S), NEW names, NEW u \in RowUnits(S.tabs, names),
           S.tabs[u.table].category = "records", NEW side,
           NEW id, id \notin IdUniverse(S, side, S.tabs[u.table].kind),
           NEW resample, \A c \in DOMAIN resample : c \notin FrameColumns(S.tabs[u.table]),
           NEW S2, S2 = InsertRow(S, side, u, id, resample).state
    PROVE  Unseen(src, S, S2)
<1> DEFINE n == u.table
           t == S.tabs[n]
           mark == S.marks[n]
<1> SUFFICES ASSUME NEW m \in DOMAIN S.tabs,
                    NEW r \in Range(S2.tabs[m].rows) \ Range(S.tabs[m].rows),
                    NEW q \in Range(S.tabs[m].rows) \cup Range(src.tabs[m].rows)
             PROVE  r[RecordId] # q[RecordId] /\ r[RecordIndex] # q[RecordIndex]
  BY DEF Unseen
<1>1. PICK phantom :
         /\ n \in DOMAIN S.tabs
         /\ phantom[RecordId] = id /\ phantom[RecordIndex] = mark + 1
         /\ S2 = Inserted(S, n, phantom)
  BY InsertRowFacts
<1> DEFINE rows2 == Append(t.rows, phantom)
           t2 == [t EXCEPT !.rows = rows2]
<1>0. r \in Range(S2.tabs[m].rows) /\ r \notin Range(S.tabs[m].rows)
  OBVIOUS
<1>2. /\ FramedTable(src, S, n) /\ IsTable(t)
      /\ S.tabs = [k \in DOMAIN S.tabs |-> S.tabs[k]]
  BY <1>1 DEF Framed, FramedTable
<1>3. S2.tabs = [S.tabs EXCEPT ![n] = t2]
  BY <1>1 DEF Inserted
<1>4. m = n /\ S2.tabs[n].rows = rows2
  <2>1. t2.rows = rows2
    BY <1>2 DEF IsTable
  <2> HIDE DEF t2, rows2
  <2>2. S2.tabs[n] = t2 /\ (m # n => S2.tabs[m] = S.tabs[m])
    BY <1>1, <1>2, <1>3
  <2> QED
    BY <1>0, <2>1, <2>2
<1>5. Range(rows2) = Range(t.rows) \cup {phantom}
  <2>1. t.rows \in Seq(Range(t.rows))
    BY <1>2 DEF IsTable
  <2> HIDE DEF t
  <2> QED
    BY <2>1, AppendedRange
<1> HIDE DEF rows2
<1>6. r = phantom
  BY <1>0, <1>4, <1>5
<1>7. Indexed(t, src.tabs[n], mark) /\ Remembered(t, src.tabs[n], S.deleted) /\ n = RecordsOf(t.kind)
  BY <1>2 DEF FramedTable, Layout
<1>8. q[RecordIndex] \in Int /\ q[RecordIndex] <= mark /\ mark \in Int
  BY <1>4, <1>7 DEF Indexed
<1>9. q[RecordId] \in IdUniverse(S, side, t.kind)
  <2>1. \A x \in Range(t.rows) : x[RecordId] \in RecordIds(S.tabs, t.kind)
    BY <1>1, <1>7 DEF RecordIds, RowsOf
  <2>2. \A x \in RecordIds(S.tabs, t.kind) : x \in IdUniverse(S, side, t.kind)
    BY SMTT(20) DEF IdUniverse
  <2>3. \A x : <<t.kind, x>> \in S.deleted => x \in IdUniverse(S, side, t.kind)
    <3> DEFINE D == {d[2] : d \in {e \in S.deleted : e[1] = t.kind}}
    <3>1. \A x : x \in D => x \in IdUniverse(S, side, t.kind)
      BY SMTT(20) DEF IdUniverse
    <3>2. ASSUME NEW x, <<t.kind, x>> \in S.deleted PROVE x \in D
      <4> DEFINE d == <<t.kind, x>>
      <4>1. d[1] = t.kind /\ d[2] = x /\ d \in S.deleted
        BY <3>2
      <4> HIDE DEF d
      <4> QED
        BY <4>1
    <3> HIDE DEF D
    <3> QED
      BY <3>1, <3>2
  <2>4. \/ \E x \in Range(t.rows) : x[RecordId] = q[RecordId]
        \/ <<t.kind, q[RecordId]>> \in S.deleted
    BY <1>4, <1>7 DEF Remembered
  <2> QED
    BY <2>1, <2>2, <2>3, <2>4
<1> QED
  BY <1>1, <1>6, <1>8, <1>9

---------------------------------------------------------------------------
(* schema_drift: the columns change, and the layouts stay.                 *)

\* To start with p from position m on is to have the elements of p there.
LEMMA StartsWithAt ==
    ASSUME NEW s, s \in Seq(Range(s)), NEW p, p \in Seq(Range(p)), 1 <= Len(p), NEW m \in Nat, 1 <= m
    PROVE  StartsWith(SubSeq(s, m, Len(s)), p)
             <=> m + Len(p) <= Len(s) + 1 /\ \A i \in 1 .. Len(p) : s[m + i - 1] = p[i]
<1> DEFINE k == Len(p)
           n == Len(s)
           rest == SubSeq(s, m, n)
           head == SubSeq(rest, 1, k)
<1>1. n \in Nat /\ k \in Nat /\ DOMAIN s = 1 .. n /\ p = [i \in 1 .. k |-> p[i]]
  OBVIOUS
<1>2. \A i \in m .. n : s[i] \in Range(s)
  BY <1>1 DEF Range
<1>3. /\ rest \in Seq(Range(s)) /\ Len(rest) = IF m <= n THEN n - m + 1 ELSE 0
      /\ \A i \in 1 .. n - m + 1 : rest[i] = s[m + i - 1]
  BY <1>1, <1>2, SubSeqProperties
<1> HIDE DEF rest
<1>4. StartsWith(rest, p) <=> Len(rest) >= k /\ head = p
  BY DEF StartsWith
<1>5. Len(rest) >= k <=> m + k <= n + 1
  <2> HIDE DEF n, k
  <2> QED
    BY <1>1, <1>3 DEF k
<1>6. ASSUME m + k <= n + 1 PROVE head = p <=> \A i \in 1 .. k : s[m + i - 1] = p[i]
  <2>1. \A i \in 1 .. k : rest[i] \in Range(s) /\ rest[i] = s[m + i - 1]
    <3> HIDE DEF n, k
    <3>1. \A i \in 1 .. k : i \in 1 .. n - m + 1 /\ m + i - 1 \in m .. n
      BY <1>1, <1>6
    <3> QED
      BY <1>2, <1>3, <3>1
  <2>2. /\ head \in Seq(Range(s)) /\ Len(head) = k
        /\ \A i \in 1 .. k : head[i] = rest[i]
    <3> HIDE DEF n, k
    <3>1. /\ head \in Seq(Range(s)) /\ Len(head) = IF 1 <= k THEN k - 1 + 1 ELSE 0
          /\ \A i \in 1 .. k - 1 + 1 : head[i] = rest[1 + i - 1]
      BY <1>1, <2>1, SubSeqProperties
    <3> QED
      BY <1>1, <3>1
  <2> HIDE DEF head, n, k
  <2>3. head = [i \in 1 .. k |-> head[i]]
    BY <2>2
  <2>4. head = p <=> \A i \in 1 .. k : head[i] = p[i]
    BY <1>1, <2>3
  <2> QED
    BY <2>1, <2>2, <2>4
<1> HIDE DEF head, n, k
<1>7. StartsWith(rest, p) <=> m + k <= n + 1 /\ \A i \in 1 .. k : s[m + i - 1] = p[i]
  BY <1>4, <1>5, <1>6
<1> QED
  BY <1>7 DEF rest, n, k

\* A column no drift may touch: not a payload column, see _is_drift_eligible.
Firm(d) == ~(d.name[1] = "elem" \/ (d.name[1] = "prop" /\ d.refs = NULL))

\* What a drift does to a list of columns: those at the positions of S are kept
\* in order, a firm one as it is, another with its family.
Evolves(cols, cols2, S) ==
    /\ S \in SUBSET DOMAIN cols
    /\ cols2 = [i \in 1 .. Cardinality(S) |-> cols2[i]]
    /\ \A i \in 1 .. Cardinality(S) :
          /\ cols2[i].refs = cols[Ascending(S)[i]].refs
          /\ cols2[i].name[1] = cols[Ascending(S)[i]].name[1]
          /\ Firm(cols[Ascending(S)[i]]) =>
                /\ cols2[i].name = cols[Ascending(S)[i]].name
                /\ cols2[i].type = cols[Ascending(S)[i]].type
    /\ \A i \in DOMAIN cols : Firm(cols[i]) => i \in S

\* Shape is a sequence of the same length.
LEMMA ShapeFacts ==
    ASSUME NEW n \in Nat, NEW cols, DOMAIN cols = 1 .. n
    PROVE  /\ Shape(cols) \in Seq(Range(Shape(cols))) /\ Len(Shape(cols)) = n
           /\ \A i \in 1 .. n : Shape(cols)[i] = [name |-> cols[i].name, type |-> cols[i].type]
<1>1. Shape(cols) = [i \in 1 .. n |-> [name |-> cols[i].name, type |-> cols[i].type]]
  BY DEF Shape
<1> HIDE DEF Shape
<1>2. Shape(cols) = [i \in 1 .. n |-> Shape(cols)[i]]
  BY <1>1
<1> QED
  BY <1>1, <1>2, SequenceOf

\* A prefix of firm columns is what it was.
LEMMA FirmPrefix ==
    ASSUME NEW n \in Nat, NEW cols, DOMAIN cols = 1 .. n, NEW cols2, NEW S, Evolves(cols, cols2, S),
           NEW m \in 0 .. n, \A i \in 1 .. m : Firm(cols[i])
    PROVE  /\ Cardinality(S) \in Nat /\ m <= Cardinality(S) /\ DOMAIN cols2 = 1 .. Cardinality(S)
           /\ \A i \in 1 .. m : Ascending(S)[i] = i /\ Shape(cols2)[i] = Shape(cols)[i]
<1>1. \A x \in S : x \in 1 .. n
  BY DEF Evolves
<1>2. 1 .. m \subseteq S
  BY DEF Evolves
<1>3. m <= Cardinality(S) /\ \A i \in 1 .. m : Ascending(S)[i] = i
  BY <1>1, <1>2, AscendingPrefix
<1>4. Cardinality(S) \in Nat
  BY <1>1, AscendingFacts
<1>5. DOMAIN cols2 = 1 .. Cardinality(S)
  BY DEF Evolves
<1>6. ASSUME NEW i \in 1 .. m PROVE Shape(cols2)[i] = Shape(cols)[i]
  <2>1. i \in 1 .. n /\ i \in 1 .. Cardinality(S) /\ Ascending(S)[i] = i /\ Firm(cols[i])
    BY <1>3, <1>4
  <2>2. cols2[i].name = cols[i].name /\ cols2[i].type = cols[i].type
    BY <2>1 DEF Evolves
  <2>3. Shape(cols)[i] = [name |-> cols[i].name, type |-> cols[i].type]
    BY <2>1, ShapeFacts
  <2>4. Shape(cols2)[i] = [name |-> cols2[i].name, type |-> cols2[i].type]
    BY <1>4, <1>5, <2>1, ShapeFacts
  <2> QED
    BY <2>2, <2>3, <2>4
<1> QED
  BY <1>3, <1>4, <1>5, <1>6

\* The fixed layout of history survives a drift.
LEMMA HistoryEvolves ==
    ASSUME NEW n \in Nat, NEW cols, DOMAIN cols = 1 .. n, Len(cols) = n, NEW cols2, NEW S,
           Evolves(cols, cols2, S), StartsWith(Shape(cols), HistoryColumns)
    PROVE  StartsWith(Shape(cols2), HistoryColumns)
<1> DEFINE s == Shape(cols)
           s2 == Shape(cols2)
           p == HistoryColumns
<1>1. s \in Seq(Range(s)) /\ Len(s) = n /\ SubSeq(s, 1, Len(s)) = s
      /\ \A i \in 1 .. n : s[i] = [name |-> cols[i].name, type |-> cols[i].type]
  <2>1. s \in Seq(Range(s)) /\ Len(s) = n
        /\ \A i \in 1 .. n : s[i] = [name |-> cols[i].name, type |-> cols[i].type]
    BY ShapeFacts
  <2> HIDE DEF s
  <2> QED
    BY <2>1, SubSeqFull
<1>2. p \in Seq(Range(p)) /\ Len(p) = 6 /\ \A i \in 1 .. 6 : p[i].name[1] \notin {"elem", "prop"}
  <2>1. Len(p) = 6 /\ p = [i \in 1 .. 6 |-> p[i]]
    BY DEF HistoryColumns
  <2>2. p \in Seq(Range(p))
    <3> HIDE DEF p
    <3> QED
      BY <2>1, SequenceOf
  <2>3. \A i \in 1 .. 6 : p[i].name[1] \notin {"elem", "prop"}
    BY DEF HistoryColumns, Fork, Kind, RecordId, Property, SimTime, Value
  <2> QED
    BY <2>1, <2>2, <2>3
<1> HIDE DEF s, s2, p
<1> DEFINE m == 1
<1>10. m \in Nat /\ 1 <= m /\ 1 <= Len(p) /\ s \in Seq(Range(s)) /\ p \in Seq(Range(p))
  BY <1>1, <1>2
<1> HIDE DEF m
<1>3. 6 <= n /\ \A i \in 1 .. 6 : s[i] = p[i]
  <2>1. StartsWith(SubSeq(s, m, Len(s)), p)
    BY <1>1 DEF s, p, m
  <2>2. m + Len(p) <= Len(s) + 1 /\ \A i \in 1 .. Len(p) : s[m + i - 1] = p[i]
    BY <1>10, <2>1, StartsWithAt
  <2> QED
    BY <1>1, <1>2, <2>2 DEF m
<1> DEFINE k == Len(p)
<1>4. k \in 0 .. n /\ \A i \in 1 .. k : Firm(cols[i])
  <2>1. ASSUME NEW i \in 1 .. 6 PROVE Firm(cols[i])
    <3>1. i \in 1 .. n /\ s[i] = p[i]
      BY <1>3, <2>1
    <3>2. cols[i].name = p[i].name
      BY <1>1, <3>1
    <3> QED
      BY <1>2, <2>1, <3>2 DEF Firm
  <2> QED
    BY <1>2, <1>3, <2>1
<1> HIDE DEF k
<1>5. /\ Cardinality(S) \in Nat /\ k <= Cardinality(S) /\ DOMAIN cols2 = 1 .. Cardinality(S)
      /\ \A i \in 1 .. k : Shape(cols2)[i] = Shape(cols)[i]
  BY <1>4, FirmPrefix
<1>6. s2 \in Seq(Range(s2)) /\ Len(s2) = Cardinality(S)
  BY <1>5, ShapeFacts DEF s2
<1>7. m + Len(p) <= Len(s2) + 1 /\ \A i \in 1 .. Len(p) : s2[m + i - 1] = p[i]
  BY <1>2, <1>3, <1>5, <1>6 DEF s, s2, k, m
<1>8. StartsWith(SubSeq(s2, m, Len(s2)), p)
  BY <1>2, <1>6, <1>7, <1>10, StartsWithAt
<1>9. SubSeq(s2, m, Len(s2)) = s2
  BY <1>6, SubSeqFull DEF m
<1> QED
  BY <1>8, <1>9 DEF s2, p

\* A property block, by position: one that begins after the first m columns.
BlockAt(cols, n, m) ==
    \A i \in m + 1 .. n :
       \/ /\ cols[i].name[1] = "prop"
          /\ cols[i].refs # NULL =>
                /\ i < n
                /\ cols[i + 1].name = RefIndex(cols[i].name[2])
                /\ cols[i + 1].type = "BIGINT"
       \/ /\ i > m + 1
          /\ cols[i - 1].name[1] = "prop" /\ cols[i - 1].refs # NULL
          /\ cols[i].name = RefIndex(cols[i - 1].name[2])

LEMMA BlockIsAt ==
    ASSUME NEW n \in Nat, NEW cols, cols \in Seq(Range(cols)), Len(cols) = n, NEW m \in 0 .. n
    PROVE  PropertyBlock(SubSeq(cols, m + 1, Len(cols))) <=> BlockAt(cols, n, m)
<1> DEFINE block == SubSeq(cols, m + 1, n)
<1>0. DOMAIN cols = 1 .. n
  OBVIOUS
<1>1. \A i \in m + 1 .. n : cols[i] \in Range(cols)
  BY <1>0 DEF Range
<1>2. m + 1 \in Int /\ n \in Int
  OBVIOUS
<1>3. /\ block \in Seq(Range(cols)) /\ Len(block) = IF m + 1 <= n THEN n - (m + 1) + 1 ELSE 0
      /\ \A i \in 1 .. n - (m + 1) + 1 : block[i] = cols[m + 1 + i - 1]
  BY <1>1, <1>2, SubSeqProperties
<1> HIDE DEF block
<1>4. Len(block) = n - m /\ DOMAIN block = 1 .. n - m
  BY <1>3
<1>5. \A i \in 1 .. n - m : block[i] = cols[m + i]
  BY <1>3
<1> DEFINE Here(i, j) ==
              \/ /\ block[i].name[1] = "prop"
                 /\ block[i].refs # NULL =>
                       /\ i < n - m
                       /\ block[i + 1].name = RefIndex(block[i].name[2])
                       /\ block[i + 1].type = "BIGINT"
              \/ /\ i > 1
                 /\ block[i - 1].name[1] = "prop" /\ block[i - 1].refs # NULL
                 /\ block[i].name = RefIndex(block[i - 1].name[2])
           There(i) ==
              \/ /\ cols[i].name[1] = "prop"
                 /\ cols[i].refs # NULL =>
                       /\ i < n
                       /\ cols[i + 1].name = RefIndex(cols[i].name[2])
                       /\ cols[i + 1].type = "BIGINT"
              \/ /\ i > m + 1
                 /\ cols[i - 1].name[1] = "prop" /\ cols[i - 1].refs # NULL
                 /\ cols[i].name = RefIndex(cols[i - 1].name[2])
<1>6. ASSUME NEW i \in 1 .. n - m PROVE Here(i, m) <=> There(m + i)
  <2>1. block[i] = cols[m + i]
    BY <1>5
  <2>2. i < n - m <=> m + i < n
    OBVIOUS
  <2>3. i < n - m => block[i + 1] = cols[m + i + 1]
    <3>1. i < n - m => i + 1 \in 1 .. n - m /\ m + (i + 1) = m + i + 1
      OBVIOUS
    <3> QED
      BY <1>5, <3>1
  <2>4. i > 1 <=> m + i > m + 1
    OBVIOUS
  <2>5. i > 1 => block[i - 1] = cols[m + i - 1]
    <3>1. i > 1 => i - 1 \in 1 .. n - m /\ m + (i - 1) = m + i - 1
      OBVIOUS
    <3> QED
      BY <1>5, <3>1
  <2> QED
    BY <2>1, <2>2, <2>3, <2>4, <2>5
<1>7. PropertyBlock(block) <=> \A i \in 1 .. n - m : Here(i, m)
  BY <1>4 DEF PropertyBlock
<1>8. BlockAt(cols, n, m) <=> \A i \in m + 1 .. n : There(i)
  BY DEF BlockAt
<1> HIDE DEF Here, There
<1>9. \A i \in m + 1 .. n : i - m \in 1 .. n - m /\ m + (i - m) = i
  OBVIOUS
<1>10. \A i \in 1 .. n - m : m + i \in m + 1 .. n
  OBVIOUS
<1>11. PropertyBlock(block) <=> BlockAt(cols, n, m)
  BY <1>6, <1>7, <1>8, <1>9, <1>10
<1> QED
  BY <1>11 DEF block

\* A reference and its sibling are both firm, so they stay side by side.
LEMMA BlockEvolves ==
    ASSUME NEW n \in Nat, NEW cols, DOMAIN cols = 1 .. n, NEW cols2, NEW S, Evolves(cols, cols2, S),
           NEW m \in 0 .. n, \A i \in 1 .. m : Firm(cols[i]), BlockAt(cols, n, m)
    PROVE  BlockAt(cols2, Cardinality(S), m)
<1> DEFINE C == Cardinality(S)
           A == Ascending(S)
<1>1. \A x \in S : x \in 1 .. n
  BY DEF Evolves
<1>2. /\ C \in Nat /\ A \in [1 .. C -> S]
      /\ \A i, j \in 1 .. C : i < j => A[i] < A[j]
      /\ \A k \in S : \E i \in 1 .. C : A[i] = k
  BY <1>1, AscendingFacts
<1>3. m <= C /\ \A i \in 1 .. m : A[i] = i
  BY FirmPrefix
<1>4. \A i \in 1 .. C : A[i] + 1 \in S => i + 1 \in 1 .. C /\ A[i + 1] = A[i] + 1
  BY <1>1, AscendingAdjacent
<1>5. /\ \A i \in 1 .. C : /\ cols2[i].refs = cols[A[i]].refs
                           /\ cols2[i].name[1] = cols[A[i]].name[1]
                           /\ Firm(cols[A[i]]) => /\ cols2[i].name = cols[A[i]].name
                                                  /\ cols2[i].type = cols[A[i]].type
      /\ \A i \in 1 .. n : Firm(cols[i]) => i \in S
  BY DEF Evolves
<1> HIDE DEF C, A
<1>6. \A i \in 1 .. C : A[i] \in S /\ A[i] \in 1 .. n
  BY <1>1, <1>2
<1>7. ASSUME NEW i \in 1 .. C, NEW j \in 1 .. C, A[i] = A[j] PROVE i = j
  BY SMTT(20), <1>2, <1>6, <1>7
<1>8. ASSUME NEW i \in 1 .. C, m < i PROVE m < A[i]
  <2>1. SUFFICES ASSUME A[i] <= m PROVE FALSE
    BY <1>6
  <2>2. A[i] \in 1 .. m /\ A[i] \in 1 .. C /\ A[i] < i
    BY <1>2, <1>3, <1>6, <1>8, <2>1
  <2>3. A[A[i]] = A[i]
    BY <1>3, <2>2
  <2> QED
    BY <1>7, <2>2, <2>3
<1>9. \A k \in 1 .. n : cols[k].name[1] = "prop" /\ cols[k].refs # NULL => Firm(cols[k])
  BY DEF Firm
<1>10. \A k \in 1 .. n : \A x : cols[k].name = RefIndex(x) => Firm(cols[k])
  BY DEF Firm, RefIndex
<1>11. ASSUME NEW i \in m + 1 .. C
       PROVE  \/ /\ cols2[i].name[1] = "prop"
                 /\ cols2[i].refs # NULL =>
                       /\ i < C
                       /\ cols2[i + 1].name = RefIndex(cols2[i].name[2])
                       /\ cols2[i + 1].type = "BIGINT"
              \/ /\ i > m + 1
                 /\ cols2[i - 1].name[1] = "prop" /\ cols2[i - 1].refs # NULL
                 /\ cols2[i].name = RefIndex(cols2[i - 1].name[2])
  <2> DEFINE k == A[i]
  <2>1. i \in 1 .. C /\ m < i /\ k \in m + 1 .. n /\ k \in 1 .. n
    BY <1>2, <1>6, <1>8
  <2> HIDE DEF k
  <2>2. CASE /\ cols[k].name[1] = "prop"
             /\ cols[k].refs # NULL =>
                   /\ k < n
                   /\ cols[k + 1].name = RefIndex(cols[k].name[2])
                   /\ cols[k + 1].type = "BIGINT"
    <3>1. cols2[i].name[1] = "prop" /\ cols2[i].refs = cols[k].refs
      BY <1>5, <2>1, <2>2 DEF k
    <3>2. ASSUME cols[k].refs # NULL
          PROVE  i < C /\ cols2[i + 1].name = RefIndex(cols2[i].name[2]) /\ cols2[i + 1].type = "BIGINT"
      <4>1. k + 1 \in 1 .. n /\ Firm(cols[k]) /\ Firm(cols[k + 1])
        BY <1>9, <1>10, <2>1, <2>2, <3>2
      <4>2. i + 1 \in 1 .. C /\ A[i + 1] = k + 1
        BY <1>4, <1>5, <2>1, <4>1 DEF k
      <4>3. cols2[i].name = cols[k].name
        BY <1>5, <2>1, <4>1 DEF k
      <4>4. cols2[i + 1].name = cols[k + 1].name /\ cols2[i + 1].type = cols[k + 1].type
        BY <1>5, <4>1, <4>2
      <4>5. i < C
        BY <1>2, <2>1, <4>2
      <4> QED
        BY <2>2, <3>2, <4>3, <4>4, <4>5
    <3> QED
      BY <3>1, <3>2
  <2>3. CASE /\ k > m + 1
             /\ cols[k - 1].name[1] = "prop" /\ cols[k - 1].refs # NULL
             /\ cols[k].name = RefIndex(cols[k - 1].name[2])
    <3>1. k - 1 \in 1 .. n /\ Firm(cols[k - 1]) /\ Firm(cols[k]) /\ k - 1 + 1 = k
      BY <1>9, <1>10, <2>1, <2>3
    <3>2. PICK j \in 1 .. C : A[j] = k - 1
      BY <1>2, <1>5, <3>1
    <3>3. j + 1 \in 1 .. C /\ A[j + 1] = k
      BY <1>4, <1>6, <2>1, <3>1, <3>2 DEF k
    <3>4. j = i - 1
      <4>1. j + 1 = i
        BY <1>7, <2>1, <3>3 DEF k
      <4> QED
        BY <4>1
    <3>5. i > m + 1
      <4>1. SUFFICES ASSUME i = m + 1 PROVE FALSE
        BY <2>1
      <4>2. j \in 1 .. m
        BY <3>4, <4>1
      <4>3. A[j] = j /\ j = m
        BY <1>3, <3>4, <4>1, <4>2
      <4> QED
        BY <2>1, <2>3, <3>2, <4>3
    <3>6. /\ cols2[j].refs = cols[k - 1].refs /\ cols2[j].name = cols[k - 1].name
          /\ cols2[i].name = cols[k].name
      BY <1>5, <2>1, <3>1, <3>2 DEF k
    <3> QED
      BY <2>3, <3>4, <3>5, <3>6
  <2> QED
    BY <2>1, <2>2, <2>3 DEF BlockAt
<1>12. BlockAt(cols2, C, m)
  BY <1>11 DEF BlockAt
<1> QED
  BY <1>12 DEF C

\* A sequence of n elements.
Listed(s, n) == s \in Seq(Range(s)) /\ Len(s) = n

\* The pinned prefix and the property block of a records table survive a drift.
LEMMA RecordsEvolves ==
    ASSUME NEW n \in Nat, NEW cols, Listed(cols, n), NEW cols2, NEW S,
           Evolves(cols, cols2, S), RecordsLayout(cols)
    PROVE  RecordsLayout(cols2)
<1> DEFINE C == Cardinality(S)
           s == Shape(cols)
           s2 == Shape(cols2)
           id == IdentityColumns
           life == LifecycleColumns \o IndexColumn
           named(c) == Len(c) > 2 /\ c[3].name = Presented
           from == IF named(cols) THEN 4 ELSE 3
           one == 1
           m == from + 4
<1>1. DOMAIN cols = 1 .. n
  BY DEF Listed
<1>2. /\ s \in Seq(Range(s)) /\ Len(s) = n
      /\ \A i \in 1 .. n : s[i] = [name |-> cols[i].name, type |-> cols[i].type]
  BY <1>1, ShapeFacts
<1>3. /\ id \in Seq(Range(id)) /\ Len(id) = 2 /\ life \in Seq(Range(life)) /\ Len(life) = 5
      /\ \A i \in 1 .. 2 : id[i].name[1] \notin {"elem", "prop"}
      /\ \A i \in 1 .. 5 : life[i].name[1] \notin {"elem", "prop"}
  <2>1. Len(id) = 2 /\ id = [i \in 1 .. 2 |-> id[i]]
    BY DEF IdentityColumns
  <2>2. /\ LifecycleColumns \in Seq(Range(LifecycleColumns)) /\ Len(LifecycleColumns) = 4
        /\ \A i \in 1 .. 4 : LifecycleColumns[i].name[1] \notin {"elem", "prop"}
    <3>1. /\ Len(LifecycleColumns) = 4 /\ LifecycleColumns = [i \in 1 .. 4 |-> LifecycleColumns[i]]
          /\ \A i \in 1 .. 4 : LifecycleColumns[i].name[1] \notin {"elem", "prop"}
      BY DEF LifecycleColumns, Created, Active, Deactivated, Mutated
    <3> QED
      BY <3>1, SequenceOf
  <2>3. /\ IndexColumn \in Seq(Range(IndexColumn)) /\ Len(IndexColumn) = 1
        /\ IndexColumn[1].name[1] \notin {"elem", "prop"}
    <3>1. /\ Len(IndexColumn) = 1 /\ IndexColumn = [i \in 1 .. 1 |-> IndexColumn[i]]
          /\ IndexColumn[1].name[1] \notin {"elem", "prop"}
      BY DEF IndexColumn, RecordIndex
    <3> QED
      BY <3>1, SequenceOf
  <2> DEFINE R == Range(LifecycleColumns) \cup Range(IndexColumn)
  <2>5. LifecycleColumns \in Seq(R) /\ IndexColumn \in Seq(R)
    BY <2>2, <2>3, SeqMonotonic
  <2> HIDE DEF R
  <2>8. /\ life \in Seq(R) /\ Len(life) = 5
        /\ \A i \in 1 .. 5 : life[i] = IF i <= 4 THEN LifecycleColumns[i] ELSE IndexColumn[i - 4]
    <3>1. /\ life \in Seq(R) /\ Len(life) = Len(LifecycleColumns) + Len(IndexColumn)
          /\ \A i \in 1 .. Len(LifecycleColumns) + Len(IndexColumn) :
                life[i] = IF i <= Len(LifecycleColumns) THEN LifecycleColumns[i]
                          ELSE IndexColumn[i - Len(LifecycleColumns)]
      BY <2>5, ConcatProperties
    <3> HIDE DEF life
    <3> QED
      BY <2>2, <2>3, <3>1
  <2> HIDE DEF life
  <2>9. \A i \in 1 .. 5 : life[i].name[1] \notin {"elem", "prop"}
    <3> SUFFICES ASSUME NEW i \in 1 .. 5 PROVE life[i].name[1] \notin {"elem", "prop"}
      OBVIOUS
    <3>1. CASE i <= 4
      BY <2>2, <2>8, <3>1
    <3>2. CASE i = 5
      BY <2>3, <2>8, <3>2
    <3> QED
      BY <3>1, <3>2
  <2>10. life = [i \in 1 .. 5 |-> life[i]]
    BY <2>8
  <2>4. \A i \in 1 .. 2 : id[i].name[1] \notin {"elem", "prop"}
    BY DEF IdentityColumns, Fork, RecordId
  <2> HIDE DEF id
  <2>6. id \in Seq(Range(id))
    BY <2>1, SequenceOf
  <2>7. life \in Seq(Range(life))
    BY <2>10, SequenceOf
  <2> QED
    BY <2>1, <2>4, <2>6, <2>7, <2>8, <2>9
<1>4. /\ StartsWith(s, id) /\ StartsWith(SubSeq(s, from, Len(s)), life)
      /\ PropertyBlock(SubSeq(cols, from + 5, Len(cols)))
  BY DEF RecordsLayout
<1>5. one \in Nat /\ 1 <= one /\ from \in {3, 4} /\ (from = 4 <=> named(cols))
  OBVIOUS
<1> HIDE DEF s, id, life, one
<1>6. one + Len(id) <= Len(s) + 1 /\ \A i \in 1 .. Len(id) : s[one + i - 1] = id[i]
  <2>1. SubSeq(s, one, Len(s)) = s
    BY <1>2, SubSeqFull DEF one
  <2>2. StartsWith(SubSeq(s, one, Len(s)), id)
    BY <1>4, <2>1
  <2>3. s \in Seq(Range(s)) /\ id \in Seq(Range(id)) /\ 1 <= Len(id)
    BY <1>2, <1>3
  <2> QED
    BY <1>5, <2>2, <2>3, StartsWithAt
<1> HIDE DEF from
<1>7. from + Len(life) <= Len(s) + 1 /\ \A i \in 1 .. Len(life) : s[from + i - 1] = life[i]
  <2>1. from \in Nat /\ 1 <= from
    BY <1>5
  <2>2. s \in Seq(Range(s)) /\ life \in Seq(Range(life)) /\ 1 <= Len(life)
    BY <1>2, <1>3
  <2>3. StartsWith(SubSeq(s, from, Len(s)), life)
    BY <1>4
  <2> QED
    BY <2>1, <2>2, <2>3, StartsWithAt
<1>8. m \in 0 .. n /\ m >= 7
  BY <1>2, <1>3, <1>5, <1>7
<1>9. ASSUME NEW i \in 1 .. m PROVE Firm(cols[i])
  <2>1. i \in 1 .. n /\ s[i].name = cols[i].name
    BY <1>2, <1>8
  <2>2. CASE i \in 1 .. 2
    <3>1. s[i] = id[i]
      BY <1>3, <1>6, <2>2 DEF one
    <3> QED
      BY <1>3, <2>1, <2>2, <3>1 DEF Firm
  <2>3. CASE i = 3 /\ from = 4
    <3>1. cols[i].name = Presented
      BY <1>5, <2>3
    <3> QED
      BY <3>1 DEF Firm, Presented
  <2>4. CASE i >= from
    <3> DEFINE j == i - from + 1
    <3>1. j \in 1 .. 5 /\ from + j - 1 = i
      BY <1>5, <2>4
    <3> HIDE DEF j
    <3>2. s[i] = life[j]
      BY <1>3, <1>7, <3>1
    <3> QED
      BY <1>3, <2>1, <3>1, <3>2 DEF Firm
  <2>5. i \in 1 .. 2 \/ (i = 3 /\ from = 4) \/ i >= from
    BY <1>5
  <2> QED
    BY <2>2, <2>3, <2>4, <2>5
<1> HIDE DEF m
<1>10. /\ C \in Nat /\ m <= C /\ DOMAIN cols2 = 1 .. C
       /\ \A i \in 1 .. m : s2[i] = s[i]
  <2>1. /\ Cardinality(S) \in Nat /\ m <= Cardinality(S) /\ DOMAIN cols2 = 1 .. Cardinality(S)
        /\ \A i \in 1 .. m : Shape(cols2)[i] = Shape(cols)[i]
    <3>1. m \in 0 .. n /\ DOMAIN cols = 1 .. n /\ Evolves(cols, cols2, S)
      BY <1>1, <1>8
    <3>2. \A i \in 1 .. m : Firm(cols[i])
      BY <1>9
    <3> HIDE DEF s2, named
    <3> QED
      BY <3>1, <3>2, FirmPrefix
  <2> QED
    BY <2>1 DEF s
<1>11. cols2 \in Seq(Range(cols2)) /\ Len(cols2) = C
  <2>1. cols2 = [i \in 1 .. C |-> cols2[i]]
    BY DEF Evolves
  <2> HIDE DEF C
  <2> QED
    BY <1>10, <2>1, SequenceOf
<1> HIDE DEF C
<1>12. /\ s2 \in Seq(Range(s2)) /\ Len(s2) = C
       /\ \A i \in 1 .. C : s2[i] = [name |-> cols2[i].name, type |-> cols2[i].type]
  BY <1>10, ShapeFacts
<1> HIDE DEF s2
<1>13. StartsWith(s2, id)
  <2>1. s2 \in Seq(Range(s2)) /\ id \in Seq(Range(id)) /\ 1 <= Len(id)
    BY <1>3, <1>12
  <2>2. one + Len(id) <= Len(s2) + 1 /\ \A i \in 1 .. Len(id) : s2[one + i - 1] = id[i]
    <3>1. one + Len(id) <= Len(s2) + 1 /\ \A i \in 1 .. Len(id) : one + i - 1 \in 1 .. m
      BY <1>3, <1>8, <1>10, <1>12 DEF one
    <3> QED
      BY <1>6, <1>10, <3>1
  <2>3. StartsWith(SubSeq(s2, one, Len(s2)), id)
    BY <1>5, <2>1, <2>2, StartsWithAt
  <2>4. SubSeq(s2, one, Len(s2)) = s2
    BY <1>12, SubSeqFull DEF one
  <2> QED
    BY <2>3, <2>4
<1>14. StartsWith(SubSeq(s2, from, Len(s2)), life)
  <2>1. s2 \in Seq(Range(s2)) /\ life \in Seq(Range(life)) /\ 1 <= Len(life)
    BY <1>3, <1>12
  <2>2. from \in Nat /\ 1 <= from
    BY <1>5
  <2>3. from + Len(life) <= Len(s2) + 1
    BY <1>3, <1>5, <1>8, <1>10, <1>12 DEF m
  <2>4. ASSUME NEW i \in 1 .. Len(life) PROVE s2[from + i - 1] = life[i]
    <3>1. from + i - 1 \in 1 .. m
      BY <1>3, <1>5 DEF m
    <3> QED
      BY <1>7, <1>10, <3>1
  <2> QED
    BY <2>1, <2>2, <2>3, <2>4, StartsWithAt
<1>15. named(cols2) <=> named(cols)
  <2>1. 3 \in 1 .. m /\ 3 \in 1 .. n /\ 3 \in 1 .. C
    BY <1>8, <1>10
  <2>2. cols2[3].name = cols[3].name
    <3>1. s2[3] = s[3]
      BY <1>10, <2>1
    <3>2. s2[3].name = cols2[3].name
      BY <1>12, <2>1
    <3>3. s[3].name = cols[3].name
      BY <1>2, <2>1
    <3> QED
      BY <3>1, <3>2, <3>3
  <2>3. Len(cols) > 2 /\ Len(cols2) > 2
    BY <1>11, <2>1 DEF Listed
  <2> QED
    BY <2>2, <2>3
<1>16. PropertyBlock(SubSeq(cols2, from + 5, Len(cols2)))
  <2>1. m + 1 = from + 5
    BY <1>5 DEF m
  <2>2. BlockAt(cols, n, m)
    BY <1>4, <1>8, <2>1, BlockIsAt DEF Listed
  <2>3. BlockAt(cols2, C, m)
    BY <1>1, <1>8, <1>9, <2>2, BlockEvolves DEF C
  <2>4. m \in 0 .. C
    BY <1>8, <1>10
  <2> QED
    BY <1>10, <1>11, <2>1, <2>3, <2>4, BlockIsAt
<1>17. (IF named(cols2) THEN 4 ELSE 3) = from
  BY <1>15 DEF from
<1> QED
  BY <1>13, <1>14, <1>16, <1>17 DEF RecordsLayout, s2, id, life

\* A table with other columns and other rows.
LEMMA TableRewritten ==
    ASSUME NEW t, IsTable(t), NEW x, NEW y
    PROVE  [t EXCEPT !.cols = x, !.rows = y]
             = [category |-> t.category, kind |-> t.kind, property |-> t.property,
                cols |-> x, rows |-> y]
<1> DEFINE t2 == [t EXCEPT !.cols = x, !.rows = y]
<1>1. t = [category |-> t.category, kind |-> t.kind, property |-> t.property,
           cols |-> t.cols, rows |-> t.rows]
  BY DEF IsTable
<1>2. t2 = [t EXCEPT !.cols = x, !.rows = y]
  OBVIOUS
<1> HIDE DEF t2
<1>3. t2 = [category |-> t.category, kind |-> t.kind, property |-> t.property,
            cols |-> x, rows |-> y]
  BY <1>1, <1>2
<1> QED
  BY <1>3 DEF t2

\* A column with another name and another type.
LEMMA ColumnRewritten ==
    ASSUME NEW d, IsColumn(d), NEW x, NEW y
    PROVE  [d EXCEPT !.name = x, !.type = y]
             = [name |-> x, type |-> y, tracked |-> d.tracked, temporal |-> d.temporal,
                refs |-> d.refs]
<1> DEFINE d2 == [d EXCEPT !.name = x, !.type = y]
<1>1. d = [name |-> d.name, type |-> d.type, tracked |-> d.tracked,
           temporal |-> d.temporal, refs |-> d.refs]
  BY DEF IsColumn
<1>2. d2 = [d EXCEPT !.name = x, !.type = y]
  OBVIOUS
<1> HIDE DEF d2
<1>3. d2 = [name |-> x, type |-> y, tracked |-> d.tracked, temporal |-> d.temporal, refs |-> d.refs]
  BY <1>1, <1>2
<1> QED
  BY <1>3 DEF d2

\* The columns a valid drift touches are payload: no reference, and not of the frame.
LEMMA TouchedIsPayload ==
    ASSUME NEW tabs, NEW side, NEW n, NEW drift, DriftValid(tabs, side, n, drift), IsTable(tabs[n]),
           NEW i \in DOMAIN tabs[n].cols,
           tabs[n].cols[i].name \in DOMAIN drift.rename \cup DOMAIN drift.retype \cup drift.drop
    PROVE  ~Firm(tabs[n].cols[i]) /\ tabs[n].cols[i].name \notin FrameColumns(tabs[n])
<1> DEFINE t == tabs[n]
           d == SpecOf(t, t.cols[i].name)
<1>1. DriftEligible(tabs, side, n, d)
  BY DEF DriftValid
<1>2. t.cols[i] \in Range(t.cols)
  BY DEF Range
<1>3. d \in Range(t.cols) /\ d.name = t.cols[i].name
  BY <1>2 DEF SpecOf
<1> HIDE DEF d
<1>4. \A k, j \in DOMAIN t.cols : t.cols[k].name = t.cols[j].name => k = j
  BY DEF IsTable
<1>5. d = t.cols[i]
  BY <1>3, <1>4 DEF Range
<1>6. d.name[1] = "elem" \/ (d.name[1] = "prop" /\ d.refs = NULL)
  BY <1>1 DEF DriftEligible
<1>7. ~Firm(t.cols[i])
  BY <1>5, <1>6 DEF Firm
<1>8. t.cols[i].name \notin FrameColumns(t)
  BY <1>5, <1>6, FrameNames
<1> QED
  BY <1>7, <1>8

\* The columns a drift leaves, each at its place.
Kept(t, drift) == {i \in DOMAIN t.cols : t.cols[i].name \notin drift.drop}
Retyped(d, drift) == IF d.name \in DOMAIN drift.retype THEN drift.retype[d.name] ELSE d.type

LEMMA EvolvedFacts ==
    ASSUME NEW t, IsTable(t), NEW drift
    PROVE  LET K == Kept(t, drift)
               A == Ascending(K)
               E == EvolvedColumns(t, drift)
           IN  /\ Cardinality(K) \in Nat
               /\ E = [i \in 1 .. Cardinality(K) |-> E[i]]
               /\ \A i \in 1 .. Cardinality(K) :
                     /\ A[i] \in K
                     /\ E[i] = [name |-> NewName(drift, t.cols[A[i]].name),
                                type |-> Retyped(t.cols[A[i]], drift),
                                tracked |-> t.cols[A[i]].tracked,
                                temporal |-> t.cols[A[i]].temporal,
                                refs |-> t.cols[A[i]].refs]
<1> DEFINE K == Kept(t, drift)
           A == Ascending(K)
           E == EvolvedColumns(t, drift)
           O == Only(t.cols, K)
           C == Cardinality(K)
           cols == t.cols
<1>1. cols \in Seq(Range(cols)) /\ \A d \in Range(cols) : IsColumn(d)
  BY DEF IsTable
<1>2. K \in SUBSET DOMAIN cols
  BY DEF Kept
<1>3. E = [i \in DOMAIN O |-> [O[i] EXCEPT !.name = NewName(drift, O[i].name),
                                         !.type = Retyped(O[i], drift)]]
  BY DEF EvolvedColumns, Kept, Retyped
<1> HIDE DEF K, E, cols
<1>4. /\ C \in Nat /\ DOMAIN O = 1 .. C
      /\ \A i \in 1 .. C : A[i] \in K /\ O[i] = cols[A[i]]
  BY <1>1, <1>2, OnlyFacts DEF cols
<1> HIDE DEF C, O, A
<1>5. ASSUME NEW i \in 1 .. C
      PROVE  E[i] = [name |-> NewName(drift, cols[A[i]].name), type |-> Retyped(cols[A[i]], drift),
                     tracked |-> cols[A[i]].tracked, temporal |-> cols[A[i]].temporal,
                     refs |-> cols[A[i]].refs]
  <2> DEFINE d == O[i]
             x == NewName(drift, d.name)
             y == Retyped(d, drift)
  <2>1. E[i] = [d EXCEPT !.name = x, !.type = y]
    BY <1>3, <1>4
  <2>2. d = cols[A[i]] /\ A[i] \in DOMAIN cols
    BY <1>2, <1>4
  <2>3. IsColumn(d)
    BY <1>1, <2>2 DEF Range
  <2> HIDE DEF d, x, y
  <2>4. E[i] = [name |-> x, type |-> y, tracked |-> d.tracked, temporal |-> d.temporal,
                refs |-> d.refs]
    BY <2>1, <2>3, ColumnRewritten
  <2> QED
    BY <2>2, <2>4 DEF x, y
<1>6. E = [i \in 1 .. C |-> E[i]]
  BY <1>3, <1>4
<1> QED
  BY <1>4, <1>5, <1>6 DEF K, E, C, A, cols

\* A rename changes a property's name, not that it is one.
LEMMA NewNameFamily ==
    ASSUME NEW tabs, NEW side, NEW n, NEW drift, DriftValid(tabs, side, n, drift), NEW c
    PROVE  NewName(drift, c)[1] = c[1]
BY DEF DriftValid, NewName

LEMMA DriftEvolves ==
    ASSUME NEW tabs, NEW side, NEW n, NEW drift, DriftValid(tabs, side, n, drift), IsTable(tabs[n])
    PROVE  Evolves(tabs[n].cols, EvolvedColumns(tabs[n], drift), Kept(tabs[n], drift))
<1> DEFINE t == tabs[n]
           K == Kept(t, drift)
           A == Ascending(K)
           E == EvolvedColumns(t, drift)
           C == Cardinality(K)
           cols == t.cols
<1>1. \A i \in DOMAIN cols : Firm(cols[i]) =>
         cols[i].name \notin DOMAIN drift.rename \cup DOMAIN drift.retype \cup drift.drop
  BY TouchedIsPayload
<1>2. /\ E = [i \in 1 .. C |-> E[i]]
      /\ \A i \in 1 .. C :
            /\ A[i] \in K
            /\ E[i] = [name |-> NewName(drift, cols[A[i]].name), type |-> Retyped(cols[A[i]], drift),
                       tracked |-> cols[A[i]].tracked, temporal |-> cols[A[i]].temporal,
                       refs |-> cols[A[i]].refs]
  BY EvolvedFacts
<1>3. \A c : NewName(drift, c)[1] = c[1]
  BY NewNameFamily
<1>4. K \in SUBSET DOMAIN cols /\ \A i \in DOMAIN cols : Firm(cols[i]) => i \in K
  BY <1>1 DEF Kept
<1> HIDE DEF K, A, E, C, cols
<1>5. ASSUME NEW i \in 1 .. C
      PROVE  /\ E[i].refs = cols[A[i]].refs /\ E[i].name[1] = cols[A[i]].name[1]
             /\ Firm(cols[A[i]]) => /\ E[i].name = cols[A[i]].name
                                    /\ E[i].type = cols[A[i]].type
  <2>1. A[i] \in DOMAIN cols
    BY <1>2, <1>4
  <2>2. /\ E[i].name = NewName(drift, cols[A[i]].name) /\ E[i].type = Retyped(cols[A[i]], drift)
        /\ E[i].refs = cols[A[i]].refs
    BY <1>2
  <2>3. Firm(cols[A[i]]) => /\ NewName(drift, cols[A[i]].name) = cols[A[i]].name
                            /\ Retyped(cols[A[i]], drift) = cols[A[i]].type
    BY <1>1, <2>1 DEF NewName, Retyped
  <2> QED
    BY <1>3, <2>2, <2>3
<1> QED
  BY <1>2, <1>4, <1>5 DEF Evolves, K, A, E, C, cols

\* A drift leaves the columns of the frame.
LEMMA FrameUntouched ==
    ASSUME NEW tabs, NEW side, NEW n, NEW drift, DriftValid(tabs, side, n, drift), IsTable(tabs[n]),
           NEW c \in FrameColumns(tabs[n])
    PROVE  /\ c \in ColumnsOf(tabs[n]) /\ c \notin drift.drop /\ c \notin DOMAIN drift.retype
           /\ NewName(drift, c) = c
<1> DEFINE t == tabs[n]
<1>1. c \in ColumnsOf(t)
  BY DEF IsTable
<1>2. PICK i \in DOMAIN t.cols : t.cols[i].name = c
  BY <1>1 DEF ColumnsOf, Range
<1>3. c \notin DOMAIN drift.rename \cup DOMAIN drift.retype \cup drift.drop
  BY <1>2, TouchedIsPayload
<1> QED
  BY <1>1, <1>3 DEF NewName

\* The names a drift leaves, and that they are still different.
NamesOf(cols)  == {c.name : c \in Range(cols)}
Distinct(cols) == \A i, j \in DOMAIN cols : cols[i].name = cols[j].name => i = j
DriftedNames(t, drift) == {NewName(drift, d) : d \in ColumnsOf(t) \ drift.drop}

LEMMA EvolvedNames ==
    ASSUME NEW tabs, NEW side, NEW n, NEW drift, DriftValid(tabs, side, n, drift), IsTable(tabs[n]),
           NEW E, E = EvolvedColumns(tabs[n], drift)
    PROVE  /\ Distinct(E)
           /\ NamesOf(E) = DriftedNames(tabs[n], drift)
           /\ E \in Seq(Range(E)) /\ \A d \in Range(E) : IsColumn(d)
<1> DEFINE t == tabs[n]
           K == Kept(t, drift)
           A == Ascending(K)
           C == Cardinality(K)
           cols == t.cols
           kept == ColumnsOf(t) \ drift.drop
<1>1. /\ C \in Nat /\ E = [i \in 1 .. C |-> E[i]]
      /\ \A i \in 1 .. C :
            /\ A[i] \in K
            /\ E[i] = [name |-> NewName(drift, cols[A[i]].name), type |-> Retyped(cols[A[i]], drift),
                       tracked |-> cols[A[i]].tracked, temporal |-> cols[A[i]].temporal,
                       refs |-> cols[A[i]].refs]
  BY EvolvedFacts
<1>2. /\ cols \in Seq(Range(cols))
      /\ \A i, j \in DOMAIN cols : cols[i].name = cols[j].name => i = j
  BY DEF IsTable
<1>3. /\ \A i, j \in 1 .. C : i < j => A[i] < A[j]
      /\ \A k \in K : \E i \in 1 .. C : A[i] = k
      /\ \A i \in 1 .. C : A[i] \in Int
  <2>1. Len(cols) \in Nat /\ \A x \in K : x \in 1 .. Len(cols)
    BY <1>2 DEF Kept
  <2> HIDE DEF K, cols
  <2>2. /\ A \in [1 .. Cardinality(K) -> K]
        /\ \A i, j \in 1 .. Cardinality(K) : i < j => A[i] < A[j]
        /\ \A k \in K : Rank(K, k) \in 1 .. Cardinality(K) /\ A[Rank(K, k)] = k
    BY <2>1, AscendingFacts
  <2> HIDE DEF A
  <2> QED
    BY <2>1, <2>2
<1>4. \A c, d \in kept : NewName(drift, c) = NewName(drift, d) => c = d
  BY DEF DriftValid
<1>5. \A k \in K : k \in DOMAIN cols /\ cols[k].name \in kept
  BY DEF Kept, ColumnsOf, Range
<1>6. \A c \in kept : \E k \in K : cols[k].name = c
  BY DEF Kept, ColumnsOf, Range
<1>7. DriftedNames(t, drift) = {NewName(drift, d) : d \in kept}
  BY DEF DriftedNames
<1> HIDE DEF K, A, C, cols, kept
<1>8. DOMAIN E = 1 .. C
  BY <1>1
<1>9. ASSUME NEW i \in 1 .. C
      PROVE  E[i].name = NewName(drift, cols[A[i]].name) /\ IsColumn(E[i])
  <2> DEFINE d == cols[A[i]]
             x == NewName(drift, d.name)
             y == Retyped(d, drift)
  <2>1. E[i] = [name |-> x, type |-> y, tracked |-> d.tracked, temporal |-> d.temporal,
                refs |-> d.refs]
    BY <1>1
  <2> HIDE DEF d, x, y
  <2>2. E[i].name = x /\ IsColumn(E[i])
    BY <2>1 DEF IsColumn
  <2> QED
    BY <2>2 DEF x, d
<1>10. ASSUME NEW i \in 1 .. C, NEW j \in 1 .. C, E[i].name = E[j].name PROVE i = j
  <2>1. cols[A[i]].name = cols[A[j]].name
    <3>1. cols[A[i]].name \in kept /\ cols[A[j]].name \in kept
      BY <1>1, <1>5
    <3>2. NewName(drift, cols[A[i]].name) = NewName(drift, cols[A[j]].name)
      BY <1>9, <1>10
    <3> QED
      BY <1>4, <3>1, <3>2
  <2>2. A[i] = A[j]
    BY <1>1, <1>2, <1>5, <2>1
  <2>3. ~(A[i] < A[j]) /\ ~(A[j] < A[i])
    BY <1>3, <2>2
  <2>4. ~(i < j) /\ ~(j < i)
    BY <1>3, <2>3
  <2> QED
    BY <1>1, <2>4
<1>11. ASSUME NEW x PROVE x \in {c.name : c \in Range(E)} <=> x \in DriftedNames(t, drift)
  <2>1. ASSUME x \in {c.name : c \in Range(E)} PROVE x \in DriftedNames(t, drift)
    <3>1. PICK i \in 1 .. C : x = E[i].name
      BY <1>8, <2>1 DEF Range
    <3>2. A[i] \in K /\ x = NewName(drift, cols[A[i]].name)
      BY <1>1, <1>9, <3>1
    <3>3. cols[A[i]].name \in kept
      BY <1>5, <3>2
    <3> QED
      BY <1>7, <3>2, <3>3
  <2>2. ASSUME x \in DriftedNames(t, drift) PROVE x \in {c.name : c \in Range(E)}
    <3>1. PICK c \in kept : x = NewName(drift, c)
      BY <1>7, <2>2
    <3>2. PICK k \in K : cols[k].name = c
      BY <1>6
    <3>3. PICK i \in 1 .. C : A[i] = k
      BY <1>3
    <3>4. E[i].name = x
      BY <1>9, <3>1, <3>2, <3>3
    <3>5. E[i] \in Range(E)
      BY <1>8 DEF Range
    <3> QED
      BY <3>4, <3>5
  <2> QED
    BY <2>1, <2>2
<1>12. NamesOf(E) = DriftedNames(t, drift)
  BY <1>11, Zenon DEF NamesOf
<1>13. \A d \in Range(E) : IsColumn(d)
  BY <1>8, <1>9 DEF Range
<1>14. E \in Seq(Range(E))
  BY <1>1, SequenceOf
<1> QED
  BY <1>8, <1>10, <1>12, <1>13, <1>14 DEF Distinct

\* A drifted row has the names left, and the frame of the row it was.
LEMMA DriftedRowFacts ==
    ASSUME NEW tabs, NEW side, NEW n, NEW drift, DriftValid(tabs, side, n, drift), IsTable(tabs[n]),
           NEW r, NEW r2, r2 = DriftedRow(tabs[n], drift, r)
    PROVE  /\ r2 = [c \in DriftedNames(tabs[n], drift) |-> r2[c]]
           /\ \A c \in FrameColumns(tabs[n]) : r2[c] = r[c]
<1> DEFINE t == tabs[n]
           cols == Range(t.cols)
           old(c) == CHOOSE d \in cols : d.name \notin drift.drop /\ c = NewName(drift, d.name)
           cast(d) == IF d.name \in DOMAIN drift.retype
                      THEN Cast(r[d.name], d.type, drift.retype[d.name]) ELSE r[d.name]
<1>1. r2 = [c \in DriftedNames(t, drift) |-> cast(old(c))]
  BY DEF DriftedRow, DriftedNames
<1>2. ASSUME NEW c \in FrameColumns(t) PROVE c \in DriftedNames(t, drift) /\ cast(old(c)) = r[c]
  <2>1. /\ c \in ColumnsOf(t) /\ c \notin drift.drop /\ c \notin DOMAIN drift.retype
        /\ NewName(drift, c) = c
    BY FrameUntouched
  <2>2. \E d \in cols : d.name \notin drift.drop /\ c = NewName(drift, d.name)
    BY <2>1 DEF ColumnsOf
  <2>3. old(c) \in cols /\ old(c).name \notin drift.drop /\ c = NewName(drift, old(c).name)
    BY <2>2
  <2> HIDE DEF old
  <2>4. \A a, b \in ColumnsOf(t) \ drift.drop : NewName(drift, a) = NewName(drift, b) => a = b
    BY DEF DriftValid
  <2>5. old(c).name \in ColumnsOf(t)
    BY <2>3 DEF ColumnsOf
  <2>6. old(c).name = c
    BY <2>1, <2>3, <2>4, <2>5
  <2>7. c \in DriftedNames(t, drift)
    BY <2>1 DEF DriftedNames
  <2> QED
    BY <2>1, <2>6, <2>7
<1> HIDE DEF cast, old
<1> QED
  BY <1>1, <1>2

\* The table a drift leaves: its columns and rows are other, its frame is not.
DriftedTable(t, drift) ==
    [category |-> t.category, kind |-> t.kind, property |-> t.property,
     cols |-> EvolvedColumns(t, drift),
     rows |-> [i \in DOMAIN t.rows |-> DriftedRow(t, drift, t.rows[i])]]

LEMMA DriftedTableFacts ==
    ASSUME NEW tabs, NEW side, NEW n, NEW drift, DriftValid(tabs, side, n, drift), IsTable(tabs[n])
    PROVE  LET t  == tabs[n]
               t2 == DriftedTable(t, drift)
           IN  /\ IsTable(t2) /\ t2.cols = EvolvedColumns(t, drift)
               /\ t2.category = t.category /\ t2.kind = t.kind /\ t2.property = t.property
               /\ \A q \in Range(t2.rows) : \E r \in Range(t.rows) : \A c \in FrameColumns(t) : q[c] = r[c]
               /\ \A r \in Range(t.rows) : \E q \in Range(t2.rows) : \A c \in FrameColumns(t) : q[c] = r[c]
<1> DEFINE t == tabs[n]
           E == EvolvedColumns(t, drift)
           rows == t.rows
           R == [i \in DOMAIN rows |-> DriftedRow(t, drift, rows[i])]
           t2 == DriftedTable(t, drift)
           N == DriftedNames(t, drift)
           F == FrameColumns(t)
<1>20. E = EvolvedColumns(tabs[n], drift)
  OBVIOUS
<1>0. /\ \A i \in DOMAIN rows : R[i] = DriftedRow(t, drift, rows[i])
      /\ R = [i \in DOMAIN rows |-> R[i]]
      /\ t2 = [category |-> t.category, kind |-> t.kind, property |-> t.property,
               cols |-> E, rows |-> R]
  BY DEF DriftedTable
<1> HIDE DEF E, R, t2
<1>1. /\ Distinct(E) /\ NamesOf(E) = N
      /\ E \in Seq(Range(E)) /\ \A d \in Range(E) : IsColumn(d)
  BY <1>20, EvolvedNames
<1>2. \A c \in F : c \in N
  <2> SUFFICES ASSUME NEW c \in F PROVE c \in N
    OBVIOUS
  <2>1. c \in ColumnsOf(t) /\ c \notin drift.drop /\ NewName(drift, c) = c
    BY FrameUntouched
  <2> QED
    BY <2>1 DEF DriftedNames
<1>3. \A i \in DOMAIN rows : /\ R[i] = [c \in N |-> R[i][c]]
                             /\ \A c \in F : R[i][c] = rows[i][c]
  <2> SUFFICES ASSUME NEW i \in DOMAIN rows
               PROVE  R[i] = [c \in N |-> R[i][c]] /\ \A c \in F : R[i][c] = rows[i][c]
    OBVIOUS
  <2> DEFINE r == rows[i]
             r2 == R[i]
  <2>1. r2 = DriftedRow(tabs[n], drift, r)
    BY <1>0
  <2> HIDE DEF r, r2
  <2>2. r2 = [c \in DriftedNames(tabs[n], drift) |-> r2[c]] /\ \A c \in FrameColumns(tabs[n]) : r2[c] = r[c]
    BY <2>1, DriftedRowFacts
  <2> QED
    BY <2>2 DEF r, r2
<1>4. /\ rows \in Seq(Range(rows)) /\ t.category \in {"fixed", "records", "membership"}
  BY DEF IsTable
<1> HIDE DEF rows, N
<1>5. R \in Seq(Range(R))
  <2>1. Len(rows) \in Nat /\ R = [i \in 1 .. Len(rows) |-> R[i]]
    BY <1>0, <1>4
  <2> QED
    BY <2>1, SequenceOf
<1>6. /\ t2.category = t.category /\ t2.kind = t.kind /\ t2.property = t.property
      /\ t2.cols = E /\ t2.rows = R
      /\ t2 = [category |-> t2.category, kind |-> t2.kind, property |-> t2.property,
               cols |-> t2.cols, rows |-> t2.rows]
  BY <1>0
<1>7. ColumnsOf(t2) = N
  BY <1>1, <1>6 DEF ColumnsOf, NamesOf
<1>8. FrameColumns(t2) = F
  BY <1>6 DEF FrameColumns
<1>9. \A r \in Range(R) : r = [c \in N |-> r[c]]
  BY <1>0, <1>3 DEF Range
<1>10. IsTable(t2)
  BY <1>1, <1>2, <1>4, <1>5, <1>6, <1>7, <1>8, <1>9 DEF IsTable, Distinct
<1>11. \A q \in Range(R) : \E r \in Range(rows) : \A c \in F : q[c] = r[c]
  BY <1>0, <1>3 DEF Range
<1>12. \A r \in Range(rows) : \E q \in Range(R) : \A c \in F : q[c] = r[c]
  BY <1>0, <1>3 DEF Range
<1> QED
  BY <1>0, <1>6, <1>10, <1>11, <1>12, <1>20 DEF rows, t2

\* Its layout is the one it had.
LEMMA DriftedLayout ==
    ASSUME NEW tabs, NEW side, NEW n, NEW drift, DriftValid(tabs, side, n, drift), IsTable(tabs[n]),
           Layout(n, tabs[n]), NEW t2, t2.category = tabs[n].category, t2.kind = tabs[n].kind,
           t2.property = tabs[n].property, t2.cols = EvolvedColumns(tabs[n], drift)
    PROVE  Layout(n, t2)
<1> DEFINE cols == tabs[n].cols
           cols2 == t2.cols
           k == Len(cols)
           K == Kept(tabs[n], drift)
<1>1. Evolves(cols, cols2, K)
  BY DriftEvolves
<1>2. cols \in Seq(Range(cols))
  BY DEF IsTable
<1>3. k \in Nat /\ DOMAIN cols = 1 .. k /\ Len(cols) = k /\ Listed(cols, k)
  BY <1>2 DEF Listed
<1>4. /\ n = History => StartsWith(Shape(cols), HistoryColumns)
      /\ tabs[n].category = "records" => RecordsLayout(cols)
  BY DEF Layout
<1> HIDE DEF cols, cols2, k, K
<1>5. StartsWith(Shape(cols), HistoryColumns) => StartsWith(Shape(cols2), HistoryColumns)
  BY <1>1, <1>3, HistoryEvolves
<1>6. RecordsLayout(cols) => RecordsLayout(cols2)
  BY <1>1, <1>3, RecordsEvolves
<1> QED
  BY <1>4, <1>5, <1>6 DEF Layout, cols2

LEMMA SchemaDriftFramed ==
    ASSUME NEW src, NEW S, Framed(src, S), NEW n \in DOMAIN S.tabs, NEW side, NEW drift,
           DriftValid(S.tabs, side, n, drift)
    PROVE  Framed(src, SchemaDrift(S, n, drift).state)
<1> DEFINE t == S.tabs[n]
           E == EvolvedColumns(t, drift)
           R == [i \in DOMAIN t.rows |-> DriftedRow(t, drift, t.rows[i])]
           t2 == DriftedTable(t, drift)
           tabs2 == [S.tabs EXCEPT ![n] = t2]
           S2 == SchemaDrift(S, n, drift).state
           F == FrameColumns(t)
<1>1. /\ S = [tabs |-> S.tabs, deleted |-> S.deleted, marks |-> S.marks]
      /\ S.tabs = [m \in DOMAIN src.tabs |-> S.tabs[m]]
      /\ S.marks = [m \in {l \in DOMAIN S.tabs : S.tabs[l].category = "records"} |-> S.marks[m]]
      /\ History \in DOMAIN src.tabs /\ src.sidecar.fork # NULL
      /\ \A m \in DOMAIN src.tabs : FramedTable(src, S, m)
  BY DEF Framed
<1>2. n \in DOMAIN src.tabs /\ DOMAIN S.tabs = DOMAIN src.tabs
  BY <1>1
<1>3. IsTable(t) /\ Layout(n, t)
  BY <1>1, <1>2 DEF FramedTable
<1>4. /\ IsTable(t2) /\ t2.cols = EvolvedColumns(t, drift)
      /\ t2.category = t.category /\ t2.kind = t.kind /\ t2.property = t.property
      /\ \A q \in Range(t2.rows) : \E r \in Range(t.rows) : \A c \in F : q[c] = r[c]
      /\ \A r \in Range(t.rows) : \E q \in Range(t2.rows) : \A c \in F : q[c] = r[c]
  BY <1>3, DriftedTableFacts
<1>5. t2 = [category |-> t.category, kind |-> t.kind, property |-> t.property,
            cols |-> E, rows |-> R]
  BY DEF DriftedTable
<1> HIDE DEF t2
<1>6. Layout(n, t2)
  BY <1>3, <1>4, DriftedLayout
<1>7. S2 = [S EXCEPT !.tabs[n] = [t EXCEPT !.cols = E, !.rows = R]]
  BY DEF SchemaDrift, Outcome
<1> HIDE DEF E, R
<1>8. [t EXCEPT !.cols = E, !.rows = R] = t2
  BY <1>3, <1>5, TableRewritten
<1> HIDE DEF S2
<1>9. S2 = [S EXCEPT !.tabs[n] = t2]
  BY <1>7, <1>8
<1>10. S2 = [tabs |-> tabs2, deleted |-> S.deleted, marks |-> S.marks]
  BY <1>1, <1>9
<1>11. /\ S2.tabs = tabs2 /\ S2.deleted = S.deleted /\ S2.marks = S.marks
       /\ S2 = [tabs |-> S2.tabs, deleted |-> S2.deleted, marks |-> S2.marks]
  BY <1>10
<1>12. /\ tabs2 = [m \in DOMAIN src.tabs |-> tabs2[m]] /\ tabs2[n] = t2
       /\ \A m \in DOMAIN src.tabs : m # n => tabs2[m] = S.tabs[m]
  BY <1>1, <1>2
<1> HIDE DEF tabs2
<1>13. \A m \in DOMAIN src.tabs : tabs2[m].category = S.tabs[m].category
  BY <1>4, <1>12
<1>14. {l \in DOMAIN tabs2 : tabs2[l].category = "records"}
         = {l \in DOMAIN S.tabs : S.tabs[l].category = "records"}
  BY <1>2, <1>12, <1>13
<1>15. ASSUME NEW m \in DOMAIN src.tabs, m # n PROVE FramedTable(src, S2, m)
  <2>1. FramedTable(src, S, m)
    BY <1>1
  <2>2. S2.tabs[m] = S.tabs[m]
    BY <1>11, <1>12, <1>15
  <2> QED
    BY <1>11, <2>1, <2>2 DEF FramedTable
<1>16. FramedTable(src, S2, n)
  <2> DEFINE o == src.tabs[n]
  <2>1. /\ t.category = o.category /\ t.kind = o.kind /\ t.property = o.property
        /\ \A r \in Range(t.rows) : r[Fork] = src.sidecar.fork
        /\ t.category = "records" => Indexed(t, o, S.marks[n]) /\ Remembered(t, o, S.deleted)
    BY <1>1, <1>2 DEF FramedTable
  <2>2. Fork \in F /\ (t.category = "records" => RecordId \in F /\ RecordIndex \in F)
    BY DEF FrameColumns
  <2> HIDE DEF o, F, t
  <2>3. \A r \in Range(t2.rows) : r[Fork] = src.sidecar.fork
    BY <1>4, <2>1, <2>2
  <2>4. ASSUME t.category = "records" PROVE Indexed(t2, o, S.marks[n])
    <3>1. Indexed(t, o, S.marks[n])
      BY <2>1, <2>4
    <3>2. \A q \in Range(t2.rows) : \E r \in Range(t.rows) : q[RecordIndex] = r[RecordIndex]
      BY <1>4, <2>2, <2>4
    <3> QED
      BY <3>1, <3>2 DEF Indexed
  <2>5. ASSUME t.category = "records" PROVE Remembered(t2, o, S.deleted)
    <3>1. Remembered(t, o, S.deleted)
      BY <2>1, <2>5
    <3>2. \A r \in Range(t.rows) : \E q \in Range(t2.rows) : q[RecordId] = r[RecordId]
      BY <1>4, <2>2, <2>5
    <3> QED
      BY <1>4, <3>1, <3>2 DEF Remembered
  <2>6. S2.tabs[n] = t2
    BY <1>11, <1>12
  <2> QED
    BY <1>4, <1>6, <1>11, <2>1, <2>3, <2>4, <2>5, <2>6 DEF FramedTable, o
<1> QED
  BY <1>1, <1>2, <1>11, <1>12, <1>14, <1>15, <1>16 DEF Framed, S2

---------------------------------------------------------------------------
(* The invariant of a run: what it would write lies in the frame.          *)

Kinds == {"null_cells", "dangle_reference", "mispoint_reference", "delete_rows", "insert_rows",
          "duplicate_rows", "mutate_cells", "drop_events", "freeze_series", "shift_sim_time",
          "distort_intervals", "schema_drift"}

FrameInv ==
    /\ world \in DOMAIN Worlds
    /\ applied \in Seq(Kinds)
    /\ phase = "running" => Framed(Source, st)

\* An operation that leaves the state framed, and counts as one of its kind.
Operated(kind) == world' = world /\ Framed(Source, st') /\ applied' = Append(applied, kind)

LEMMA PerformOperates ==
    ASSUME NEW kind, NEW n, NEW o, Perform(kind, n, o), Framed(Source, o.state)
    PROVE  Operated(kind)
BY DEF Perform, Operated

LEMMA FramedIsTable ==
    ASSUME NEW src, NEW S, Framed(src, S), NEW n \in DOMAIN S.tabs
    PROVE  IsTable(S.tabs[n])
<1>1. n \in DOMAIN src.tabs
  BY DEF Framed
<1> QED
  BY <1>1 DEF Framed, FramedTable

\* The operations on cells.
LEMMA CellsOperate ==
    ASSUME Framed(Source, st)
    PROVE  /\ NullCellsStep => Operated("null_cells")
           /\ DangleReferenceStep => Operated("dangle_reference")
           /\ MispointReferenceStep => Operated("mispoint_reference")
           /\ MutateCellsStep => Operated("mutate_cells")
<1>1. ASSUME NullCellsStep PROVE Operated("null_cells")
  <2> DEFINE cells == CellUnits(st.tabs,
                        [n \in DOMAIN st.tabs |-> {c \in ColumnsOf(st.tabs[n]) : Nullable(c)}])
  <2>1. PICK units \in Draws(cells) : \E order \in SetToSeqs(units) :
           Perform("null_cells", Cardinality(units), NullCells(st, order))
    BY <1>1 DEF NullCellsStep, T
  <2>2. PICK order \in SetToSeqs(units) :
           Perform("null_cells", Cardinality(units), NullCells(st, order))
    BY <2>1
  <2>3. units \subseteq cells
    BY DrawsWithin
  <2>4. Framed(Source, NullCells(st, order).state)
    BY <2>3, NullCellsFramed
  <2> QED
    BY <2>2, <2>4, PerformOperates
<1>2. ASSUME DangleReferenceStep PROVE Operated("dangle_reference")
  <2>1. PICK units \in Draws(ReferenceUnits(st.tabs)) :
           Perform("dangle_reference", Cardinality(units), DangleReference(st, units))
    BY <1>2 DEF DangleReferenceStep, T
  <2>2. units \subseteq ReferenceUnits(st.tabs)
    BY DrawsWithin
  <2>3. Framed(Source, DangleReference(st, units).state)
    BY <2>2, DangleReferenceFramed
  <2> QED
    BY <2>1, <2>3, PerformOperates
<1>3. ASSUME MispointReferenceStep PROVE Operated("mispoint_reference")
  <2>1. PICK constrained \in BOOLEAN :
           \E units \in Draws({u \in ReferenceUnits(T) : DonorPool(T, sc, u, constrained) # {}}) :
           \E donor \in [units -> UNION {DonorPool(T, sc, u, constrained) : u \in units}] :
              Perform("mispoint_reference", Cardinality(units),
                      MispointReference(st, sc, units, donor, constrained))
    BY <1>3 DEF MispointReferenceStep
  <2> DEFINE found == {u \in ReferenceUnits(T) : DonorPool(T, sc, u, constrained) # {}}
  <2>2. PICK units \in Draws(found) :
           \E donor \in [units -> UNION {DonorPool(T, sc, u, constrained) : u \in units}] :
              Perform("mispoint_reference", Cardinality(units),
                      MispointReference(st, sc, units, donor, constrained))
    BY <2>1
  <2>3. PICK donor \in [units -> UNION {DonorPool(T, sc, u, constrained) : u \in units}] :
           Perform("mispoint_reference", Cardinality(units),
                   MispointReference(st, sc, units, donor, constrained))
    BY <2>2
  <2>4. found \subseteq ReferenceUnits(st.tabs)
    BY DEF T
  <2> HIDE DEF found
  <2>5. units \subseteq found
    BY DrawsWithin
  <2>6. units \subseteq ReferenceUnits(st.tabs) /\ DOMAIN donor = units
    BY <2>4, <2>5
  <2>7. Framed(Source, MispointReference(st, sc, units, donor, constrained).state)
    BY <2>6, MispointReferenceFramed
  <2> QED
    BY <2>3, <2>7, PerformOperates
<1>4. ASSUME MutateCellsStep PROVE Operated("mutate_cells")
  <2> DEFINE cells == CellUnits(st.tabs, [n \in DOMAIN st.tabs |-> MutableColumns(st.tabs, n)])
  <2>1. PICK units \in Draws(cells) :
           \E value \in [units -> UNION {Transformed(u.table, u.row, u.column) : u \in units}] :
              Perform("mutate_cells", Cardinality(units), MutateCells(st, sc, units, value))
    BY <1>4 DEF MutateCellsStep, T
  <2>2. PICK value \in [units -> UNION {Transformed(u.table, u.row, u.column) : u \in units}] :
           Perform("mutate_cells", Cardinality(units), MutateCells(st, sc, units, value))
    BY <2>1
  <2>3. units \subseteq cells
    BY DrawsWithin
  <2>4. Framed(Source, MutateCells(st, sc, units, value).state)
    BY <2>3, MutateCellsFramed
  <2> QED
    BY <2>2, <2>4, PerformOperates
<1> QED
  BY <1>1, <1>2, <1>3, <1>4

\* The operations that add or take whole rows, insert_rows apart.
LEMMA RowsOperate ==
    ASSUME Framed(Source, st)
    PROVE  /\ DeleteRowsStep => Operated("delete_rows")
           /\ DuplicateExactStep => Operated("duplicate_rows")
           /\ DuplicateNearStep => Operated("duplicate_rows")
           /\ DuplicateConflictStep => Operated("duplicate_rows")
<1>1. ASSUME DeleteRowsStep PROVE Operated("delete_rows")
  <2>1. PICK units \in Draws(RowUnits(T, DOMAIN T \ {History})) :
           Perform("delete_rows", Cardinality(units), DeleteRows(st, sc, units))
    BY <1>1 DEF DeleteRowsStep
  <2>2. Framed(Source, DeleteRows(st, sc, units).state)
    BY DeleteRowsFramed
  <2> QED
    BY <2>1, <2>2, PerformOperates
<1>2. ASSUME DuplicateExactStep PROVE Operated("duplicate_rows")
  <2> DEFINE names == DOMAIN st.tabs
  <2>1. PICK units \in Draws(RowUnits(st.tabs, names)) :
           Perform("duplicate_rows", Cardinality(units), DuplicateExact(st, sc, units))
    BY <1>2 DEF DuplicateExactStep, T
  <2> HIDE DEF names
  <2>2. units \subseteq RowUnits(st.tabs, names)
    BY DrawsWithin
  <2>3. Framed(Source, DuplicateExact(st, sc, units).state)
    BY <2>2, DuplicateExactFramed
  <2> QED
    BY <2>1, <2>3, PerformOperates
<1>3. ASSUME DuplicateNearStep PROVE Operated("duplicate_rows")
  <2> DEFINE names == DOMAIN st.tabs
  <2>1. PICK u \in RowUnits(st.tabs, names) : \E c \in JitterColumns(u.table) :
           LET v == T[u.table].rows[u.row][c]
           IN  Perform("duplicate_rows", 1,
                  DuplicateChanged(st, sc, u, [x \in {c} |-> IF v = NULL THEN NULL ELSE v + 1], FALSE))
    BY <1>3 DEF DuplicateNearStep, T
  <2>2. PICK c \in JitterColumns(u.table) :
           LET v == T[u.table].rows[u.row][c]
           IN  Perform("duplicate_rows", 1,
                  DuplicateChanged(st, sc, u, [x \in {c} |-> IF v = NULL THEN NULL ELSE v + 1], FALSE))
    BY <2>1
  <2> HIDE DEF names
  <2> DEFINE v == T[u.table].rows[u.row][c]
             new == [x \in {c} |-> IF v = NULL THEN NULL ELSE v + 1]
  <2>3. Perform("duplicate_rows", 1, DuplicateChanged(st, sc, u, new, FALSE)) /\ DOMAIN new = {c}
    BY <2>2
  <2>4. c[1] \in {"prop", "elem"}
    BY DEF JitterColumns, JitterColumn
  <2>5. c \notin FrameColumns(st.tabs[u.table])
    BY <2>4, FrameNames
  <2> HIDE DEF new
  <2>6. \A x \in DOMAIN new : x \notin FrameColumns(st.tabs[u.table])
    BY <2>3, <2>5
  <2>7. Framed(Source, DuplicateChanged(st, sc, u, new, FALSE).state)
    BY <2>6, DuplicateChangedFramed
  <2> QED
    BY <2>3, <2>7, PerformOperates
<1>4. ASSUME DuplicateConflictStep PROVE Operated("duplicate_rows")
  <2> DEFINE names == DOMAIN st.tabs \ {History}
  <2>1. PICK u \in RowUnits(st.tabs, names) : \E c \in MutableColumns(st.tabs, u.table) :
           \E v \in Transformed(u.table, u.row, c) :
              Perform("duplicate_rows", 1, DuplicateChanged(st, sc, u, [x \in {c} |-> v], TRUE))
    BY <1>4 DEF DuplicateConflictStep, T
  <2>2. PICK c \in MutableColumns(st.tabs, u.table) : \E v \in Transformed(u.table, u.row, c) :
           Perform("duplicate_rows", 1, DuplicateChanged(st, sc, u, [x \in {c} |-> v], TRUE))
    BY <2>1
  <2>3. PICK v \in Transformed(u.table, u.row, c) :
           Perform("duplicate_rows", 1, DuplicateChanged(st, sc, u, [x \in {c} |-> v], TRUE))
    BY <2>2
  <2>4. u.table \in DOMAIN st.tabs
    BY RowUnitRow
  <2> HIDE DEF names
  <2> DEFINE new == [x \in {c} |-> v]
  <2>5. Perform("duplicate_rows", 1, DuplicateChanged(st, sc, u, new, TRUE)) /\ DOMAIN new = {c}
    BY <2>3
  <2>6. c \notin FrameColumns(st.tabs[u.table])
    BY <2>4, FramedIsTable, MutableOutsideFrame
  <2> HIDE DEF new
  <2>7. \A x \in DOMAIN new : x \notin FrameColumns(st.tabs[u.table])
    BY <2>5, <2>6
  <2>8. Framed(Source, DuplicateChanged(st, sc, u, new, TRUE).state)
    BY <2>7, DuplicateChangedFramed
  <2> QED
    BY <2>5, <2>8, PerformOperates
<1> QED
  BY <1>1, <1>2, <1>3, <1>4

\* The operations on history and on membership intervals, and the drift.
LEMMA TablesOperate ==
    ASSUME Framed(Source, st)
    PROVE  /\ DropEventsStep => Operated("drop_events")
           /\ FreezeSeriesStep => Operated("freeze_series")
           /\ ShiftOffsetStep \/ ShiftCollideStep \/ ShiftSwapStep => Operated("shift_sim_time")
           /\ DistortIntervalsStep => Operated("distort_intervals")
           /\ SchemaDriftStep => Operated("schema_drift")
<1>1. ASSUME DropEventsStep PROVE Operated("drop_events")
  <2>1. PICK gone : Perform("drop_events", Cardinality(gone), DropEvents(st, sc, gone))
    BY <1>1 DEF DropEventsStep
  <2> QED
    BY <2>1, DropEventsFramed, PerformOperates
<1>2. ASSUME FreezeSeriesStep PROVE Operated("freeze_series")
  <2>1. PICK series : \E cut : Perform("freeze_series", Cardinality(series), FreezeSeries(st, sc, cut))
    BY <1>2 DEF FreezeSeriesStep
  <2>2. PICK cut : Perform("freeze_series", Cardinality(series), FreezeSeries(st, sc, cut))
    BY <2>1
  <2> QED
    BY <2>2, FreezeSeriesFramed, PerformOperates
<1>3. ASSUME NEW n, NEW to, NEW class, Perform("shift_sim_time", n, ShiftSimTime(st, sc, to, class))
      PROVE  Operated("shift_sim_time")
  BY <1>3, ShiftSimTimeFramed, PerformOperates
<1>4. ASSUME ShiftOffsetStep PROVE Operated("shift_sim_time")
  BY <1>3, <1>4 DEF ShiftOffsetStep
<1>5. ASSUME ShiftCollideStep PROVE Operated("shift_sim_time")
  BY <1>3, <1>5 DEF ShiftCollideStep
<1>6. ASSUME ShiftSwapStep PROVE Operated("shift_sim_time")
  BY <1>3, <1>6 DEF ShiftSwapStep
<1>7. ASSUME DistortIntervalsStep PROVE Operated("distort_intervals")
  <2> DEFINE names == {n \in DOMAIN st.tabs : st.tabs[n].category = "membership"}
             drawable(mode) == {u \in RowUnits(st.tabs, names) : Distortable(st.tabs, sc, mode, u)}
  <2>1. PICK mode \in {"overlap", "gap", "left_before_join"} : \E units \in Draws(drawable(mode)) :
           Perform("distort_intervals", Cardinality(units), DistortIntervals(st, sc, mode, units))
    BY <1>7 DEF DistortIntervalsStep, T
  <2>2. PICK units \in Draws(drawable(mode)) :
           Perform("distort_intervals", Cardinality(units), DistortIntervals(st, sc, mode, units))
    BY <2>1
  <2>3. \A u \in drawable(mode) : u \in RowUnits(st.tabs, names)
    OBVIOUS
  <2>4. \A n \in names : st.tabs[n].category = "membership"
    OBVIOUS
  <2> HIDE DEF names, drawable
  <2>5. units \subseteq drawable(mode)
    BY DrawsWithin
  <2>6. \A u \in units : st.tabs[u.table].category = "membership"
    BY <2>3, <2>4, <2>5, RowUnitRow
  <2>7. Framed(Source, DistortIntervals(st, sc, mode, units).state)
    BY <2>6, DistortIntervalsFramed
  <2> QED
    BY <2>2, <2>7, PerformOperates
<1>8. ASSUME SchemaDriftStep PROVE Operated("schema_drift")
  <2>1. PICK n \in DOMAIN st.tabs : \E drift \in Drifts(n) :
           DriftValid(st.tabs, sc, n, drift) /\ Perform("schema_drift", 1, SchemaDrift(st, n, drift))
    BY <1>8 DEF SchemaDriftStep, T
  <2>2. PICK drift \in Drifts(n) :
           DriftValid(st.tabs, sc, n, drift) /\ Perform("schema_drift", 1, SchemaDrift(st, n, drift))
    BY <2>1
  <2>3. Framed(Source, SchemaDrift(st, n, drift).state)
    BY <2>2, SchemaDriftFramed
  <2> QED
    BY <2>2, <2>3, PerformOperates
<1> QED
  BY <1>1, <1>2, <1>4, <1>5, <1>6, <1>7, <1>8

\* What a phantom is not: a record there is, or was in the source.
PhantomsNew ==
    \A n \in RecordTables : \A r \in Range(st'.tabs[n].rows) \ Range(T[n].rows) :
       \A q \in Range(T[n].rows) \cup Range(Source.tabs[n].rows) :
          r[RecordId] # q[RecordId] /\ r[RecordIndex] # q[RecordIndex]

\* insert_rows keeps the frame, and what it inserts is new.
LEMMA InsertOperates ==
    ASSUME Framed(Source, st), InsertRowsStep
    PROVE  Operated("insert_rows") /\ PhantomsNew
<1> DEFINE names == {n \in DOMAIN st.tabs : st.tabs[n].category = "records"}
<1>1. PICK u \in RowUnits(st.tabs, names) :
         \E cols \in {{}} \cup kSubset(1, MutableColumns(st.tabs, u.table)) :
         \E resample \in [cols -> UNION {Donors(T, u.table, u.row, c) : c \in cols}] :
         \E id \in Ids \ IdUniverse(st, sc, st.tabs[u.table].kind) :
            Perform("insert_rows", 1, InsertRow(st, sc, u, id, resample))
  BY DEF InsertRowsStep, RecordTables, T
<1>2. PICK cols \in {{}} \cup kSubset(1, MutableColumns(st.tabs, u.table)) :
         \E resample \in [cols -> UNION {Donors(T, u.table, u.row, c) : c \in cols}] :
         \E id \in Ids \ IdUniverse(st, sc, st.tabs[u.table].kind) :
            Perform("insert_rows", 1, InsertRow(st, sc, u, id, resample))
  BY <1>1
<1>3. PICK resample \in [cols -> UNION {Donors(T, u.table, u.row, c) : c \in cols}] :
         \E id \in Ids \ IdUniverse(st, sc, st.tabs[u.table].kind) :
            Perform("insert_rows", 1, InsertRow(st, sc, u, id, resample))
  BY <1>2
<1>4. PICK id \in Ids \ IdUniverse(st, sc, st.tabs[u.table].kind) :
         Perform("insert_rows", 1, InsertRow(st, sc, u, id, resample))
  BY <1>3
<1>5. \A n \in names : n \in DOMAIN st.tabs /\ st.tabs[n].category = "records"
  OBVIOUS
<1>6. DOMAIN resample = cols /\ \A c \in cols : c \in MutableColumns(st.tabs, u.table)
  BY DEF kSubset
<1>7. RecordTables = names
  BY DEF RecordTables, T
<1> HIDE DEF names
<1>8. u.table \in DOMAIN st.tabs /\ st.tabs[u.table].category = "records"
  BY <1>5, RowUnitRow
<1>9. IsTable(st.tabs[u.table])
  BY <1>8, FramedIsTable
<1>10. \A c \in DOMAIN resample : c \notin FrameColumns(st.tabs[u.table])
  BY <1>6, <1>8, <1>9, MutableOutsideFrame
<1>11. id \notin IdUniverse(st, sc, st.tabs[u.table].kind)
  OBVIOUS
<1>12. Framed(Source, InsertRow(st, sc, u, id, resample).state)
  BY <1>8, <1>10, InsertRowFramed
<1>13. st' = InsertRow(st, sc, u, id, resample).state
  BY <1>4 DEF Perform
<1>14. Unseen(Source, st, InsertRow(st, sc, u, id, resample).state)
  BY <1>8, <1>10, <1>11, InsertRowNew
<1>15. Unseen(Source, st, st')
  BY <1>13, <1>14
<1>16. PhantomsNew
  BY <1>5, <1>7, <1>15 DEF PhantomsNew, Unseen, T
<1> QED
  BY <1>4, <1>12, <1>16, PerformOperates

\* The kind applied last is the last of the kinds applied.
LEMMA LastApplied ==
    ASSUME NEW s \in Seq(Kinds), NEW x \in Kinds
    PROVE  Append(s, x) \in Seq(Kinds) /\ Last(Append(s, x)) = x
<1>1. /\ Append(s, x) \in Seq(Kinds) /\ Len(Append(s, x)) = Len(s) + 1
      /\ Append(s, x)[Len(s) + 1] = x
  BY AppendProperties
<1> QED
  BY <1>1 DEF Last

\* The state after an operation of some kind.
LEMMA OperatedFacts ==
    ASSUME applied \in Seq(Kinds), NEW kind \in Kinds, Operated(kind)
    PROVE  /\ world' = world /\ Framed(Source, st')
           /\ applied' \in Seq(Kinds) /\ Last(applied') = kind
BY LastApplied DEF Operated

\* Every operation keeps the frame, and only insert_rows counts as one.
LEMMA OperationOperates ==
    ASSUME FrameInv, phase = "running", Operation
    PROVE  /\ world' = world /\ Framed(Source, st') /\ applied' \in Seq(Kinds)
           /\ Last(applied') = "insert_rows" => PhantomsNew
<1>0. Framed(Source, st) /\ applied \in Seq(Kinds)
  BY DEF FrameInv
<1>1. CASE NullCellsStep
  <2>1. Operated("null_cells") /\ "null_cells" \in Kinds
    BY <1>0, <1>1, CellsOperate DEF Kinds
  <2> QED
    BY <1>0, <2>1, OperatedFacts
<1>2. CASE DangleReferenceStep
  <2>1. Operated("dangle_reference") /\ "dangle_reference" \in Kinds
    BY <1>0, <1>2, CellsOperate DEF Kinds
  <2> QED
    BY <1>0, <2>1, OperatedFacts
<1>3. CASE MispointReferenceStep
  <2>1. Operated("mispoint_reference") /\ "mispoint_reference" \in Kinds
    BY <1>0, <1>3, CellsOperate DEF Kinds
  <2> QED
    BY <1>0, <2>1, OperatedFacts
<1>4. CASE MutateCellsStep
  <2>1. Operated("mutate_cells") /\ "mutate_cells" \in Kinds
    BY <1>0, <1>4, CellsOperate DEF Kinds
  <2> QED
    BY <1>0, <2>1, OperatedFacts
<1>5. CASE DeleteRowsStep
  <2>1. Operated("delete_rows") /\ "delete_rows" \in Kinds
    BY <1>0, <1>5, RowsOperate DEF Kinds
  <2> QED
    BY <1>0, <2>1, OperatedFacts
<1>6. CASE DuplicateExactStep
  <2>1. Operated("duplicate_rows") /\ "duplicate_rows" \in Kinds
    BY <1>0, <1>6, RowsOperate DEF Kinds
  <2> QED
    BY <1>0, <2>1, OperatedFacts
<1>7. CASE DuplicateNearStep
  <2>1. Operated("duplicate_rows") /\ "duplicate_rows" \in Kinds
    BY <1>0, <1>7, RowsOperate DEF Kinds
  <2> QED
    BY <1>0, <2>1, OperatedFacts
<1>8. CASE DuplicateConflictStep
  <2>1. Operated("duplicate_rows") /\ "duplicate_rows" \in Kinds
    BY <1>0, <1>8, RowsOperate DEF Kinds
  <2> QED
    BY <1>0, <2>1, OperatedFacts
<1>9. CASE DropEventsStep
  <2>1. Operated("drop_events") /\ "drop_events" \in Kinds
    BY <1>0, <1>9, TablesOperate DEF Kinds
  <2> QED
    BY <1>0, <2>1, OperatedFacts
<1>10. CASE FreezeSeriesStep
  <2>1. Operated("freeze_series") /\ "freeze_series" \in Kinds
    BY <1>0, <1>10, TablesOperate DEF Kinds
  <2> QED
    BY <1>0, <2>1, OperatedFacts
<1>11. CASE ShiftOffsetStep
  <2>1. Operated("shift_sim_time") /\ "shift_sim_time" \in Kinds
    BY <1>0, <1>11, TablesOperate DEF Kinds
  <2> QED
    BY <1>0, <2>1, OperatedFacts
<1>12. CASE ShiftCollideStep
  <2>1. Operated("shift_sim_time") /\ "shift_sim_time" \in Kinds
    BY <1>0, <1>12, TablesOperate DEF Kinds
  <2> QED
    BY <1>0, <2>1, OperatedFacts
<1>13. CASE ShiftSwapStep
  <2>1. Operated("shift_sim_time") /\ "shift_sim_time" \in Kinds
    BY <1>0, <1>13, TablesOperate DEF Kinds
  <2> QED
    BY <1>0, <2>1, OperatedFacts
<1>14. CASE DistortIntervalsStep
  <2>1. Operated("distort_intervals") /\ "distort_intervals" \in Kinds
    BY <1>0, <1>14, TablesOperate DEF Kinds
  <2> QED
    BY <1>0, <2>1, OperatedFacts
<1>15. CASE SchemaDriftStep
  <2>1. Operated("schema_drift") /\ "schema_drift" \in Kinds
    BY <1>0, <1>15, TablesOperate DEF Kinds
  <2> QED
    BY <1>0, <2>1, OperatedFacts
<1>16. CASE InsertRowsStep
  <2>1. Operated("insert_rows") /\ "insert_rows" \in Kinds
    BY <1>0, <1>16, InsertOperates DEF Kinds
  <2> QED
    BY <1>0, <1>16, <2>1, OperatedFacts, InsertOperates
<1> QED
  BY <1>1, <1>2, <1>3, <1>4, <1>5, <1>6, <1>7, <1>8,
     <1>9, <1>10, <1>11, <1>12, <1>13, <1>14, <1>15, <1>16 DEF Operation

LEMMA InitFrame == Init => FrameInv
BY EmptySeq DEF Init, FrameInv

\* The frame stays through the operations, and a phantom is new when it is inserted.
LEMMA StepFrame ==
    ASSUME FrameInv, [Next]_vars
    PROVE  /\ FrameInv'
           /\ Len(applied') > Len(applied) /\ Last(applied') = "insert_rows" => PhantomsNew
<1>0. Len(applied) \in Nat /\ world \in DOMAIN Worlds /\ applied \in Seq(Kinds)
  BY DEF FrameInv
<1>1. CASE Begin
  <2>1. Conformant(Emitted(Source.tabs, Source.sidecar))
    BY <1>1 DEF Begin, Acceptable, sc
  <2>2. Framed(Source, Loaded(Source))
    BY <1>0, <2>1, LoadedFramed DEF Source
  <2>3. world' = world /\ applied' = applied /\ st' = Loaded(Source)
    BY <1>1 DEF Begin
  <2> QED
    BY <1>0, <2>2, <2>3 DEF FrameInv, Source
<1>2. CASE phase = "running" /\ Operation
  <2>1. /\ world' = world /\ Framed(Source, st') /\ applied' \in Seq(Kinds)
        /\ Last(applied') = "insert_rows" => PhantomsNew
    BY <1>2, OperationOperates
  <2>2. FrameInv'
    BY <1>0, <2>1 DEF FrameInv, Source
  <2> QED
    BY <2>1, <2>2
<1>3. CASE Again
  <2>1. world' = world /\ applied' = <<>> /\ phase' = "idle"
    BY <1>3 DEF Again, Fresh
  <2> QED
    BY <1>0, <2>1 DEF FrameInv
<1>4. CASE Refuse \/ OpenDatabase \/ CloseDatabase \/ WriteSidecar \/ WriteManifest \/ WriteFails
  <2>1. world' = world /\ applied' = applied /\ phase' # "running"
    BY <1>4 DEF Refuse, OpenDatabase, CloseDatabase, WriteSidecar, WriteManifest, WriteFails
  <2> QED
    BY <1>0, <2>1 DEF FrameInv
<1>5. CASE UNCHANGED vars
  BY <1>0, <1>5 DEF FrameInv, vars, Source
<1> QED
  BY <1>1, <1>2, <1>3, <1>4, <1>5 DEF Next

\* What a framed state would write passes the structural checks.
LEMMA FramedKeepsStructure == FrameInv => StructureKept
<1> SUFFICES ASSUME FrameInv, Mutating
             PROVE  Broken \cap {"C1", "C2", "C3", "C4", "C5", "C8", "C15"} = {}
  BY DEF StructureKept
<1>1. Framed(Source, st)
  BY DEF FrameInv, Mutating
<1>2. \E n \in DOMAIN st.tabs : st.tabs[n].rows # <<>>
  BY DEF Mutating, Erased, T
<1>3. Failing(Emitted(st.tabs, Source.sidecar))
        \cap {"C1", "C2", "C3", "C4", "C5", "C8", "C15"} = {}
  BY <1>1, <1>2, FramedPasses
<1> QED
  BY <1>3 DEF Broken, T, sc

\* Structural preservation (docs/architecture/corrupters.md): whatever operations
\* a run lists, in whatever order and over whatever emit it accepts, what it
\* writes passes the catalog, layout, branch and surface checks, and the phantom
\* of an insert_rows has neither the id nor the record_index of a record there is
\* or ever was (corrupters/engine.py, corrupt_emit; corrupters/operations/).
THEOREM FrameStands == Spec => FrameKept
<1>1. FrameInv /\ [Next]_vars =>
         [Len(applied') > Len(applied) /\ Last(applied') = "insert_rows" =>
            \A n \in RecordTables : \A r \in Range(st'.tabs[n].rows) \ Range(T[n].rows) :
               \A q \in Range(T[n].rows) \cup Range(Source.tabs[n].rows) :
                  r[RecordId] # q[RecordId] /\ r[RecordIndex] # q[RecordIndex]]_vars
  BY StepFrame DEF PhantomsNew
<1>2. FrameInv /\ [Next]_vars => FrameInv'
  BY StepFrame
<1> QED
  BY <1>1, <1>2, InitFrame, FramedKeepsStructure, PTL DEF Spec, FrameKept, PhantomsAreNew

=============================================================================
