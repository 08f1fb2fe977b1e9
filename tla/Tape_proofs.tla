----------------------------- MODULE Tape_proofs -----------------------------
(***************************************************************************)
(* The producer keeps what a reader relies on (IsTape), the derivations of *)
(* such a tape agree with each other at every instant, what an accepted    *)
(* plan of the source exporter elects to name records is a key, and the    *)
(* truncated tape is the tape of the past.                                 *)
(*                                                                         *)
(* First the tape as data: what truncation keeps of each table, what a     *)
(* value as of an instant is, and each fold cut at an instant.  Then the   *)
(* steps that write it, the exporter's identities and references, and last *)
(* what a tape tells of its own past and how it grows.                     *)
(***************************************************************************)
EXTENDS SourceExport, Rows_proofs

---------------------------------------------------------------------------
(* Tables, columns and rows of a tape.                                     *)

LEMMA SpecFacts ==
    ASSUME NEW e, TablesNamed(e)
    PROVE  /\ \A s \in e.specs : s.name \in Tables(e) /\ SpecFor(e, s.name) = s
           /\ \A n \in Tables(e) : SpecFor(e, n) \in e.specs /\ SpecFor(e, n).name = n
<1>1. ASSUME NEW n \in Tables(e) PROVE \E s \in e.specs : s.name = n
  BY DEF TablesNamed
<1>2. \A n \in Tables(e) : SpecFor(e, n) \in e.specs /\ SpecFor(e, n).name = n
  BY <1>1 DEF SpecFor
<1>3. \A s \in e.specs : s.name \in Tables(e)
  BY DEF TablesNamed
<1> QED
  BY <1>2, <1>3 DEF TablesNamed


\* A column is known by its name, in the sidecar and in the catalog.
LEMMA ColumnFacts ==
    ASSUME NEW e, TablesNamed(e), NEW s \in e.specs, ColumnsNamed(e, s)
    PROVE  /\ ColumnNames(e, s.name) = {c.name : c \in Range(s.cols)}
           /\ \A c \in Range(s.cols) : ColumnFor(e, s.name, c.name) = c
           /\ \A x \in ColumnNames(e, s.name) :
                 ColumnFor(e, s.name, x) \in Range(s.cols) /\ ColumnFor(e, s.name, x).name = x
<1> DEFINE cols == s.cols
           shape == Shape(cols)
<1>1. cols \in Seq(Range(cols)) /\ \A i, j \in DOMAIN cols : cols[i].name = cols[j].name => i = j
  BY DEF ColumnsNamed
<1>2. SpecFor(e, s.name) = s
  BY SpecFacts
<1>3. e.cat[s.name].cols = shape
  BY DEF ColumnsNamed
<1>4. DOMAIN shape = DOMAIN cols /\ \A i \in DOMAIN cols : shape[i].name = cols[i].name
  BY DEF Shape
<1> HIDE DEF cols, shape
<1>5. \A i, j \in DOMAIN cols : cols[i].name = cols[j].name => cols[i] = cols[j]
  BY <1>1
<1>6. \A c, d \in Range(cols) : c.name = d.name => c = d
  BY <1>5 DEF Range
<1>7. {c.name : c \in Range(shape)} = {c.name : c \in Range(cols)}
  BY <1>4 DEF Range
<1>8. ColumnNames(e, s.name) = {c.name : c \in Range(cols)}
  BY <1>3, <1>7 DEF ColumnNames
<1>9. \A x : ColumnFor(e, s.name, x) = CHOOSE d \in Range(cols) : d.name = x
  BY <1>2 DEF ColumnFor, cols
<1>10. \A x \in ColumnNames(e, s.name) :
          ColumnFor(e, s.name, x) \in Range(cols) /\ ColumnFor(e, s.name, x).name = x
  BY <1>8, <1>9
<1>11. \A c \in Range(cols) : ColumnFor(e, s.name, c.name) = c
  BY <1>6, <1>8, <1>10
<1> QED
  BY <1>8, <1>10, <1>11 DEF cols

LEMMA CategoryFacts ==
    ASSUME NEW e, TablesNamed(e)
    PROVE  /\ History \in Tables(e) /\ SpecFor(e, History).category = "fixed"
           /\ MemberTable \in Tables(e) /\ SpecFor(e, MemberTable).category = "membership"
           /\ \A k \in Kinds : /\ RecordsOf(k) \in Tables(e)
                               /\ RecordsOf(k) # History /\ RecordsOf(k) # MemberTable
                               /\ SpecFor(e, RecordsOf(k)).category = "records"
                               /\ SpecFor(e, RecordsOf(k)).kind = k
<1>1. \A n \in Tables(e) : SpecFor(e, n) \in e.specs /\ SpecFor(e, n).name = n
  BY SpecFacts
<1>2. Tables(e) = {RecordsOf(k) : k \in Kinds} \cup {History, MemberTable}
  BY DEF TablesNamed
<1>3. \A s \in e.specs :
         /\ s.category = IF s.name = History THEN "fixed"
                         ELSE IF s.name = MemberTable THEN "membership" ELSE "records"
         /\ s.category = "records" => s.name = RecordsOf(s.kind)
  BY DEF TablesNamed
<1>4. MemberTable # History /\ \A k : RecordsOf(k) # History /\ RecordsOf(k) # MemberTable
  BY TapeAssumption DEF Membership, History, RecordsOf
<1>5. \A k, l : RecordsOf(k) = RecordsOf(l) => k = l
  BY DEF RecordsOf
<1> QED
  BY <1>1, <1>2, <1>3, <1>4, <1>5

\* Every row is a row of the trunk.
LEMMA TrunkFacts ==
    ASSUME NEW e, NEW n, RowsShaped(e, n)
    PROVE  /\ TrunkRows(e, n) = TableRows(e, n)
           /\ TableRows(e, n) = {e.cat[n].rows[i] : i \in DOMAIN e.cat[n].rows}
           /\ \A i \in DOMAIN e.cat[n].rows : e.cat[n].rows[i][Fork] = Trunk(e)
           /\ Len(e.cat[n].rows) \in Nat /\ DOMAIN e.cat[n].rows = 1 .. Len(e.cat[n].rows)
<1> DEFINE rows == e.cat[n].rows
<1>1. rows \in Seq(Range(rows)) /\ \A r \in Range(rows) : r[Fork] = Trunk(e)
  BY DEF RowsShaped
<1>2. TableRows(e, n) = Range(rows)
  BY DEF TableRows
<1> HIDE DEF rows
<1>3. Len(rows) \in Nat /\ DOMAIN rows = 1 .. Len(rows)
  BY <1>1
<1>4. Range(rows) = {rows[i] : i \in DOMAIN rows}
  BY DEF Range
<1>5. TrunkRows(e, n) = Range(rows)
  BY <1>1, <1>2 DEF TrunkRows
<1> QED
  BY <1>1, <1>2, <1>3, <1>4, <1>5 DEF rows

---------------------------------------------------------------------------
(* The truncated tape, table by table.                                     *)

LEMMA UntilFacts ==
    ASSUME NEW e, NEW n, RowsShaped(e, n), NEW time, NEW at
    PROVE  /\ Until(e, n, time, at) \in Seq(Range(Until(e, n, time, at)))
           /\ Range(Until(e, n, time, at)) = {r \in TableRows(e, n) : r[time] <= at}
<1> DEFINE rows == e.cat[n].rows
           S == {i \in DOMAIN rows : rows[i][Fork] = Trunk(e) /\ rows[i][time] <= at}
<1>1. rows \in Seq(Range(rows)) /\ \A i \in DOMAIN rows : rows[i][Fork] = Trunk(e)
  BY TrunkFacts DEF RowsShaped
<1>2. Until(e, n, time, at) = Only(rows, S)
  BY DEF Until
<1>3. TableRows(e, n) = {rows[i] : i \in DOMAIN rows}
  BY TrunkFacts
<1>4. {rows[i] : i \in S} = {r \in TableRows(e, n) : r[time] <= at}
  BY <1>1, <1>3
<1>5. S \in SUBSET DOMAIN rows
  OBVIOUS
<1> HIDE DEF rows, S
<1>6. Only(rows, S) \in Seq(Range(Only(rows, S))) /\ Range(Only(rows, S)) = {rows[i] : i \in S}
  BY <1>1, <1>5, OnlyFacts
<1> QED
  BY <1>2, <1>4, <1>6

\* The columns that are left, each where it was among the others.
LEMMA KeptColumns ==
    ASSUME NEW e, TablesNamed(e), NEW s \in e.specs, ColumnsNamed(e, s)
    PROVE  LET cols == TruncatedColumns(e, s) IN
           /\ cols \in Seq(Range(cols))
           /\ \A i, j \in DOMAIN cols : cols[i].name = cols[j].name => i = j
           /\ Range(cols) = {c \in Range(s.cols) :
                                s.category = "records" => ~NonExemptSliceOnly(e, s.kind, c.name)}
<1> DEFINE all == s.cols
           S   == {i \in DOMAIN all : ~NonExemptSliceOnly(e, s.kind, all[i].name)}
           A   == Ascending(S)
           cols == Only(all, S)
<1>1. all \in Seq(Range(all)) /\ \A i, j \in DOMAIN all : all[i].name = all[j].name => i = j
  BY DEF ColumnsNamed
<1>2. CASE s.category # "records"
  BY <1>1, <1>2 DEF TruncatedColumns
<1>3. CASE s.category = "records"
  <2>1. TruncatedColumns(e, s) = cols
    BY <1>3 DEF TruncatedColumns
  <2>2. S \in SUBSET DOMAIN all
    OBVIOUS
  <2>3. {all[i] : i \in S} = {c \in Range(all) : ~NonExemptSliceOnly(e, s.kind, c.name)}
    BY DEF Range
  <2>4. Len(all) \in Nat /\ DOMAIN all = 1 .. Len(all)
    BY <1>1
  <2> HIDE DEF all, S
  <2>5. /\ Cardinality(S) \in Nat /\ DOMAIN cols = 1 .. Cardinality(S)
        /\ \A i \in 1 .. Cardinality(S) : A[i] \in S /\ cols[i] = all[A[i]]
        /\ cols \in Seq(Range(cols)) /\ Range(cols) = {all[i] : i \in S}
    BY <1>1, <2>2, OnlyFacts
  <2>6. \A i, j \in 1 .. Cardinality(S) : i < j => A[i] < A[j]
    BY <2>2, <2>4, AscendingFacts
  <2>7. \A i \in 1 .. Cardinality(S) : A[i] \in DOMAIN all /\ A[i] \in Int
    BY <2>2, <2>4, <2>5
  <2> HIDE DEF A, cols
  <2>8. \A i, j \in 1 .. Cardinality(S) : A[i] = A[j] => i = j
    BY <2>5, <2>6, <2>7
  <2>9. \A i, j \in DOMAIN cols : cols[i].name = cols[j].name => i = j
    BY SMTT(20), <1>1, <2>5, <2>7, <2>8
  <2> QED
    BY <1>3, <2>1, <2>3, <2>5, <2>9 DEF all
<1> QED
  BY <1>2, <1>3

\* The truncated tape names the same tables, with the columns that are left.
LEMMA CutFacts ==
    ASSUME NEW e, TablesNamed(e), \A s \in e.specs : ColumnsNamed(e, s), NEW at
    PROVE  LET cut == Truncated(e, at) IN
           /\ cut.branches = e.branches /\ cut.enums = e.enums
           /\ Trunk(cut) = Trunk(e) /\ \A k : SubTypes(cut, k) = SubTypes(e, k)
           /\ TablesNamed(cut) /\ Tables(cut) = Tables(e)
           /\ \A s \in cut.specs : ColumnsNamed(cut, s)
           /\ \A n \in Tables(e) :
                 /\ SpecFor(cut, n) = [SpecFor(e, n) EXCEPT !.cols = TruncatedColumns(e, SpecFor(e, n))]
                 /\ cut.cat[n].rows = TruncatedRows(e, SpecFor(e, n), at)
<1> DEFINE cut == Truncated(e, at)
           short(s) == [s EXCEPT !.cols = TruncatedColumns(e, s)]
           cat == [n \in Tables(e) |-> [cols |-> Shape(TruncatedColumns(e, SpecFor(e, n))),
                                        rows |-> TruncatedRows(e, SpecFor(e, n), at)]]
<1>1. {"cat", "specs", "branches", "enums"} \subseteq DOMAIN e
  BY DEF TablesNamed
<1>2. /\ cut.branches = e.branches /\ cut.enums = e.enums
      /\ cut.cat = cat /\ cut.specs = {short(s) : s \in e.specs}
      /\ {"cat", "specs", "branches", "enums"} \subseteq DOMAIN cut
  BY <1>1 DEF Truncated, TruncatedSidecar
<1>3. Trunk(cut) = Trunk(e) /\ \A k : SubTypes(cut, k) = SubTypes(e, k)
  BY <1>2 DEF Trunk, SubTypes
<1>4. Tables(cut) = Tables(e)
  BY <1>2 DEF Tables
<1>5. \A s \in e.specs : /\ short(s).name = s.name /\ short(s).category = s.category
                         /\ short(s).kind = s.kind /\ short(s).cols = TruncatedColumns(e, s)
                         /\ {"name", "category", "kind", "cols", "rows"} \subseteq DOMAIN short(s)
  BY DEF TablesNamed
<1> HIDE DEF short, cut, cat
<1>6. {s.name : s \in cut.specs} = {s.name : s \in e.specs}
  BY <1>2, <1>5
<1>7. \A s, u \in cut.specs : s.name = u.name => s = u
  <2>1. \A s, u \in e.specs : s.name = u.name => s = u
    BY DEF TablesNamed
  <2> QED
    BY <1>2, <1>5, <2>1
<1>8. \A s \in cut.specs :
          /\ {"name", "category", "kind", "cols", "rows"} \subseteq DOMAIN s
          /\ s.category = IF s.name = History THEN "fixed"
                          ELSE IF s.name = MemberTable THEN "membership" ELSE "records"
          /\ s.category = "records" => s.name = RecordsOf(s.kind)
  <2>1. ASSUME NEW u \in e.specs
        PROVE  /\ {"name", "category", "kind", "cols", "rows"} \subseteq DOMAIN short(u)
               /\ short(u).category = IF short(u).name = History THEN "fixed"
                          ELSE IF short(u).name = MemberTable THEN "membership" ELSE "records"
               /\ short(u).category = "records" => short(u).name = RecordsOf(short(u).kind)
    <3>1. /\ u.category = IF u.name = History THEN "fixed"
                          ELSE IF u.name = MemberTable THEN "membership" ELSE "records"
          /\ u.category = "records" => u.name = RecordsOf(u.kind)
      BY DEF TablesNamed
    <3> QED
      BY <1>5, <3>1
  <2> QED
    BY <1>2, <2>1
<1>9. TablesNamed(cut)
  <2>1. /\ Tables(e) = {RecordsOf(k) : k \in Kinds} \cup {History, MemberTable}
        /\ {s.name : s \in e.specs} = Tables(e)
    BY DEF TablesNamed
  <2> QED
    BY <1>2, <1>4, <1>6, <1>7, <1>8, <2>1 DEF TablesNamed
<1>10. ASSUME NEW s \in e.specs PROVE ColumnsNamed(cut, short(s))
  <2> DEFINE cols == TruncatedColumns(e, s)
  <2>1. /\ cols \in Seq(Range(cols))
        /\ \A i, j \in DOMAIN cols : cols[i].name = cols[j].name => i = j
        /\ Range(cols) \subseteq Range(s.cols)
    BY KeptColumns
  <2>2. s.name \in Tables(e) /\ SpecFor(e, s.name) = s
    BY SpecFacts
  <2>3. cut.cat[s.name] = [cols |-> Shape(cols), rows |-> TruncatedRows(e, s, at)]
    BY <1>2, <2>2 DEF cat
  <2>4. PropColumns(short(s)) \subseteq PropColumns(s)
    BY <1>5, <2>1 DEF PropColumns
  <2>5. \A c \in PropColumns(s) : c.name = PropOf(c.name[2]) /\ TemporalClassAgrees(c)
    BY DEF ColumnsNamed
  <2>6. short(s).cols = cols /\ short(s).name = s.name
    BY <1>5
  <2> HIDE DEF cols
  <2> QED
    BY <2>1, <2>3, <2>4, <2>5, <2>6 DEF ColumnsNamed
<1>11. ASSUME NEW n \in Tables(e)
       PROVE  SpecFor(cut, n) = short(SpecFor(e, n)) /\ cut.cat[n].rows = TruncatedRows(e, SpecFor(e, n), at)
  <2>1. SpecFor(e, n) \in e.specs /\ SpecFor(e, n).name = n
    BY SpecFacts
  <2>2. short(SpecFor(e, n)) \in cut.specs /\ short(SpecFor(e, n)).name = n
    BY <1>2, <1>5, <2>1
  <2>3. SpecFor(cut, n) = short(SpecFor(e, n))
    BY <1>9, <2>2, SpecFacts
  <2>4. cut.cat[n].rows = TruncatedRows(e, SpecFor(e, n), at)
    BY <1>2 DEF cat
  <2> QED
    BY <2>3, <2>4
<1>12. \A s \in cut.specs : ColumnsNamed(cut, s)
  BY <1>2, <1>10
<1> QED
  BY <1>2, <1>3, <1>4, <1>9, <1>11, <1>12 DEF short, cut

---------------------------------------------------------------------------
(* Values as of an instant.                                                *)

LEMMA NullFacts == NULL \notin Int
BY TapeAssumption

\* Of finitely many instants there is a last one.
LEMMA GreatestFacts ==
    ASSUME NEW at \in Nat, NEW T \in SUBSET (0 .. at)
    PROVE  /\ T = {} => Greatest(T) = NULL
           /\ T # {} => Greatest(T) \in T /\ \A u \in T : u <= Greatest(T)
<1>0. \A u \in T : u \in Int /\ 0 <= u /\ u <= at
  OBVIOUS
<1>1. T \ {NULL} = T
  BY <1>0, NullFacts
<1>2. CASE T = {}
  BY <1>1, <1>2 DEF Greatest
<1>3. CASE T # {}
  <2> DEFINE D == {at - u : u \in T}
  <2>0. \A u \in T : at - u \in Nat
    BY <1>0
  <2>1. D \in SUBSET Nat /\ D # {}
    BY <1>3, <2>0
  <2>2. PICK d \in D : \A x \in D : d <= x
    <3> HIDE DEF D
    <3> QED
      BY <2>1, LeastNatural
  <2>3. PICK w \in T : d = at - w
    OBVIOUS
  <2>4. \A u \in T : u <= w
    BY <2>2, <2>3
  <2> QED
    BY <1>1, <1>3, <2>4 DEF Greatest
<1> QED
  BY <1>2, <1>3

\* And of the later ones a next one.
LEMMA NextFacts ==
    ASSUME NEW T \in SUBSET Nat, NEW t \in Nat
    PROVE  /\ (\A u \in T : u <= t) => NextOf(T, t) = NULL
           /\ ~(\A u \in T : u <= t) => /\ NextOf(T, t) \in T /\ NextOf(T, t) > t
                                        /\ \A u \in T : u > t => NextOf(T, t) <= u
<1> DEFINE later == {u \in T : u > t}
<1>1. CASE later = {}
  BY <1>1 DEF NextOf
<1>2. CASE later # {}
  <2>1. PICK w \in later : \A x \in later : w <= x
    <3>1. later \in SUBSET Nat
      OBVIOUS
    <3> HIDE DEF later
    <3> QED
      BY <1>2, <3>1, LeastNatural
  <2>2. NextOf(T, t) \in later /\ \A x \in later : NextOf(T, t) <= x
    BY <1>2, <2>1 DEF NextOf
  <2> QED
    BY <2>2
<1> QED
  BY <1>1, <1>2

LEMMA SeriesFacts ==
    ASSUME NEW e, NEW at \in Nat, IsTape(e, at), NEW k, NEW p, NEW id
    PROVE  /\ Series(e, k, p, id) = {h \in TableRows(e, History) :
                 h[Kind] = k /\ h[Property] = p /\ h[RecordId] = id}
           /\ \A h \in Series(e, k, p, id) : h[SimTime] \in 0 .. at
<1>1. TrunkRows(e, History) = TableRows(e, History)
  BY CategoryFacts, TrunkFacts DEF IsTape
<1>2. \A h : Matches(h, <<>>)
  BY DEF Matches
<1>3. \A h \in TableRows(e, History) : h[SimTime] \in 0 .. at
  BY DEF IsTape, HistoryKept
<1> QED
  BY <1>1, <1>2, <1>3 DEF Series, HistoryRelation

\* The rows a value as of u can come from.
SeriesTo(e, k, p, id, u) == {h \in Series(e, k, p, id) : h[SimTime] <= u}

\* It is the value of the last of them.
LEMMA AsOfLast ==
    ASSUME NEW e, NEW at \in Nat, NEW k, NEW p, NEW id, NEW u \in Int,
           \A h \in Series(e, k, p, id) : h[SimTime] \in 0 .. at
    PROVE  AsOf(e, k, p, id, u) = ValueAt(SeriesTo(e, k, p, id, u),
                                          Greatest({h[SimTime] : h \in SeriesTo(e, k, p, id, u)}))
<1> DEFINE S == Series(e, k, p, id)
           L == SeriesTo(e, k, p, id, u)
           T == {h[SimTime] : h \in L}
           g == Greatest(T)
<1>1. L \subseteq S /\ \A h \in S : h \in L <=> h[SimTime] <= u
  BY DEF SeriesTo
<1>2. AsOf(e, k, p, id, u) = ValueAt(S, g)
  BY DEF AsOf, SeriesTo
<1>3. T \in SUBSET (0 .. at)
  BY <1>1
<1>4. \A x \in T : x <= u
  BY <1>1
<1> HIDE DEF T
<1>5. (T = {} => g = NULL) /\ (T # {} => g \in T)
  BY <1>3, GreatestFacts
<1> HIDE DEF g, S, L
<1>6. {h \in S : h[SimTime] = g} = {h \in L : h[SimTime] = g}
  <2>1. ASSUME NEW h \in S, h[SimTime] = g PROVE h \in L
    <3>1. h[SimTime] \in Int
      BY DEF S
    <3>2. CASE T = {}
      BY <1>5, <2>1, <3>1, <3>2, NullFacts
    <3>3. CASE T # {}
      BY <1>1, <1>4, <1>5, <2>1, <3>3
    <3> QED
      BY <3>2, <3>3
  <2> QED
    BY <1>1, <2>1
<1>7. ValueAt(S, g) = ValueAt(L, g)
  BY <1>6 DEF ValueAt
<1> QED
  BY <1>2, <1>7 DEF g, T, L

LEMMA AsOfSame ==
    ASSUME NEW e, NEW f, NEW at \in Nat, NEW k, NEW p, NEW id, NEW u \in Int, NEW v \in Int,
           \A h \in Series(e, k, p, id) : h[SimTime] \in 0 .. at,
           \A h \in Series(f, k, p, id) : h[SimTime] \in 0 .. at,
           SeriesTo(e, k, p, id, u) = SeriesTo(f, k, p, id, v)
    PROVE  AsOf(e, k, p, id, u) = AsOf(f, k, p, id, v)
<1>1. AsOf(e, k, p, id, u) = ValueAt(SeriesTo(e, k, p, id, u),
                                     Greatest({h[SimTime] : h \in SeriesTo(e, k, p, id, u)}))
  BY AsOfLast
<1>2. AsOf(f, k, p, id, v) = ValueAt(SeriesTo(f, k, p, id, v),
                                     Greatest({h[SimTime] : h \in SeriesTo(f, k, p, id, v)}))
  BY AsOfLast
<1> QED
  BY <1>1, <1>2

---------------------------------------------------------------------------
(* The rows of the truncated tape.                                         *)

\* A record as the tape truncated at t has it.
CutRecord(e, k, r, t) ==
    [c \in {d.name : d \in Range(TruncatedColumns(e, SpecFor(e, RecordsOf(k))))} |->
        TruncatedCell(e, k, r, ColumnFor(e, RecordsOf(k), c), t)]

\* Its columns: all but those whose past is unknowable.
CutNames(e, k) == {c \in ColumnNames(e, RecordsOf(k)) : ~NonExemptSliceOnly(e, k, c)}

LEMMA TapeShape ==
    ASSUME NEW e, NEW at, IsTape(e, at)
    PROVE  /\ TablesNamed(e) /\ \A s \in e.specs : ColumnsNamed(e, s)
           /\ \A n \in Tables(e) : RowsShaped(e, n)
BY DEF IsTape

LEMMA CutNamesFacts ==
    ASSUME NEW e, NEW at, IsTape(e, at), NEW k \in Kinds, NEW t
    PROVE  /\ {d.name : d \in Range(TruncatedColumns(e, SpecFor(e, RecordsOf(k))))} = CutNames(e, k)
           /\ ColumnNames(Truncated(e, t), RecordsOf(k)) = CutNames(e, k)
           /\ \A c \in CutNames(e, k) :
                 ColumnFor(Truncated(e, t), RecordsOf(k), c) = ColumnFor(e, RecordsOf(k), c)
<1> DEFINE n == RecordsOf(k)
           s == SpecFor(e, n)
           cols == TruncatedColumns(e, s)
           cut == Truncated(e, t)
<1>1. /\ TablesNamed(e) /\ \A x \in e.specs : ColumnsNamed(e, x)
      /\ n \in Tables(e) /\ s \in e.specs /\ s.name = n /\ s.category = "records" /\ s.kind = k
  BY TapeShape, CategoryFacts, SpecFacts
<1>2. Range(cols) = {c \in Range(s.cols) : ~NonExemptSliceOnly(e, k, c.name)}
  BY <1>1, KeptColumns
<1>3. /\ ColumnNames(e, n) = {c.name : c \in Range(s.cols)}
      /\ \A c \in Range(s.cols) : ColumnFor(e, n, c.name) = c
  BY <1>1, ColumnFacts
<1>4. /\ TablesNamed(cut) /\ \A x \in cut.specs : ColumnsNamed(cut, x)
      /\ n \in Tables(cut) /\ SpecFor(cut, n) = [s EXCEPT !.cols = cols]
  BY <1>1, CutFacts
<1>5. SpecFor(cut, n) \in cut.specs /\ SpecFor(cut, n).name = n
  BY <1>4, SpecFacts
<1>6. SpecFor(cut, n).cols = cols
  BY <1>1, <1>4 DEF TablesNamed
<1> HIDE DEF cols, cut, s
<1>7. /\ ColumnNames(cut, n) = {c.name : c \in Range(cols)}
      /\ \A c \in Range(cols) : ColumnFor(cut, n, c.name) = c
  BY <1>4, <1>5, <1>6, ColumnFacts
<1>8. {d.name : d \in Range(cols)} = CutNames(e, k)
  BY <1>2, <1>3 DEF CutNames
<1>9. \A c \in CutNames(e, k) : ColumnFor(cut, n, c) = ColumnFor(e, n, c)
  BY <1>2, <1>3, <1>7, <1>8
<1> QED
  BY <1>7, <1>8, <1>9 DEF cols, cut, s

\* What the truncated tape says of a record.
LEMMA CutRecordCells ==
    ASSUME NEW e, NEW at, IsTape(e, at), NEW k \in Kinds, NEW t, NEW r
    PROVE  LET q == CutRecord(e, k, r, t) IN
           /\ DOMAIN q = CutNames(e, k)
           /\ q[Fork] = r[Fork] /\ q[RecordId] = r[RecordId] /\ q[Created] = r[Created]
           /\ q[RecordIndex] = r[RecordIndex]
           /\ q[Deactivated] = IF GoneBy(r, t) THEN r[Deactivated] ELSE NULL
           /\ Presented \in ColumnNames(e, RecordsOf(k)) => q[Presented] = r[Presented]
           /\ \A p : PropOf(p) \in CutNames(e, k) =>
                 q[PropOf(p)] = PropertyAt(e, k, r, ColumnFor(e, RecordsOf(k), PropOf(p)), t)
<1> DEFINE n == RecordsOf(k)
           q == CutRecord(e, k, r, t)
<1>1. q = [c \in CutNames(e, k) |-> TruncatedCell(e, k, r, ColumnFor(e, n, c), t)]
  BY CutNamesFacts DEF CutRecord
<1>2. n \in Tables(e) /\ SpecFor(e, n) \in e.specs /\ SpecFor(e, n).name = n
  BY TapeShape, CategoryFacts, SpecFacts
<1>3. \A c \in ColumnNames(e, n) : ColumnFor(e, n, c).name = c
  BY <1>2, TapeShape, ColumnFacts
<1>4. {Fork, RecordId, Created, Deactivated, RecordIndex} \subseteq ColumnNames(e, n)
  BY DEF IsTape, RecordsKept
<1>5. \A c \in ColumnNames(e, n) : c[1] # "prop" => c \in CutNames(e, k)
  BY DEF CutNames, NonExemptSliceOnly
<1>6. \A c \in CutNames(e, k) : c \in ColumnNames(e, n)
  BY DEF CutNames
<1> HIDE DEF q, n
<1>7. \A c \in ColumnNames(e, n) : c \in {Fork, RecordId, Created, RecordIndex, Presented} => q[c] = r[c]
  <2> SUFFICES ASSUME NEW c \in ColumnNames(e, n), c \in {Fork, RecordId, Created, RecordIndex, Presented}
               PROVE  q[c] = r[c]
    OBVIOUS
  <2>1. /\ c # Active /\ c # Deactivated /\ c # Mutated
        /\ c[1] # "ref_index" /\ c[1] # "prop"
    BY DEF Fork, RecordId, Created, RecordIndex, Presented, Active, Deactivated, Mutated
  <2>2. q[c] = TruncatedCell(e, k, r, ColumnFor(e, n, c), t) /\ ColumnFor(e, n, c).name = c
    BY <1>1, <1>3, <1>5, <2>1
  <2> QED
    BY <2>1, <2>2 DEF TruncatedCell
<1>8. q[Deactivated] = IF GoneBy(r, t) THEN r[Deactivated] ELSE NULL
  <2>1. /\ Deactivated # Active /\ Deactivated # Mutated
        /\ Deactivated[1] # "prop" /\ Deactivated[1] # "ref_index"
    BY DEF Deactivated, Active, Mutated
  <2>2. q[Deactivated] = TruncatedCell(e, k, r, ColumnFor(e, n, Deactivated), t)
    BY <1>1, <1>4, <1>5, <2>1
  <2> QED
    BY <1>3, <1>4, <2>1, <2>2 DEF TruncatedCell
<1>9. ASSUME NEW p, PropOf(p) \in CutNames(e, k)
      PROVE  q[PropOf(p)] = PropertyAt(e, k, r, ColumnFor(e, n, PropOf(p)), t)
  <2>1. /\ PropOf(p) # Active /\ PropOf(p) # Deactivated /\ PropOf(p) # Mutated
        /\ PropOf(p)[1] = "prop"
    BY DEF PropOf, Active, Deactivated, Mutated
  <2>2. ColumnFor(e, n, PropOf(p)).name = PropOf(p)
    BY <1>3, <1>6, <1>9
  <2>3. q[PropOf(p)] = TruncatedCell(e, k, r, ColumnFor(e, n, PropOf(p)), t)
    BY <1>1, <1>9
  <2> QED
    BY <2>1, <2>2, <2>3 DEF TruncatedCell
<1>10. DOMAIN q = CutNames(e, k)
  BY <1>1
<1> QED
  BY <1>4, <1>7, <1>8, <1>9, <1>10 DEF q, n

\* The records there were at t.
LEMMA CutRecords ==
    ASSUME NEW e, NEW at, IsTape(e, at), NEW k \in Kinds, NEW t
    PROVE  LET old == {r \in TableRows(e, RecordsOf(k)) : r[Created] <= t} IN
           /\ TableRows(Truncated(e, t), RecordsOf(k)) = {CutRecord(e, k, r, t) : r \in old}
           /\ TrunkRows(Truncated(e, t), RecordsOf(k)) = {CutRecord(e, k, r, t) : r \in old}
<1> DEFINE n == RecordsOf(k)
           s == SpecFor(e, n)
           cut == Truncated(e, t)
           kept == Until(e, n, Created, t)
           old == {r \in TableRows(e, n) : r[Created] <= t}
           new(r) == CutRecord(e, k, r, t)
<1>1. /\ n \in Tables(e) /\ s.name = n /\ s.category = "records" /\ s.kind = k
      /\ TablesNamed(e) /\ \A x \in e.specs : ColumnsNamed(e, x)
      /\ RowsShaped(e, n)
  BY TapeShape, CategoryFacts, SpecFacts
<1>2. cut.cat[n].rows = TruncatedRows(e, s, t) /\ Trunk(cut) = Trunk(e)
  BY <1>1, CutFacts
<1>3. TruncatedRows(e, s, t) = TruncatedRecords(e, s, t)
  BY <1>1 DEF TruncatedRows
<1>4. TruncatedRecords(e, s, t) = [i \in DOMAIN kept |-> new(kept[i])]
  BY <1>1 DEF TruncatedRecords, CutRecord
<1>5. Range(kept) = old
  BY <1>1, UntilFacts
<1> HIDE DEF kept, new, old
<1>6. TableRows(cut, n) = {new(r) : r \in old}
  <2>1. Range([i \in DOMAIN kept |-> new(kept[i])]) = {new(r) : r \in Range(kept)}
    BY DEF Range
  <2> QED
    BY <1>2, <1>3, <1>4, <1>5, <2>1 DEF TableRows
<1>7. \A r \in old : new(r)[Fork] = Trunk(e)
  BY <1>1, CutRecordCells DEF new, old, RowsShaped, TableRows
<1>8. TrunkRows(cut, n) = {new(r) : r \in old}
  BY <1>2, <1>6, <1>7 DEF TrunkRows
<1> QED
  BY <1>6, <1>8 DEF new, old

\* The history there was at t.
LEMMA CutHistory ==
    ASSUME NEW e, NEW at, IsTape(e, at), NEW t
    PROVE  LET old == {h \in TableRows(e, History) : h[SimTime] <= t} IN
           /\ TableRows(Truncated(e, t), History) = old
           /\ TrunkRows(Truncated(e, t), History) = old
<1> DEFINE s == SpecFor(e, History)
           cut == Truncated(e, t)
           old == {h \in TableRows(e, History) : h[SimTime] <= t}
<1>1. /\ History \in Tables(e) /\ s.name = History /\ s.category = "fixed"
      /\ TablesNamed(e) /\ \A x \in e.specs : ColumnsNamed(e, x)
      /\ RowsShaped(e, History)
  BY TapeShape, CategoryFacts, SpecFacts
<1>2. cut.cat[History].rows = TruncatedRows(e, s, t) /\ Trunk(cut) = Trunk(e)
  BY <1>1, CutFacts
<1>3. TruncatedRows(e, s, t) = Until(e, History, SimTime, t)
  BY <1>1 DEF TruncatedRows
<1>4. TableRows(cut, History) = old
  BY <1>1, <1>2, <1>3, UntilFacts DEF TableRows
<1>5. \A h \in old : h[Fork] = Trunk(e)
  BY <1>1 DEF RowsShaped, TableRows
<1> HIDE DEF old
<1> QED
  BY <1>2, <1>4, <1>5 DEF TrunkRows, old

LEMMA CutSeries ==
    ASSUME NEW e, NEW at, IsTape(e, at), NEW t, NEW k, NEW p, NEW id
    PROVE  Series(Truncated(e, t), k, p, id) = {h \in Series(e, k, p, id) : h[SimTime] <= t}
<1>1. \A h : Matches(h, <<>>)
  BY DEF Matches
<1>2. TrunkRows(e, History) = TableRows(e, History)
  BY TapeShape, CategoryFacts, TrunkFacts
<1> QED
  BY <1>1, <1>2, CutHistory DEF Series, HistoryRelation

\* A value as of u, on the tape truncated at t.
Sooner(u, t) == IF u <= t THEN u ELSE t

LEMMA CutAsOf ==
    ASSUME NEW e, NEW at \in Nat, IsTape(e, at), NEW t \in 0 .. at, NEW k, NEW p, NEW id, NEW u \in Int
    PROVE  AsOf(Truncated(e, t), k, p, id, u) = AsOf(e, k, p, id, Sooner(u, t))
<1> DEFINE cut == Truncated(e, t)
           S == Series(e, k, p, id)
<1>1. \A h \in S : h[SimTime] \in 0 .. at
  BY SeriesFacts
<1>2. Series(cut, k, p, id) = {h \in S : h[SimTime] <= t}
  BY CutSeries
<1>3. SeriesTo(cut, k, p, id, u) = {h \in S : h[SimTime] <= t /\ h[SimTime] <= u}
  BY <1>2 DEF SeriesTo
<1>4. SeriesTo(e, k, p, id, Sooner(u, t)) = {h \in S : h[SimTime] <= Sooner(u, t)}
  BY DEF SeriesTo
<1> HIDE DEF S, cut
<1>5. \A h \in S : h[SimTime] <= Sooner(u, t) <=> h[SimTime] <= t /\ h[SimTime] <= u
  BY <1>1 DEF Sooner
<1>6. SeriesTo(cut, k, p, id, u) = SeriesTo(e, k, p, id, Sooner(u, t))
  BY <1>3, <1>4, <1>5
<1>7. (\A h \in Series(cut, k, p, id) : h[SimTime] \in 0 .. at) /\ Sooner(u, t) \in Int
  BY <1>1, <1>2 DEF Sooner
<1> QED
  BY <1>1, <1>6, <1>7, AsOfSame DEF S, cut

---------------------------------------------------------------------------
(* The folds of a record, cut.                                             *)

LEMMA RecordLife ==
    ASSUME NEW e, NEW at \in Nat, IsTape(e, at), NEW k \in Kinds, NEW r \in TableRows(e, RecordsOf(k))
    PROVE  /\ r[Created] \in 0 .. at /\ r[RecordId] # NULL
           /\ r[Deactivated] # NULL => r[Deactivated] \in r[Created] .. at
<1>1. PICK i \in DOMAIN e.cat[RecordsOf(k)].rows : r = e.cat[RecordsOf(k)].rows[i]
  BY TapeShape, CategoryFacts, TrunkFacts
<1> QED
  BY <1>1 DEF IsTape, RecordsKept

\* A property with a past is in the truncated tape, and its column is what it was.
LEMMA FullFacts ==
    ASSUME NEW e, NEW at, IsTape(e, at), NEW k \in Kinds, NEW p \in FullProperties(e, k)
    PROVE  LET c == ColumnFor(e, RecordsOf(k), PropOf(p)) IN
           /\ PropOf(p) \in CutNames(e, k) /\ c.name = PropOf(p)
           /\ c \in PropColumns(SpecFor(e, RecordsOf(k))) /\ TemporalClassAgrees(c)
<1> DEFINE n == RecordsOf(k)
           s == SpecFor(e, n)
<1>1. n \in Tables(e) /\ s \in e.specs /\ s.name = n /\ TablesNamed(e) /\ ColumnsNamed(e, s)
  BY TapeShape, CategoryFacts, SpecFacts
<1>2. PICK d \in PropColumns(s) :
         p = d.name[2] /\ (ExemptDiscriminator(e, k, d.name) \/ d.temporal \in {"tracked", "constant"})
  BY DEF FullProperties
<1>3. d.name = PropOf(p) /\ TemporalClassAgrees(d)
  BY <1>1, <1>2 DEF ColumnsNamed
<1>4. d \in Range(s.cols) /\ ColumnFor(e, n, d.name) = d /\ d.name \in ColumnNames(e, n)
  BY <1>1, ColumnFacts DEF PropColumns
<1>5. ~NonExemptSliceOnly(e, k, d.name)
  BY <1>2, <1>4 DEF NonExemptSliceOnly
<1> QED
  BY <1>2, <1>3, <1>4, <1>5 DEF CutNames

LEMMA CutText ==
    ASSUME NEW e, NEW at \in Nat, IsTape(e, at), NEW t \in 0 .. at, NEW k \in Kinds,
           NEW p \in FullProperties(e, k), NEW r, NEW u \in Int
    PROVE  TextAt(Truncated(e, t), k, CutRecord(e, k, r, t), p, u) = TextAt(e, k, r, p, Sooner(u, t))
<1> DEFINE n == RecordsOf(k)
           c == ColumnFor(e, n, PropOf(p))
           q == CutRecord(e, k, r, t)
           cut == Truncated(e, t)
<1>1. PropOf(p) \in CutNames(e, k) /\ c.name = PropOf(p) /\ TemporalClassAgrees(c)
  BY FullFacts
<1>2. ColumnFor(cut, n, PropOf(p)) = c
  BY <1>1, CutNamesFacts
<1>3. q[RecordId] = r[RecordId] /\ q[PropOf(p)] = PropertyAt(e, k, r, c, t)
  BY <1>1, CutRecordCells
<1>4. AsOf(cut, k, p, r[RecordId], u) = AsOf(e, k, p, r[RecordId], Sooner(u, t))
  BY CutAsOf
<1> HIDE DEF n, c, q, cut
<1>5. CASE c.tracked = TRUE
  <2>1. TextAt(cut, k, q, p, u) = AsOf(cut, k, p, q[RecordId], u)
    BY <1>2, <1>5 DEF TextAt, n
  <2>2. TextAt(e, k, r, p, Sooner(u, t)) = AsOf(e, k, p, r[RecordId], Sooner(u, t))
    BY <1>5 DEF TextAt, n, c
  <2> QED
    BY <1>3, <1>4, <2>1, <2>2 DEF q, cut
<1>6. CASE c.tracked # TRUE
  <2>1. c.temporal # "tracked"
    BY <1>1, <1>6 DEF TemporalClassAgrees
  <2>2. q[c.name] = r[c.name]
    BY <1>1, <1>3, <2>1 DEF PropertyAt
  <2>3. TextAt(cut, k, q, p, u) = IF q[c.name] = NULL THEN NULL ELSE CastText(q[c.name], c.type)
    BY <1>2, <1>6 DEF TextAt, n
  <2>4. TextAt(e, k, r, p, Sooner(u, t)) = IF r[c.name] = NULL THEN NULL ELSE CastText(r[c.name], c.type)
    BY <1>6 DEF TextAt, n, c
  <2> QED
    BY <2>2, <2>3, <2>4 DEF q, cut
<1> QED
  BY <1>5, <1>6

\* One row of StateAt, and of RowStateEvents.
StateRow(e, k, ps, r, u) ==
    [record |-> r[RecordId], created |-> r[Created], active |-> ~GoneBy(r, u),
     values |-> [p \in ps |-> TextAt(e, k, r, p, u)]]

EventRow(e, k, ps, r, time, class) ==
    [record |-> r[RecordId], time |-> time, class |-> class,
     after |-> IF class = Delete THEN NULL ELSE [p \in ps |-> TextAt(e, k, r, p, time)]]

LEMMA StateAtRows ==
    ASSUME NEW e, NEW k, NEW ps, NEW u \in Int, NEW horizon \in Int, horizon = u + 1
    PROVE  StateAt(e, k, ps, horizon)
             = {StateRow(e, k, ps, r, u) : r \in {q \in TrunkRows(e, RecordsOf(k)) : q[Created] < horizon}}
<1>1. horizon - 1 = u
  OBVIOUS
<1> QED
  BY <1>1 DEF StateAt, StateRow

\* The state at an instant is the last state of the tape truncated there.
LEMMA StateCut ==
    ASSUME NEW e, NEW at \in 0 .. LastTime, IsTape(e, at), NEW t \in 0 .. at, NEW k \in Kinds
    PROVE  LET full == FullProperties(e, k) IN
           StateAt(e, k, full, t + 1) = StateAt(Truncated(e, t), k, full, Forever + 1)
<1> DEFINE n == RecordsOf(k)
           full == FullProperties(e, k)
           cut == Truncated(e, t)
           rows == TableRows(e, n)
           old == {r \in rows : r[Created] <= t}
           new(r) == CutRecord(e, k, r, t)
<1>0. LastTime \in Nat /\ Forever \in Nat /\ Forever = LastTime + 1 /\ at \in Nat /\ t \in Nat
  BY TapeAssumption DEF Forever
<1>1. \A r \in rows : /\ r[Created] \in 0 .. at
                      /\ r[Deactivated] # NULL => r[Deactivated] \in r[Created] .. at
  BY <1>0, RecordLife
<1>2. TrunkRows(e, n) = rows
  BY TapeShape, CategoryFacts, TrunkFacts
<1>3. TrunkRows(cut, n) = {new(r) : r \in old}
  BY CutRecords
<1>4. \A r \in rows : new(r)[RecordId] = r[RecordId] /\ new(r)[Created] = r[Created]
                      /\ new(r)[Deactivated] = IF GoneBy(r, t) THEN r[Deactivated] ELSE NULL
  BY CutRecordCells
<1>5. ASSUME NEW r \in rows PROVE [p \in full |-> TextAt(cut, k, new(r), p, Forever)]
                                    = [p \in full |-> TextAt(e, k, r, p, t)]
  <2>1. Sooner(Forever, t) = t
    BY <1>0 DEF Sooner
  <2> QED
    BY <1>0, <2>1, CutText
<1>6. StateAt(e, k, full, t + 1)
        = {StateRow(e, k, full, r, t) : r \in {q \in TrunkRows(e, n) : q[Created] < t + 1}}
  BY <1>0, StateAtRows
<1>7. StateAt(cut, k, full, Forever + 1)
        = {StateRow(cut, k, full, r, Forever) : r \in {q \in TrunkRows(cut, n) : q[Created] < Forever + 1}}
  <2>1. Forever \in Int /\ Forever + 1 \in Int
    BY <1>0
  <2> HIDE DEF cut, full
  <2> QED
    BY <2>1, StateAtRows
<1> HIDE DEF cut, new, full, rows
<1>8. {q \in TrunkRows(e, n) : q[Created] < t + 1} = old
  BY <1>0, <1>1, <1>2
<1>9. {q \in TrunkRows(cut, n) : q[Created] < Forever + 1} = {new(r) : r \in old}
  BY <1>0, <1>1, <1>3, <1>4
<1>10. ASSUME NEW r \in old PROVE StateRow(cut, k, full, new(r), Forever) = StateRow(e, k, full, r, t)
  <2>1. GoneBy(new(r), Forever) <=> GoneBy(r, t)
    BY <1>0, <1>1, <1>4 DEF GoneBy
  <2> QED
    BY <1>4, <1>5, <2>1 DEF StateRow
<1> HIDE DEF old
<1>11. StateAt(e, k, full, t + 1) = {StateRow(e, k, full, r, t) : r \in old}
  BY <1>6, <1>8
<1>12. StateAt(cut, k, full, Forever + 1) = {StateRow(cut, k, full, new(r), Forever) : r \in old}
  BY <1>7, <1>9
<1> QED
  BY <1>10, <1>11, <1>12 DEF full, cut

LEMMA BoundaryFacts ==
    ASSUME NEW e, NEW at \in Nat, IsTape(e, at), NEW k, NEW ps, NEW id
    PROVE  /\ \A x : x \in Boundaries(e, k, ps, id) <=>
                 \E p \in ps : \E h \in Series(e, k, p, id) : x = h[SimTime]
           /\ Boundaries(e, k, ps, id) \subseteq 0 .. at
<1>1. \A x : x \in Boundaries(e, k, ps, id) <=>
         \E p \in ps : \E h \in Series(e, k, p, id) : x = h[SimTime]
  BY DEF Boundaries
<1>2. \A p : \A h \in Series(e, k, p, id) : h[SimTime] \in 0 .. at
  BY SeriesFacts
<1> QED
  BY <1>1, <1>2

LEMMA CutBoundaries ==
    ASSUME NEW e, NEW at \in Nat, IsTape(e, at), NEW t, NEW k, NEW ps, NEW id
    PROVE  Boundaries(Truncated(e, t), k, ps, id) = {b \in Boundaries(e, k, ps, id) : b <= t}
<1>1. \A p : Series(Truncated(e, t), k, p, id) = {h \in Series(e, k, p, id) : h[SimTime] <= t}
  BY CutSeries
<1>2. \A x : x \in Boundaries(e, k, ps, id) <=>
         \E p \in ps : \E h \in Series(e, k, p, id) : x = h[SimTime]
  BY DEF Boundaries
<1>3. \A x : x \in Boundaries(Truncated(e, t), k, ps, id) <=>
         \E p \in ps : \E h \in Series(Truncated(e, t), k, p, id) : x = h[SimTime]
  BY DEF Boundaries
<1> QED
  BY <1>1, <1>2, <1>3

LEMMA CutTracked ==
    ASSUME NEW e, NEW at, IsTape(e, at), NEW t, NEW k \in Kinds
    PROVE  TrackedAmong(Truncated(e, t), k, FullProperties(e, k)) = TrackedAmong(e, k, FullProperties(e, k))
<1>1. \A p \in FullProperties(e, k) :
         ColumnFor(Truncated(e, t), RecordsOf(k), PropOf(p)) = ColumnFor(e, RecordsOf(k), PropOf(p))
  BY FullFacts, CutNamesFacts
<1> QED
  BY <1>1 DEF TrackedAmong

\* What happens to a record, and when.
Happens(e, k, scope, r, time, class) ==
    \/ class = Create /\ time = r[Created]
    \/ /\ class = Update /\ time > r[Created]
       /\ time \in Boundaries(e, k, TrackedAmong(e, k, scope), r[RecordId])
    \/ class = Delete /\ time = r[Deactivated] /\ time # NULL

LEMMA EventFacts ==
    ASSUME NEW e, NEW k, NEW ps, NEW scope
    PROVE  \A ev : ev \in RowStateEvents(e, k, ps, scope) <=>
              \E r \in TrunkRows(e, RecordsOf(k)) : \E time, class :
                 Happens(e, k, scope, r, time, class) /\ ev = EventRow(e, k, ps, r, time, class)
<1> DEFINE updates(r) == {t \in Boundaries(e, k, TrackedAmong(e, k, scope), r[RecordId]) : t > r[Created]}
           arm(r) == {EventRow(e, k, ps, r, r[Created], Create)}
                       \cup {EventRow(e, k, ps, r, t, Update) : t \in updates(r)}
                       \cup {EventRow(e, k, ps, r, t, Delete) : t \in {r[Deactivated]} \ {NULL}}
<1>1. RowStateEvents(e, k, ps, scope) = UNION {arm(r) : r \in TrunkRows(e, RecordsOf(k))}
  BY DEF RowStateEvents, EventRow
<1>2. ASSUME NEW r, NEW ev
      PROVE  ev \in arm(r) <=> \E time, class : /\ Happens(e, k, scope, r, time, class)
                                                /\ ev = EventRow(e, k, ps, r, time, class)
  BY DEF Happens
<1> HIDE DEF arm
<1> QED
  BY <1>1, <1>2

LEMMA EventTimes ==
    ASSUME NEW e, NEW at \in Nat, IsTape(e, at), NEW k \in Kinds, NEW scope,
           NEW r \in TableRows(e, RecordsOf(k)), NEW time, NEW class,
           Happens(e, k, scope, r, time, class)
    PROVE  time \in r[Created] .. at
<1>1. /\ r[Created] \in 0 .. at
      /\ r[Deactivated] # NULL => r[Deactivated] \in r[Created] .. at
  BY RecordLife
<1>2. Boundaries(e, k, TrackedAmong(e, k, scope), r[RecordId]) \subseteq 0 .. at
  BY BoundaryFacts
<1> QED
  BY <1>1, <1>2 DEF Happens

\* What happened by t is what happens on the tape truncated at t.
LEMMA HappensCut ==
    ASSUME NEW e, NEW at \in Nat, IsTape(e, at), NEW t \in 0 .. at, NEW k \in Kinds,
           NEW r \in TableRows(e, RecordsOf(k)), NEW time, NEW class
    PROVE  LET full == FullProperties(e, k) IN
           Happens(e, k, full, r, time, class) /\ time <= t
             <=> r[Created] <= t /\ Happens(Truncated(e, t), k, full, CutRecord(e, k, r, t), time, class)
<1> DEFINE full == FullProperties(e, k)
           cut == Truncated(e, t)
           q == CutRecord(e, k, r, t)
           tracked == TrackedAmong(e, k, full)
           all == Boundaries(e, k, tracked, r[RecordId])
<1>1. /\ r[Created] \in 0 .. at
      /\ r[Deactivated] # NULL => r[Deactivated] \in r[Created] .. at
  BY RecordLife
<1>2. /\ q[RecordId] = r[RecordId] /\ q[Created] = r[Created]
      /\ q[Deactivated] = IF GoneBy(r, t) THEN r[Deactivated] ELSE NULL
  BY CutRecordCells
<1>3. TrackedAmong(cut, k, full) = tracked
  BY CutTracked
<1>4. Boundaries(cut, k, tracked, r[RecordId]) = {b \in all : b <= t}
  BY CutBoundaries
<1>5. all \subseteq 0 .. at
  BY BoundaryFacts
<1>6. Happens(e, k, full, r, time, class) <=>
         \/ class = Create /\ time = r[Created]
         \/ class = Update /\ time > r[Created] /\ time \in all
         \/ class = Delete /\ time = r[Deactivated] /\ time # NULL
  BY DEF Happens
<1>7. Happens(cut, k, full, q, time, class) <=>
         \/ class = Create /\ time = r[Created]
         \/ class = Update /\ time > r[Created] /\ time \in all /\ time <= t
         \/ class = Delete /\ time = q[Deactivated] /\ time # NULL
  BY <1>2, <1>3, <1>4 DEF Happens
<1> HIDE DEF all, cut, q, full
<1>8. time = q[Deactivated] /\ time # NULL <=> time = r[Deactivated] /\ time # NULL /\ time <= t
  BY <1>2 DEF GoneBy
<1>9. Happens(e, k, full, r, time, class) /\ time <= t
         <=> r[Created] <= t /\ Happens(cut, k, full, q, time, class)
  <2>1. Happens(e, k, full, r, time, class) => time \in r[Created] .. at
    BY EventTimes DEF full
  <2>2. time \in all => time \in Int
    BY <1>5
  <2>3. t \in Int /\ r[Created] \in Int
    BY <1>1
  <2>4. ASSUME Happens(e, k, full, r, time, class), time <= t
        PROVE  r[Created] <= t /\ Happens(cut, k, full, q, time, class)
    <3>1. r[Created] <= time /\ time \in Int
      BY <2>1, <2>3, <2>4
    <3>2. r[Created] <= t
      BY <2>3, <2>4, <3>1
    <3> QED
      BY <1>6, <1>7, <1>8, <2>4, <3>2
  <2>5. ASSUME r[Created] <= t, Happens(cut, k, full, q, time, class)
        PROVE  Happens(e, k, full, r, time, class) /\ time <= t
    BY <1>6, <1>7, <1>8, <2>5
  <2> QED
    BY <2>4, <2>5
<1> QED
  BY <1>9 DEF full, cut, q

\* The events by t are the events of the tape truncated there.
LEMMA EventsCut ==
    ASSUME NEW e, NEW at \in Nat, IsTape(e, at), NEW t \in 0 .. at, NEW k \in Kinds
    PROVE  LET full == FullProperties(e, k) IN
           {ev \in RowStateEvents(e, k, full, full) : ev.time <= t}
             = RowStateEvents(Truncated(e, t), k, full, full)
<1> DEFINE n == RecordsOf(k)
           full == FullProperties(e, k)
           cut == Truncated(e, t)
           rows == TableRows(e, n)
           new(r) == CutRecord(e, k, r, t)
           row(r, time, class) == EventRow(e, k, full, r, time, class)
           short(r, time, class) == EventRow(cut, k, full, new(r), time, class)
           then(r, time, class) == Happens(e, k, full, r, time, class)
           cutThen(r, time, class) == Happens(cut, k, full, new(r), time, class)
<1>1. TrunkRows(e, n) = rows
  BY TapeShape, CategoryFacts, TrunkFacts
<1>2. TrunkRows(cut, n) = {new(r) : r \in {q \in rows : q[Created] <= t}}
  BY CutRecords
<1>3. \A ev : ev \in RowStateEvents(e, k, full, full) <=>
         \E r \in rows : \E time, class : then(r, time, class) /\ ev = row(r, time, class)
  BY <1>1, EventFacts
<1>4. \A ev : ev \in RowStateEvents(cut, k, full, full) <=>
         \E r \in rows : /\ r[Created] <= t
                         /\ \E time, class : cutThen(r, time, class) /\ ev = short(r, time, class)
  <2>1. \A ev : ev \in RowStateEvents(cut, k, full, full) <=>
           \E q \in TrunkRows(cut, n) : \E time, class :
              Happens(cut, k, full, q, time, class) /\ ev = EventRow(cut, k, full, q, time, class)
    BY EventFacts
  <2> HIDE DEF cut, full, new, rows
  <2> QED
    BY <1>2, <2>1
<1>5. \A r \in rows : \A time, class :
         then(r, time, class) /\ time <= t <=> r[Created] <= t /\ cutThen(r, time, class)
  BY HappensCut
<1>6. \A r \in rows : \A time, class : then(r, time, class) => time \in Int
  <2> SUFFICES ASSUME NEW r \in rows, NEW time, NEW class, then(r, time, class) PROVE time \in Int
    OBVIOUS
  <2>1. time \in r[Created] .. at
    BY EventTimes
  <2> QED
    BY <2>1
<1>7. ASSUME NEW r \in rows, NEW time \in Int, time <= t, NEW class
      PROVE  short(r, time, class) = row(r, time, class)
  <2>1. Sooner(time, t) = time
    BY <1>7 DEF Sooner
  <2>2. \A p \in full : TextAt(cut, k, new(r), p, time) = TextAt(e, k, r, p, time)
    BY <2>1, CutText
  <2>3. new(r)[RecordId] = r[RecordId]
    BY CutRecordCells
  <2> HIDE DEF cut, full, new, rows
  <2>4. [p \in full |-> TextAt(cut, k, new(r), p, time)] = [p \in full |-> TextAt(e, k, r, p, time)]
    BY <2>2
  <2> QED
    BY <2>3, <2>4 DEF EventRow
<1>8. \A r, time, class : row(r, time, class).time = time
  BY DEF EventRow
<1> HIDE DEF cut, full, new, rows, row, short, then, cutThen
<1>9. \A ev : ev \in RowStateEvents(e, k, full, full) /\ ev.time <= t
                 <=> ev \in RowStateEvents(cut, k, full, full)
  <2>1. ASSUME NEW ev, ev \in RowStateEvents(e, k, full, full), ev.time <= t
        PROVE  ev \in RowStateEvents(cut, k, full, full)
    BY <1>3, <1>4, <1>5, <1>6, <1>7, <1>8, <2>1
  <2>2. ASSUME NEW ev, ev \in RowStateEvents(cut, k, full, full)
        PROVE  ev \in RowStateEvents(e, k, full, full) /\ ev.time <= t
    BY <1>3, <1>4, <1>5, <1>6, <1>7, <1>8, <2>2
  <2> QED
    BY <2>1, <2>2
<1> QED
  BY <1>9 DEF full, cut

---------------------------------------------------------------------------
(* Versions, cut.                                                          *)

\* One version of VersionedIntervals.
Version(e, k, ps, id, t) ==
    [record |-> id, start |-> t, end |-> NextOf(Boundaries(e, k, ps, id), t),
     values |-> [p \in ps |-> AsOf(e, k, p, id, t)]]

LEMMA VersionFacts ==
    ASSUME NEW e, NEW k, NEW ps
    PROVE  \A v : v \in VersionedIntervals(e, k, ps, <<>>) <=>
              \E id : \E t \in Boundaries(e, k, ps, id) : v = Version(e, k, ps, id, t)
<1> DEFINE mine == {h[RecordId] : h \in UNION {HistoryRelation(e, k, p, <<>>) : p \in ps}}
           ids  == mine \cap {h[RecordId] : h \in TrunkRows(e, History)}
<1>1. VersionedIntervals(e, k, ps, <<>>)
        = UNION {{Version(e, k, ps, id, t) : t \in Boundaries(e, k, ps, id)} : id \in ids}
  BY DEF VersionedIntervals, Version
<1>2. ASSUME NEW id, NEW t \in Boundaries(e, k, ps, id) PROVE id \in ids
  <2>1. PICK p \in ps : \E h \in Series(e, k, p, id) : t = h[SimTime]
    BY DEF Boundaries
  <2>2. PICK h \in Series(e, k, p, id) : t = h[SimTime]
    BY <2>1
  <2>3. h \in HistoryRelation(e, k, p, <<>>) /\ h[RecordId] = id /\ h \in TrunkRows(e, History)
    BY DEF Series, HistoryRelation
  <2> QED
    BY <2>3
<1> HIDE DEF ids
<1> QED
  BY <1>1, <1>2

LEMMA NextCut ==
    ASSUME NEW T \in SUBSET Nat, NEW t \in Nat, NEW b \in Nat, b <= t
    PROVE  NextOf({x \in T : x <= t}, b)
             = IF NextOf(T, b) # NULL /\ NextOf(T, b) > t THEN NULL ELSE NextOf(T, b)
<1> DEFINE U == {x \in T : x <= t}
           n == NextOf(T, b)
           m == NextOf(U, b)
<1>1. /\ (\A u \in T : u <= b) => n = NULL
      /\ ~(\A u \in T : u <= b) => n \in T /\ n > b /\ \A u \in T : u > b => n <= u
  BY NextFacts
<1>2. /\ (\A u \in U : u <= b) => m = NULL
      /\ ~(\A u \in U : u <= b) => m \in U /\ m > b /\ \A u \in U : u > b => m <= u
  <2>1. U \in SUBSET Nat
    OBVIOUS
  <2> HIDE DEF U
  <2> QED
    BY <2>1, NextFacts
<1>3. \A x : x \in U <=> x \in T /\ x <= t
  OBVIOUS
<1> HIDE DEF U, n, m
<1>4. \A u \in T : u \in Nat
  OBVIOUS
<1>5. CASE \A u \in T : u <= b
  BY <1>1, <1>2, <1>3, <1>5 DEF n, m, U
<1>6. CASE ~(\A u \in T : u <= b)
  <2>0. n \in T /\ n > b /\ \A u \in T : u > b => n <= u
    BY <1>1, <1>6
  <2>1. n \in Nat /\ n # NULL /\ n > b
    BY <1>4, <2>0, NullFacts
  <2>2. CASE n > t
    <3>1. ASSUME NEW u \in U PROVE u <= b
      <4>1. u \in T /\ u \in Nat /\ u <= t
        BY <1>3, <1>4
      <4>2. u > b => n <= u
        BY <2>0, <4>1
      <4> QED
        BY <2>1, <2>2, <4>1, <4>2
    <3> QED
      BY <1>2, <2>1, <2>2, <3>1 DEF n, m, U
  <2>3. CASE n <= t
    <3>1. n \in U
      BY <1>1, <1>3, <1>6, <2>3
    <3>2. m \in U /\ m > b /\ m <= n
      BY <1>2, <2>1, <3>1
    <3>3. m \in T /\ m \in Nat
      BY <1>3, <1>4, <3>2
    <3>4. n <= m
      BY <2>0, <3>2, <3>3
    <3>5. m = n
      BY <2>1, <3>2, <3>3, <3>4
    <3> QED
      BY <2>1, <2>3, <3>5 DEF n, m, U
  <2> QED
    BY <2>1, <2>2, <2>3
<1> QED
  BY <1>5, <1>6

\* A version that began by t, cut there, is that version on the truncated tape.
LEMMA VersionCut ==
    ASSUME NEW e, NEW at \in Nat, IsTape(e, at), NEW t \in 0 .. at, NEW k, NEW ps, NEW id,
           NEW b \in Boundaries(e, k, ps, id), b <= t
    PROVE  LET v == Version(e, k, ps, id, b) IN
           Version(Truncated(e, t), k, ps, id, b)
             = [v EXCEPT !.end = IF v.end # NULL /\ v.end > t THEN NULL ELSE v.end]
<1> DEFINE v == Version(e, k, ps, id, b)
           cut == Truncated(e, t)
           T == Boundaries(e, k, ps, id)
           masked == IF v.end # NULL /\ v.end > t THEN NULL ELSE v.end
<1>1. T \subseteq 0 .. at /\ Boundaries(cut, k, ps, id) = {x \in T : x <= t}
  BY BoundaryFacts, CutBoundaries
<1>2. T \in SUBSET Nat /\ b \in Nat /\ t \in Nat
  BY <1>1
<1>3. v.end = NextOf(T, b)
  BY DEF Version
<1>4. NextOf(Boundaries(cut, k, ps, id), b) = masked
  BY <1>1, <1>2, <1>3, NextCut
<1>5. \A p \in ps : AsOf(cut, k, p, id, b) = AsOf(e, k, p, id, b)
  <2>1. Sooner(b, t) = b /\ b \in Int
    BY <1>2 DEF Sooner
  <2> QED
    BY <2>1, CutAsOf
<1> HIDE DEF cut, T
<1>6. Version(cut, k, ps, id, b)
        = [record |-> id, start |-> b, end |-> masked, values |-> [p \in ps |-> AsOf(e, k, p, id, b)]]
  BY <1>4, <1>5 DEF Version
<1> HIDE DEF masked
<1>7. [v EXCEPT !.end = masked]
        = [record |-> id, start |-> b, end |-> masked, values |-> [p \in ps |-> AsOf(e, k, p, id, b)]]
  <2> DEFINE next == NextOf(T, b)
             values == [p \in ps |-> AsOf(e, k, p, id, b)]
  <2>1. v = [record |-> id, start |-> b, end |-> next, values |-> values]
    BY DEF Version, T
  <2> HIDE DEF next, values, v
  <2>2. [v EXCEPT !.end = masked] = [record |-> id, start |-> b, end |-> masked, values |-> values]
    BY <2>1
  <2> QED
    BY <2>2 DEF values
<1> QED
  BY <1>6, <1>7 DEF masked, cut

LEMMA VersionsCut ==
    ASSUME NEW e, NEW at \in Nat, IsTape(e, at), NEW t \in 0 .. at, NEW k, NEW ps
    PROVE  CutVersions(VersionedIntervals(e, k, ps, <<>>), t)
             = VersionedIntervals(Truncated(e, t), k, ps, <<>>)
<1> DEFINE all == VersionedIntervals(e, k, ps, <<>>)
           cut == Truncated(e, t)
           short(v) == [v EXCEPT !.end = IF v.end # NULL /\ v.end > t THEN NULL ELSE v.end]
<1>1. \A v : v \in all <=> \E id : \E b \in Boundaries(e, k, ps, id) : v = Version(e, k, ps, id, b)
  BY VersionFacts
<1>2. \A v : v \in VersionedIntervals(cut, k, ps, <<>>) <=>
         \E id : \E b \in Boundaries(cut, k, ps, id) : v = Version(cut, k, ps, id, b)
  BY VersionFacts
<1>3. \A id : Boundaries(cut, k, ps, id) = {b \in Boundaries(e, k, ps, id) : b <= t}
  BY CutBoundaries
<1>4. \A id : \A b \in Boundaries(e, k, ps, id) :
         b <= t => Version(cut, k, ps, id, b) = short(Version(e, k, ps, id, b))
  BY VersionCut
<1>5. \A id, b : Version(e, k, ps, id, b).start = b
  BY DEF Version
<1>6. CutVersions(all, t) = {short(v) : v \in {w \in all : w.start <= t}}
  BY DEF CutVersions
<1> HIDE DEF all, cut, short
<1>7. \A v : v \in CutVersions(all, t) <=> v \in VersionedIntervals(cut, k, ps, <<>>)
  <2>1. ASSUME NEW v \in CutVersions(all, t) PROVE v \in VersionedIntervals(cut, k, ps, <<>>)
    <3>1. PICK w \in all : w.start <= t /\ v = short(w)
      BY <1>6
    <3>2. PICK id : \E b \in Boundaries(e, k, ps, id) : w = Version(e, k, ps, id, b)
      BY <1>1
    <3>3. PICK b \in Boundaries(e, k, ps, id) : w = Version(e, k, ps, id, b)
      BY <3>2
    <3> QED
      BY <1>2, <1>3, <1>4, <1>5, <3>1, <3>3
  <2>2. ASSUME NEW v \in VersionedIntervals(cut, k, ps, <<>>) PROVE v \in CutVersions(all, t)
    <3>1. PICK id : \E b \in Boundaries(cut, k, ps, id) : v = Version(cut, k, ps, id, b)
      BY <1>2
    <3>2. PICK b \in Boundaries(cut, k, ps, id) : v = Version(cut, k, ps, id, b)
      BY <3>1
    <3>3. b \in Boundaries(e, k, ps, id) /\ b <= t
      BY <1>3
    <3>4. Version(e, k, ps, id, b) \in all /\ v = short(Version(e, k, ps, id, b))
      BY <1>1, <1>4, <3>2, <3>3
    <3> QED
      BY <1>5, <1>6, <3>3, <3>4
  <2> QED
    BY <2>1, <2>2
<1> QED
  BY <1>7 DEF all, cut

---------------------------------------------------------------------------
(* The folds of a membership, cut.                                         *)

\* An interval as the tape truncated at t has it.
CutMember(m, t) == IF m[Left] # NULL /\ m[Left] > t THEN [m EXCEPT ![Left] = NULL] ELSE m

\* The intervals that began by t are the first ones of the table, so that each of
\* them keeps its place.
LEMMA CutMembers ==
    ASSUME NEW e, NEW at \in Nat, IsTape(e, at), NEW t \in Nat
    PROVE  LET rows == e.cat[MemberTable].rows
               kept == Truncated(e, t).cat[MemberTable].rows
           IN  /\ DOMAIN kept = {i \in DOMAIN rows : rows[i][Joined] <= t}
               /\ \A i \in DOMAIN kept : kept[i] = CutMember(rows[i], t)
<1> DEFINE n == MemberTable
           s == SpecFor(e, n)
           rows == e.cat[n].rows
           cut == Truncated(e, t)
           S == {i \in DOMAIN rows : rows[i][Fork] = Trunk(e) /\ rows[i][Joined] <= t}
           N == Len(rows)
<1>1. /\ n \in Tables(e) /\ s.name = n /\ s.category = "membership"
      /\ TablesNamed(e) /\ \A x \in e.specs : ColumnsNamed(e, x)
      /\ RowsShaped(e, n)
  BY TapeShape, CategoryFacts, SpecFacts
<1>2. cut.cat[n].rows = TruncatedMembership(e, n, t)
  <2>1. cut.cat[n].rows = TruncatedRows(e, s, t)
    BY <1>1, CutFacts
  <2> QED
    BY <1>1, <2>1 DEF TruncatedRows
<1>3. Until(e, n, Joined, t) = Only(rows, S)
  BY DEF Until
<1>4. /\ rows \in Seq(Range(rows)) /\ N \in Nat /\ DOMAIN rows = 1 .. N
      /\ \A i \in DOMAIN rows : rows[i][Fork] = Trunk(e)
  BY <1>1, TrunkFacts DEF RowsShaped
<1>5. S = {i \in DOMAIN rows : rows[i][Joined] <= t}
  BY <1>4
<1>6. \A i \in DOMAIN rows : rows[i][Joined] \in Nat
                             /\ \A j \in DOMAIN rows : i < j => rows[i][Joined] <= rows[j][Joined]
  BY DEF IsTape, MembersKept
<1>7. TruncatedMembership(e, n, t)
        = [i \in DOMAIN Only(rows, S) |-> CutMember(Only(rows, S)[i], t)]
  BY <1>3 DEF TruncatedMembership, CutMember
<1>8. \A i \in S : i \in 1 .. N /\ rows[i][Joined] <= t
  BY <1>4, <1>5
<1>9. \A i \in 1 .. N : i \notin S => rows[i][Joined] > t
  BY <1>4, <1>5, <1>6
<1> HIDE DEF rows, S, N
<1>10. PICK m \in 0 .. N : S = 1 .. m
  <2> DEFINE g == Greatest(S)
  <2>1. CASE S = {}
    <3>1. S = 1 .. 0 /\ 0 \in 0 .. N
      BY <1>4, <2>1
    <3> QED
      BY <3>1
  <2>2. CASE S # {}
    <3>1. S \in SUBSET (0 .. N)
      BY <1>4, <1>8
    <3>2. g \in S /\ \A i \in S : i <= g
      BY <1>4, <2>2, <3>1, GreatestFacts
    <3> HIDE DEF g
    <3>3. ASSUME NEW i \in 1 .. g PROVE i \in S
      <4>1. g \in 1 .. N /\ i \in 1 .. N /\ rows[g][Joined] <= t
        BY <1>4, <1>8, <3>2
      <4>2. rows[i][Joined] <= rows[g][Joined] /\ rows[i][Joined] \in Nat /\ rows[g][Joined] \in Nat
        BY <1>4, <1>6, <4>1
      <4> QED
        BY <1>9, <4>1, <4>2
    <3>4. \A i \in S : i \in 1 .. g
      BY <1>4, <1>8, <3>2
    <3>5. g \in 0 .. N /\ \A i : i \in S <=> i \in 1 .. g
      BY <1>4, <1>8, <3>2, <3>3, <3>4
    <3> QED
      BY <3>5
  <2> QED
    BY <2>1, <2>2
<1>11. Cardinality(S) = m
  BY <1>10, FS_Interval
<1>12. S \in SUBSET DOMAIN rows /\ \A x \in S : x \in 1 .. N
  BY <1>4, <1>8
<1>13. \A i \in 1 .. m : Ascending(S)[i] = i
  BY <1>4, <1>10, <1>12, AscendingPrefix
<1>14. DOMAIN Only(rows, S) = 1 .. m /\ \A i \in 1 .. m : Only(rows, S)[i] = rows[i]
  BY <1>4, <1>11, <1>12, <1>13, OnlyFacts
<1>15. /\ DOMAIN TruncatedMembership(e, n, t) = S
       /\ \A i \in S : TruncatedMembership(e, n, t)[i] = CutMember(rows[i], t)
  BY <1>7, <1>10, <1>14
<1> QED
  BY <1>2, <1>5, <1>15 DEF rows

LEMMA MemberLife ==
    ASSUME NEW e, NEW at \in Nat, IsTape(e, at)
    PROVE  LET rows == e.cat[MemberTable].rows IN
           \A i \in DOMAIN rows :
              /\ rows[i][Joined] \in 0 .. at /\ rows[i][Fork] = Trunk(e)
              /\ rows[i][Left] # NULL => rows[i][Left] \in rows[i][Joined] .. at
              /\ \E C : rows[i] = [c \in C |-> rows[i][c]] /\ Left \in C
<1>1. RowsShaped(e, MemberTable)
  BY TapeShape, CategoryFacts
<1>2. \A i \in DOMAIN e.cat[MemberTable].rows : e.cat[MemberTable].rows[i] \in Range(e.cat[MemberTable].rows)
  BY DEF Range
<1> QED
  BY <1>1, <1>2 DEF IsTape, MembersKept, RowsShaped

\* The truncated interval differs in its end only.
LEMMA CutMemberCells ==
    ASSUME NEW m, NEW C, m = [c \in C |-> m[c]], Left \in C, NEW t
    PROVE  /\ CutMember(m, t)[Left] = IF m[Left] # NULL /\ m[Left] > t THEN NULL ELSE m[Left]
           /\ \A c \in C : c # Left => CutMember(m, t)[c] = m[c]
BY DEF CutMember

\* The columns of a payload are the same on the truncated tape.
LEMMA CutMemberColumns ==
    ASSUME NEW e, NEW at, IsTape(e, at), NEW t, NEW fields
    PROVE  /\ ColumnNames(Truncated(e, t), MemberTable) = ColumnNames(e, MemberTable)
           /\ MembershipColumns(Truncated(e, t), MemberTable, fields)
                = MembershipColumns(e, MemberTable, fields)
           /\ \A c \in MembershipColumns(e, MemberTable, fields) :
                 c \in ColumnNames(e, MemberTable) /\ c # Left
<1> DEFINE n == MemberTable
           s == SpecFor(e, n)
           cut == Truncated(e, t)
<1>1. /\ n \in Tables(e) /\ s \in e.specs /\ s.name = n /\ s.category = "membership"
      /\ TablesNamed(e) /\ \A x \in e.specs : ColumnsNamed(e, x)
  BY TapeShape, CategoryFacts, SpecFacts
<1>2. TruncatedColumns(e, s) = s.cols
  BY <1>1 DEF TruncatedColumns
<1>3. /\ TablesNamed(cut) /\ \A x \in cut.specs : ColumnsNamed(cut, x)
      /\ n \in Tables(cut) /\ SpecFor(cut, n) = [s EXCEPT !.cols = s.cols]
  BY <1>1, <1>2, CutFacts
<1>4. SpecFor(cut, n) \in cut.specs /\ SpecFor(cut, n).name = n
  BY <1>3, SpecFacts
<1>5. SpecFor(cut, n).cols = s.cols
  BY <1>1, <1>3 DEF TablesNamed
<1> HIDE DEF cut, s
<1>6. ColumnNames(e, n) = {c.name : c \in Range(s.cols)}
  BY <1>1, ColumnFacts
<1>7. ColumnNames(cut, n) = {c.name : c \in Range(s.cols)}
  BY <1>3, <1>4, <1>5, ColumnFacts
<1>8. MembershipColumns(cut, n, fields) = MembershipColumns(e, n, fields)
  BY <1>6, <1>7 DEF MembershipColumns
<1>9. \A c \in MembershipColumns(e, n, fields) : c \in ColumnNames(e, n) /\ c # Left
  BY DEF MembershipColumns, Left
<1> QED
  BY <1>6, <1>7, <1>8, <1>9 DEF cut

\* One row of MembershipStateAt, and of MembershipEvents.
MemberRow(cs, m, i) ==
    [record |-> m[RecordId], joined |-> m[Joined], values |-> [c \in cs |-> m[c]], at |-> i]

MemberEvent(cs, m, i, time, class) ==
    [record |-> m[RecordId], time |-> time, class |-> class, after |-> [c \in cs |-> m[c]], at |-> i]

\* The truncated interval says the same of all but its end.
SameInterval(cs, m, q, t) ==
    /\ q[Fork] = m[Fork] /\ q[Joined] = m[Joined] /\ q[RecordId] = m[RecordId]
    /\ q[Left] = IF m[Left] # NULL /\ m[Left] > t THEN NULL ELSE m[Left]
    /\ \A c \in cs : q[c] = m[c]

LEMMA CutMemberRow ==
    ASSUME NEW e, NEW at \in Nat, IsTape(e, at), NEW t, NEW fields,
           NEW i \in DOMAIN e.cat[MemberTable].rows
    PROVE  SameInterval(MembershipColumns(e, MemberTable, fields), e.cat[MemberTable].rows[i],
                        CutMember(e.cat[MemberTable].rows[i], t), t)
<1> DEFINE m == e.cat[MemberTable].rows[i]
           q == CutMember(m, t)
           C == ColumnNames(e, MemberTable)
           cs == MembershipColumns(e, MemberTable, fields)
<1>1. m = [c \in C |-> m[c]]
  <2>1. RowsShaped(e, MemberTable) /\ m \in Range(e.cat[MemberTable].rows)
    BY TapeShape, CategoryFacts DEF Range
  <2> QED
    BY <2>1 DEF RowsShaped
<1>2. {Fork, RecordId, Joined, Left} \subseteq C
  BY DEF IsTape, MembersKept
<1>3. Fork # Left /\ RecordId # Left /\ Joined # Left
  BY DEF Fork, RecordId, Joined, Left
<1>4. \A c \in cs : c \in C /\ c # Left
  BY CutMemberColumns
<1> HIDE DEF m, C, cs
<1>5. /\ q[Left] = IF m[Left] # NULL /\ m[Left] > t THEN NULL ELSE m[Left]
      /\ \A c \in C : c # Left => q[c] = m[c]
  BY <1>1, <1>2, CutMemberCells
<1> HIDE DEF q
<1>6. \A c \in cs : q[c] = m[c]
  BY <1>4, <1>5
<1>7. SameInterval(cs, m, q, t)
  BY <1>2, <1>3, <1>5, <1>6 DEF SameInterval
<1> QED
  BY <1>7 DEF m, q, cs

\* Who is a member at an instant is who is a member in the end of the tape truncated there.
LEMMA MembersCut ==
    ASSUME NEW e, NEW at \in 0 .. LastTime, IsTape(e, at), NEW t \in 0 .. at, NEW fields
    PROVE  MembershipStateAt(e, MemberTable, fields, t + 1)
             = MembershipStateAt(Truncated(e, t), MemberTable, fields, Forever + 1)
<1> DEFINE rows == e.cat[MemberTable].rows
           cut == Truncated(e, t)
           kept == cut.cat[MemberTable].rows
           cs == MembershipColumns(e, MemberTable, fields)
           now1 == {j \in DOMAIN rows : /\ rows[j][Fork] = Trunk(e) /\ rows[j][Joined] < t + 1
                                        /\ rows[j][Left] = NULL \/ rows[j][Left] >= t + 1}
           now2 == {j \in DOMAIN kept : /\ kept[j][Fork] = Trunk(cut) /\ kept[j][Joined] < Forever + 1
                                        /\ kept[j][Left] = NULL \/ kept[j][Left] >= Forever + 1}
<1>0. LastTime \in Nat /\ Forever \in Nat /\ Forever = LastTime + 1 /\ at \in Nat /\ t \in Nat
      /\ t <= at /\ at <= LastTime
  BY TapeAssumption DEF Forever
<1>1. Trunk(cut) = Trunk(e) /\ MembershipColumns(cut, MemberTable, fields) = cs
  BY TapeShape, CutFacts, CutMemberColumns
<1>2. /\ DOMAIN kept = {i \in DOMAIN rows : rows[i][Joined] <= t}
      /\ \A i \in DOMAIN kept : kept[i] = CutMember(rows[i], t)
  BY <1>0, CutMembers
<1>3. \A i \in DOMAIN rows :
         LET q == CutMember(rows[i], t) IN
         /\ q[Fork] = rows[i][Fork] /\ q[Joined] = rows[i][Joined] /\ q[RecordId] = rows[i][RecordId]
         /\ q[Left] = IF rows[i][Left] # NULL /\ rows[i][Left] > t THEN NULL ELSE rows[i][Left]
         /\ \A c \in cs : q[c] = rows[i][c]
  <2>1. \A i \in DOMAIN rows : SameInterval(cs, rows[i], CutMember(rows[i], t), t)
    BY <1>0, CutMemberRow
  <2> HIDE DEF rows, cs
  <2> QED
    BY <2>1 DEF SameInterval
<1>4. \A i \in DOMAIN rows : /\ rows[i][Joined] \in Nat /\ rows[i][Joined] <= at
                             /\ rows[i][Fork] = Trunk(e)
                             /\ rows[i][Left] # NULL => rows[i][Left] \in Nat /\ rows[i][Left] <= at
  BY <1>0, MemberLife
<1>5. MembershipStateAt(e, MemberTable, fields, t + 1) = {MemberRow(cs, rows[i], i) : i \in now1}
  BY DEF MembershipStateAt, MemberRow
<1>6. MembershipStateAt(cut, MemberTable, fields, Forever + 1) = {MemberRow(cs, kept[i], i) : i \in now2}
  BY <1>1 DEF MembershipStateAt, MemberRow
<1> HIDE DEF rows, cut, cs, kept
<1>7. now1 = now2
  <2>1. ASSUME NEW j \in DOMAIN rows PROVE j \in now1 <=> j \in now2
    <3>1. CASE rows[j][Joined] <= t
      <4>1. /\ j \in DOMAIN kept /\ kept[j][Fork] = Trunk(cut)
            /\ kept[j][Joined] = rows[j][Joined]
            /\ kept[j][Left] = IF rows[j][Left] # NULL /\ rows[j][Left] > t THEN NULL ELSE rows[j][Left]
        BY <1>1, <1>2, <1>3, <1>4, <3>1
      <4>2. kept[j][Joined] < Forever + 1 /\ rows[j][Joined] < t + 1
        BY <1>0, <1>4, <3>1, <4>1
      <4>3. (rows[j][Left] = NULL \/ rows[j][Left] >= t + 1)
              <=> (kept[j][Left] = NULL \/ kept[j][Left] >= Forever + 1)
        <5>1. CASE rows[j][Left] = NULL
          BY <4>1, <5>1
        <5>2. CASE rows[j][Left] # NULL
          <6>1. rows[j][Left] \in Nat /\ rows[j][Left] <= at
            BY <1>4, <5>2
          <6> QED
            BY <1>0, <4>1, <5>2, <6>1
        <5> QED
          BY <5>1, <5>2
      <4> QED
        BY <1>4, <4>1, <4>2, <4>3
    <3>2. CASE ~(rows[j][Joined] <= t)
      BY <1>0, <1>2, <1>4, <3>2
    <3> QED
      BY <3>1, <3>2
  <2>2. now2 \subseteq DOMAIN rows
    BY <1>2
  <2> QED
    BY <2>1, <2>2
<1>8. ASSUME NEW i \in now2 PROVE MemberRow(cs, kept[i], i) = MemberRow(cs, rows[i], i)
  <2>1. i \in DOMAIN rows /\ i \in DOMAIN kept
    BY <1>2
  <2>2. kept[i][RecordId] = rows[i][RecordId] /\ kept[i][Joined] = rows[i][Joined]
        /\ \A c \in cs : kept[i][c] = rows[i][c]
    BY <1>2, <1>3, <2>1
  <2>3. [c \in cs |-> kept[i][c]] = [c \in cs |-> rows[i][c]]
    BY <2>2
  <2> QED
    BY <2>2, <2>3 DEF MemberRow
<1> HIDE DEF now1, now2
<1> QED
  BY <1>5, <1>6, <1>7, <1>8 DEF cut

\* What happens to a membership, and when.
MemberHappens(m, time, class) ==
    \/ class = Join /\ time = m[Joined]
    \/ class = Leave /\ time = m[Left] /\ time # NULL

TellsOf(rows, trunk, cs, ev) ==
    \E i \in DOMAIN rows : /\ rows[i][Fork] = trunk
                           /\ \E time, class : /\ MemberHappens(rows[i], time, class)
                                               /\ ev = MemberEvent(cs, rows[i], i, time, class)

LEMMA MemberEventFacts ==
    ASSUME NEW e, NEW n, NEW fs
    PROVE  \A ev : ev \in MembershipEvents(e, n, fs) <=>
              TellsOf(e.cat[n].rows, Trunk(e), MembershipColumns(e, n, fs), ev)
<1> DEFINE rows == e.cat[n].rows
           cs == MembershipColumns(e, n, fs)
           ours == {i \in DOMAIN rows : rows[i][Fork] = Trunk(e)}
<1>1. MembershipEvents(e, n, fs)
        = {MemberEvent(cs, rows[i], i, rows[i][Joined], Join) : i \in ours}
          \cup {MemberEvent(cs, rows[i], i, rows[i][Left], Leave) : i \in {j \in ours : rows[j][Left] # NULL}}
  BY DEF MembershipEvents, MemberEvent
<1> HIDE DEF rows, cs
<1>2. ASSUME NEW ev
      PROVE  ev \in MembershipEvents(e, n, fs) <=> TellsOf(rows, Trunk(e), cs, ev)
  BY <1>1 DEF MemberHappens, TellsOf
<1> QED
  BY <1>2 DEF rows, cs

\* The interval of row i and what the truncated tape has of it tell the same up to t.
LEMMA MemberHappensCut ==
    ASSUME NEW e, NEW at \in 0 .. LastTime, IsTape(e, at), NEW t \in 0 .. at,
           NEW i \in DOMAIN e.cat[MemberTable].rows, NEW time, NEW class
    PROVE  LET m == e.cat[MemberTable].rows[i] IN
           MemberHappens(m, time, class) /\ time <= t
             <=> m[Joined] <= t /\ MemberHappens(CutMember(m, t), time, class)
<1> DEFINE m == e.cat[MemberTable].rows[i]
           q == CutMember(m, t)
<1>1. at \in Nat /\ t \in Nat
  BY TapeAssumption
<1>2. SameInterval(MembershipColumns(e, MemberTable, {}), m, q, t)
  BY <1>1, CutMemberRow
<1>3. m[Joined] \in 0 .. at /\ (m[Left] # NULL => m[Left] \in m[Joined] .. at)
  BY <1>1, MemberLife
<1>4. NULL \notin Int
  BY NullFacts
<1> HIDE DEF m, q
<1>5. /\ q[Joined] = m[Joined]
      /\ q[Left] = IF m[Left] # NULL /\ m[Left] > t THEN NULL ELSE m[Left]
  BY <1>2 DEF SameInterval
<1> SUFFICES MemberHappens(m, time, class) /\ time <= t
              <=> m[Joined] <= t /\ MemberHappens(q, time, class)
  BY DEF m, q
<1>6. CASE m[Left] = NULL
  <2>1. q[Left] = NULL
    BY <1>5, <1>6
  <2> QED
    BY <1>5, <1>6, <2>1 DEF MemberHappens
<1>7. CASE m[Left] # NULL
  <2>1. m[Left] \in Nat /\ m[Joined] \in Nat /\ m[Joined] <= m[Left]
    BY <1>1, <1>3, <1>7
  <2>2. q[Left] = IF m[Left] > t THEN NULL ELSE m[Left]
    BY <1>5, <1>7
  <2> QED
    BY <1>1, <1>4, <1>5, <1>7, <2>1, <2>2 DEF MemberHappens, Join, Leave
<1> QED
  BY <1>6, <1>7

\* The events up to an instant are the events of the tape truncated there.
LEMMA MemberEventsCut ==
    ASSUME NEW e, NEW at \in 0 .. LastTime, IsTape(e, at), NEW t \in 0 .. at, NEW fields
    PROVE  {ev \in MembershipEvents(e, MemberTable, fields) : ev.time <= t}
             = MembershipEvents(Truncated(e, t), MemberTable, fields)
<1> DEFINE rows == e.cat[MemberTable].rows
           cut == Truncated(e, t)
           kept == cut.cat[MemberTable].rows
           cs == MembershipColumns(e, MemberTable, fields)
<1>0. at \in Nat /\ t \in Nat
  BY TapeAssumption
<1>1. Trunk(cut) = Trunk(e) /\ MembershipColumns(cut, MemberTable, fields) = cs
  BY TapeShape, CutFacts, CutMemberColumns
<1>2. /\ DOMAIN kept = {i \in DOMAIN rows : rows[i][Joined] <= t}
      /\ \A i \in DOMAIN kept : kept[i] = CutMember(rows[i], t)
  BY <1>0, CutMembers
<1>3. \A i \in DOMAIN rows : rows[i][Fork] = Trunk(e)
  BY <1>0, MemberLife
<1>4. ASSUME NEW i \in DOMAIN rows, NEW time, NEW class
      PROVE  /\ MemberHappens(rows[i], time, class) /\ time <= t
                  <=> rows[i][Joined] <= t /\ MemberHappens(CutMember(rows[i], t), time, class)
             /\ MemberEvent(cs, CutMember(rows[i], t), i, time, class)
                  = MemberEvent(cs, rows[i], i, time, class)
             /\ CutMember(rows[i], t)[Fork] = rows[i][Fork]
  <2>1. SameInterval(cs, rows[i], CutMember(rows[i], t), t)
    BY <1>0, CutMemberRow
  <2>2. MemberHappens(rows[i], time, class) /\ time <= t
          <=> rows[i][Joined] <= t /\ MemberHappens(CutMember(rows[i], t), time, class)
    BY MemberHappensCut
  <2> HIDE DEF rows, cs
  <2>3. [c \in cs |-> CutMember(rows[i], t)[c]] = [c \in cs |-> rows[i][c]]
    BY <2>1 DEF SameInterval
  <2> QED
    BY <2>1, <2>2, <2>3 DEF SameInterval, MemberEvent
<1>5. \A ev : ev \in MembershipEvents(e, MemberTable, fields) <=>
         \E i \in DOMAIN rows : \E time, class :
            MemberHappens(rows[i], time, class) /\ ev = MemberEvent(cs, rows[i], i, time, class)
  <2>1. \A ev : ev \in MembershipEvents(e, MemberTable, fields) <=> TellsOf(rows, Trunk(e), cs, ev)
    BY MemberEventFacts
  <2> HIDE DEF rows, cs
  <2> QED
    BY <1>3, <2>1 DEF TellsOf
<1>6. \A ev : ev \in MembershipEvents(cut, MemberTable, fields) <=>
         \E i \in DOMAIN kept : kept[i][Fork] = Trunk(cut) /\ \E time, class :
            MemberHappens(kept[i], time, class) /\ ev = MemberEvent(cs, kept[i], i, time, class)
  <2>1. \A ev : ev \in MembershipEvents(cut, MemberTable, fields) <=>
           TellsOf(kept, Trunk(cut), MembershipColumns(cut, MemberTable, fields), ev)
    BY MemberEventFacts
  <2> HIDE DEF cut, kept, cs
  <2> QED
    BY <1>1, <2>1 DEF TellsOf
<1>7. \A i, time, class : MemberEvent(cs, rows[i], i, time, class).time = time
  BY DEF MemberEvent
<1> HIDE DEF rows, cut, kept, cs
<1>8. ASSUME NEW ev
      PROVE  ev \in MembershipEvents(e, MemberTable, fields) /\ ev.time <= t
               <=> ev \in MembershipEvents(cut, MemberTable, fields)
  <2>1. ASSUME ev \in MembershipEvents(e, MemberTable, fields), ev.time <= t
        PROVE  ev \in MembershipEvents(cut, MemberTable, fields)
    <3>1. PICK i \in DOMAIN rows : \E time, class :
             MemberHappens(rows[i], time, class) /\ ev = MemberEvent(cs, rows[i], i, time, class)
      BY <1>5, <2>1
    <3>2. PICK time, class :
             MemberHappens(rows[i], time, class) /\ ev = MemberEvent(cs, rows[i], i, time, class)
      BY <3>1
    <3>3. time <= t
      BY <1>7, <2>1, <3>2
    <3>4. i \in DOMAIN kept /\ kept[i] = CutMember(rows[i], t) /\ kept[i][Fork] = Trunk(cut)
      BY <1>1, <1>2, <1>3, <1>4, <3>2, <3>3
    <3>5. MemberHappens(kept[i], time, class) /\ ev = MemberEvent(cs, kept[i], i, time, class)
      BY <1>4, <3>2, <3>3, <3>4
    <3> QED
      BY <1>6, <3>4, <3>5
  <2>2. ASSUME ev \in MembershipEvents(cut, MemberTable, fields)
        PROVE  ev \in MembershipEvents(e, MemberTable, fields) /\ ev.time <= t
    <3>1. PICK i \in DOMAIN kept : \E time, class :
             MemberHappens(kept[i], time, class) /\ ev = MemberEvent(cs, kept[i], i, time, class)
      BY <1>6, <2>2
    <3>2. PICK time, class :
             MemberHappens(kept[i], time, class) /\ ev = MemberEvent(cs, kept[i], i, time, class)
      BY <3>1
    <3>3. i \in DOMAIN rows /\ rows[i][Joined] <= t /\ kept[i] = CutMember(rows[i], t)
      BY <1>2
    <3>4. MemberHappens(rows[i], time, class) /\ time <= t
          /\ ev = MemberEvent(cs, rows[i], i, time, class)
      BY <1>4, <3>2, <3>3
    <3> QED
      BY <1>5, <1>7, <3>3, <3>4
  <2> QED
    BY <2>1, <2>2
<1> QED
  BY <1>8 DEF cut

\* The keys of the records of an instant are all the keys of the tape truncated there.
LEMMA IndexCut ==
    ASSUME NEW e, NEW at \in Nat, IsTape(e, at), NEW t \in 0 .. at, NEW k \in Kinds
    PROVE  RecordIndexAt(e, k, t + 1) = RecordIndexAt(Truncated(e, t), k, NULL)
<1> DEFINE rows == TrunkRows(e, RecordsOf(k))
           old == {q \in rows : q[Created] <= t}
           cut == TrunkRows(Truncated(e, t), RecordsOf(k))
<1>1. RecordsOf(k) \in Tables(e) /\ RowsShaped(e, RecordsOf(k))
  BY TapeShape, CategoryFacts
<1>2. rows = TableRows(e, RecordsOf(k))
  BY <1>1, TrunkFacts
<1>3. cut = {CutRecord(e, k, r, t) : r \in old}
  BY <1>2, CutRecords
<1>4. \A r \in rows : r[Created] \in 0 .. at
  BY <1>2, RecordLife
<1>5. t + 1 # NULL
  BY NullFacts
<1>6. \A r : CutRecord(e, k, r, t)[RecordId] = r[RecordId]
             /\ CutRecord(e, k, r, t)[RecordIndex] = r[RecordIndex]
  BY CutRecordCells
<1>7. RecordIndexAt(e, k, t + 1)
        = {<<r[RecordId], r[RecordIndex]>> : r \in {q \in rows : q[Created] < t + 1}}
  BY <1>5 DEF RecordIndexAt
<1>8. RecordIndexAt(Truncated(e, t), k, NULL) = {<<r[RecordId], r[RecordIndex]>> : r \in cut}
  BY DEF RecordIndexAt
<1> HIDE DEF rows, cut
<1>9. \A q \in rows : q[Created] < t + 1 <=> q[Created] <= t
  BY <1>4
<1>10. {q \in rows : q[Created] < t + 1} = old
  BY <1>9
<1> HIDE DEF old
<1>11. {<<r[RecordId], r[RecordIndex]>> : r \in cut} = {<<r[RecordId], r[RecordIndex]>> : r \in old}
  BY <1>3, <1>6
<1> QED
  BY <1>7, <1>8, <1>10, <1>11

LEMMA PresentationCut ==
    ASSUME NEW e, NEW at \in Nat, IsTape(e, at), NEW t \in 0 .. at, NEW k \in Kinds,
           HasPresentationId(e, k)
    PROVE  PresentationKeyAt(e, k, t + 1) = PresentationKeyAt(Truncated(e, t), k, NULL)
<1> DEFINE rows == TrunkRows(e, RecordsOf(k))
           old == {q \in rows : q[Created] <= t}
           cut == TrunkRows(Truncated(e, t), RecordsOf(k))
<1>1. RecordsOf(k) \in Tables(e) /\ RowsShaped(e, RecordsOf(k))
  BY TapeShape, CategoryFacts
<1>2. rows = TableRows(e, RecordsOf(k))
  BY <1>1, TrunkFacts
<1>3. cut = {CutRecord(e, k, r, t) : r \in old}
  BY <1>2, CutRecords
<1>4. \A r \in rows : r[Created] \in 0 .. at
  BY <1>2, RecordLife
<1>5. t + 1 # NULL
  BY NullFacts
<1>6. \A r : CutRecord(e, k, r, t)[RecordId] = r[RecordId]
             /\ CutRecord(e, k, r, t)[Presented] = r[Presented]
  BY CutRecordCells DEF HasPresentationId
<1>7. PresentationKeyAt(e, k, t + 1)
        = {<<r[RecordId], r[Presented]>> : r \in {q \in rows : q[Created] < t + 1}}
  BY <1>5 DEF PresentationKeyAt
<1>8. PresentationKeyAt(Truncated(e, t), k, NULL) = {<<r[RecordId], r[Presented]>> : r \in cut}
  BY DEF PresentationKeyAt
<1> HIDE DEF rows, cut
<1>9. \A q \in rows : q[Created] < t + 1 <=> q[Created] <= t
  BY <1>4
<1>10. {q \in rows : q[Created] < t + 1} = old
  BY <1>9
<1> HIDE DEF old
<1>11. {<<r[RecordId], r[Presented]>> : r \in cut} = {<<r[RecordId], r[Presented]>> : r \in old}
  BY <1>3, <1>6
<1> QED
  BY <1>7, <1>8, <1>10, <1>11

---------------------------------------------------------------------------
(* The derivations of a tape agree.                                        *)

LEMMA FoldsAgree ==
    ASSUME now \in 0 .. LastTime, IsTape(emit, now)
    PROVE  FoldsCommute
<1> SUFFICES ASSUME NEW t \in 0 .. now
             PROVE  LET cut   == Truncated(emit, t)
                        table == MemberTable
                        fields == FullFields(emit, table)
                        upTo(events) == {ev \in events : ev.time <= t}
                    IN  /\ MembershipStateAt(emit, table, fields, t + 1)
                             = MembershipStateAt(cut, table, fields, Forever + 1)
                        /\ upTo(MembershipEvents(emit, table, fields)) = MembershipEvents(cut, table, fields)
                        /\ \A k \in Kinds :
                              LET full    == FullProperties(emit, k)
                                  tracked == TrackedAmong(emit, k, full)
                              IN  /\ StateAt(emit, k, full, t + 1) = StateAt(cut, k, full, Forever + 1)
                                  /\ upTo(RowStateEvents(emit, k, full, full)) = RowStateEvents(cut, k, full, full)
                                  /\ RecordIndexAt(emit, k, t + 1) = RecordIndexAt(cut, k, NULL)
                                  /\ HasPresentationId(emit, k) =>
                                        PresentationKeyAt(emit, k, t + 1) = PresentationKeyAt(cut, k, NULL)
                                  /\ tracked # {} =>
                                        CutVersions(VersionedIntervals(emit, k, tracked, <<>>), t)
                                          = VersionedIntervals(cut, k, tracked, <<>>)
  BY DEF FoldsCommute
<1>1. now \in Nat
  BY TapeAssumption
<1>2. /\ MembershipStateAt(emit, MemberTable, FullFields(emit, MemberTable), t + 1)
           = MembershipStateAt(Truncated(emit, t), MemberTable, FullFields(emit, MemberTable), Forever + 1)
      /\ {ev \in MembershipEvents(emit, MemberTable, FullFields(emit, MemberTable)) : ev.time <= t}
           = MembershipEvents(Truncated(emit, t), MemberTable, FullFields(emit, MemberTable))
  BY MembersCut, MemberEventsCut
<1>3. ASSUME NEW k \in Kinds
      PROVE  LET full    == FullProperties(emit, k)
                 tracked == TrackedAmong(emit, k, full)
                 cut     == Truncated(emit, t)
             IN  /\ StateAt(emit, k, full, t + 1) = StateAt(cut, k, full, Forever + 1)
                 /\ {ev \in RowStateEvents(emit, k, full, full) : ev.time <= t}
                      = RowStateEvents(cut, k, full, full)
                 /\ RecordIndexAt(emit, k, t + 1) = RecordIndexAt(cut, k, NULL)
                 /\ HasPresentationId(emit, k) =>
                       PresentationKeyAt(emit, k, t + 1) = PresentationKeyAt(cut, k, NULL)
                 /\ CutVersions(VersionedIntervals(emit, k, tracked, <<>>), t)
                      = VersionedIntervals(cut, k, tracked, <<>>)
  <2>1. StateAt(emit, k, FullProperties(emit, k), t + 1)
          = StateAt(Truncated(emit, t), k, FullProperties(emit, k), Forever + 1)
    BY StateCut
  <2>2. {ev \in RowStateEvents(emit, k, FullProperties(emit, k), FullProperties(emit, k)) : ev.time <= t}
          = RowStateEvents(Truncated(emit, t), k, FullProperties(emit, k), FullProperties(emit, k))
    BY <1>1, EventsCut
  <2>3. RecordIndexAt(emit, k, t + 1) = RecordIndexAt(Truncated(emit, t), k, NULL)
    BY <1>1, IndexCut
  <2>4. HasPresentationId(emit, k) =>
           PresentationKeyAt(emit, k, t + 1) = PresentationKeyAt(Truncated(emit, t), k, NULL)
    BY <1>1, PresentationCut
  <2>5. CutVersions(VersionedIntervals(emit, k, TrackedAmong(emit, k, FullProperties(emit, k)), <<>>), t)
          = VersionedIntervals(Truncated(emit, t), k, TrackedAmong(emit, k, FullProperties(emit, k)), <<>>)
    BY <1>1, VersionsCut
  <2> QED
    BY <2>1, <2>2, <2>3, <2>4, <2>5
<1> QED
  BY <1>2, <1>3

\* The tracked properties of a record change first when it is created.
LEMMA FirstBoundary ==
    ASSUME NEW e, NEW at \in Nat, IsTape(e, at), NEW k \in Kinds,
           TrackedAmong(e, k, FullProperties(e, k)) # {}, NEW r \in TableRows(e, RecordsOf(k))
    PROVE  r[Created] \in Boundaries(e, k, TrackedAmong(e, k, FullProperties(e, k)), r[RecordId])
<1> DEFINE tracked == TrackedAmong(e, k, FullProperties(e, k))
<1>1. PICK p \in tracked : TRUE
  OBVIOUS
<1> DEFINE c == ColumnFor(e, RecordsOf(k), PropOf(p))
<1>2. p \in FullProperties(e, k) /\ c.tracked = TRUE
  BY <1>1 DEF TrackedAmong
<1>3. c.name = PropOf(p) /\ c \in PropColumns(SpecFor(e, RecordsOf(k)))
  BY <1>2, FullFacts
<1> HIDE DEF c, tracked
<1>4. c.name[2] = p
  BY <1>3 DEF PropOf
<1>5. PICK h \in TableRows(e, History) :
         h[Kind] = k /\ h[Property] = c.name[2] /\ h[RecordId] = r[RecordId] /\ h[SimTime] = r[Created]
  BY <1>2, <1>3 DEF IsTape, HistoryKept
<1>6. h \in Series(e, k, p, r[RecordId])
  BY <1>4, <1>5, SeriesFacts
<1>7. r[Created] \in Boundaries(e, k, tracked, r[RecordId])
  BY <1>1, <1>5, <1>6, BoundaryFacts
<1> QED
  BY <1>7 DEF tracked

\* The version over an instant.
Over(v, t) == v.start <= t /\ (v.end = NULL \/ t < v.end)

\* It is the one that starts at the last boundary.
LEMMA OneVersion ==
    ASSUME NEW e, NEW at \in Nat, IsTape(e, at), NEW k, NEW ps, NEW id, NEW t \in 0 .. at,
           NEW b \in Boundaries(e, k, ps, id), b <= t,
           \A x \in Boundaries(e, k, ps, id) : x <= t => x <= b
    PROVE  /\ Over(Version(e, k, ps, id, b), t)
           /\ \A x \in Boundaries(e, k, ps, id) : Over(Version(e, k, ps, id, x), t) => x = b
<1> DEFINE B == Boundaries(e, k, ps, id)
<1>1. B \in SUBSET Nat /\ b \in Nat /\ t \in Nat
  BY BoundaryFacts
<1>2. NULL \notin Int
  BY NullFacts
<1>3. \A x : Version(e, k, ps, id, x).start = x /\ Version(e, k, ps, id, x).end = NextOf(B, x)
  BY DEF Version
<1> HIDE DEF B
<1>4. b <= t /\ (NextOf(B, b) = NULL \/ t < NextOf(B, b))
  <2>1. CASE \A u \in B : u <= b
    BY <1>1, <2>1, NextFacts
  <2>2. CASE ~(\A u \in B : u <= b)
    <3>1. NextOf(B, b) \in B /\ NextOf(B, b) > b
      BY <1>1, <2>2, NextFacts
    <3>2. NextOf(B, b) \in Nat /\ (NextOf(B, b) <= t => NextOf(B, b) <= b)
      BY <1>1, <3>1 DEF B
    <3> QED
      BY <1>1, <3>1, <3>2
  <2> QED
    BY <2>1, <2>2
<1>5. ASSUME NEW x \in B, x <= t, NextOf(B, x) = NULL \/ t < NextOf(B, x) PROVE x = b
  <2>1. x \in Nat /\ x <= b /\ b \in B
    BY <1>1, <1>5 DEF B
  <2>2. CASE x < b
    <3>1. ~(\A u \in B : u <= x)
      BY <1>1, <2>1, <2>2
    <3>2. NextOf(B, x) \in B /\ \A u \in B : u > x => NextOf(B, x) <= u
      BY <1>1, <2>1, <3>1, NextFacts
    <3>3. NextOf(B, x) \in Nat /\ NextOf(B, x) <= b
      BY <1>1, <2>1, <2>2, <3>2
    <3> QED
      BY <1>1, <1>2, <1>5, <3>3
  <2> QED
    BY <1>1, <2>1, <2>2
<1> QED
  BY <1>3, <1>4, <1>5 DEF Over, B

LEMMA VersionsTile ==
    ASSUME NEW e, NEW at \in Nat, IsTape(e, at), NEW k \in Kinds, NEW t \in 0 .. at,
           TrackedAmong(e, k, FullProperties(e, k)) # {},
           NEW s \in StateAt(e, k, TrackedAmong(e, k, FullProperties(e, k)), t + 1)
    PROVE  LET tracked  == TrackedAmong(e, k, FullProperties(e, k))
               versions == VersionedIntervals(e, k, tracked, <<>>)
           IN  /\ Cardinality({v \in versions : v.record = s.record /\ Over(v, t)}) = 1
               /\ \A v \in versions : v.record = s.record /\ Over(v, t) => v.values = s.values
<1> DEFINE tracked == TrackedAmong(e, k, FullProperties(e, k))
           versions == VersionedIntervals(e, k, tracked, <<>>)
           rows == TableRows(e, RecordsOf(k))
<1>1. TrunkRows(e, RecordsOf(k)) = rows
  BY TapeShape, CategoryFacts, TrunkFacts
<1>2. t \in Int /\ t + 1 \in Int
  OBVIOUS
<1>3. PICK r \in rows : r[Created] < t + 1 /\ s = StateRow(e, k, tracked, r, t)
  BY <1>1, <1>2, StateAtRows
<1> DEFINE id == r[RecordId]
           B == Boundaries(e, k, tracked, id)
           til == {x \in B : x <= t}
           b == Greatest(til)
<1>4. r[Created] \in B /\ r[Created] \in 0 .. at
  BY <1>3, FirstBoundary, RecordLife
<1>5. B \subseteq 0 .. at
  BY BoundaryFacts
<1> HIDE DEF B
<1>6. b \in B /\ b <= t /\ \A x \in B : x <= t => x <= b
  <2>1. r[Created] <= t
    <3>1. r[Created] \in Int /\ r[Created] < t + 1
      BY <1>3, <1>4
    <3> QED
      BY <1>2, <3>1
  <2> HIDE DEF id
  <2>2. til \in SUBSET (0 .. at) /\ til # {}
    BY <1>4, <1>5, <2>1
  <2> QED
    BY <2>2, GreatestFacts
<1> HIDE DEF b, til
<1>7. /\ Over(Version(e, k, tracked, id, b), t)
      /\ \A x \in B : Over(Version(e, k, tracked, id, x), t) => x = b
  BY <1>6, OneVersion DEF B
<1>8. \A v : v \in versions <=> \E i : \E x \in Boundaries(e, k, tracked, i) : v = Version(e, k, tracked, i, x)
  BY VersionFacts
<1>9. \A i, x : Version(e, k, tracked, i, x).record = i
                /\ Version(e, k, tracked, i, x).values = [p \in tracked |-> AsOf(e, k, p, i, x)]
  BY DEF Version
<1>10. s.record = id /\ s.values = [p \in tracked |-> TextAt(e, k, r, p, t)]
  BY <1>3 DEF StateRow
<1>11. \A p \in tracked : TextAt(e, k, r, p, t) = AsOf(e, k, p, id, b)
  <2>1. ASSUME NEW p \in tracked PROVE TextAt(e, k, r, p, t) = AsOf(e, k, p, id, b)
    <3>1. TextAt(e, k, r, p, t) = AsOf(e, k, p, id, t)
      BY DEF TrackedAmong, TextAt
    <3>2. \A h \in Series(e, k, p, id) : h[SimTime] \in 0 .. at /\ h[SimTime] \in B
      BY SeriesFacts, BoundaryFacts DEF B
    <3>3. b \in Int
      BY <1>5, <1>6
    <3> HIDE DEF id, tracked
    <3>4. \A h \in Series(e, k, p, id) : h[SimTime] <= b <=> h[SimTime] <= t
      BY <1>2, <1>6, <3>2, <3>3
    <3>5. SeriesTo(e, k, p, id, b) = SeriesTo(e, k, p, id, t)
      BY <3>4 DEF SeriesTo
    <3>6. AsOf(e, k, p, id, t) = AsOf(e, k, p, id, b)
      BY <1>2, <3>2, <3>3, <3>5, AsOfSame
    <3> QED
      BY <3>1, <3>6
  <2> QED
    BY <2>1
<1> HIDE DEF tracked, versions, id
<1>12. [p \in tracked |-> TextAt(e, k, r, p, t)] = [p \in tracked |-> AsOf(e, k, p, id, b)]
  BY <1>11
<1>13. Version(e, k, tracked, id, b) \in versions
  BY <1>6, <1>8 DEF B
<1>14. ASSUME NEW v \in versions, v.record = s.record, Over(v, t)
       PROVE  v = Version(e, k, tracked, id, b)
  BY <1>7, <1>8, <1>9, <1>10, <1>14 DEF B
<1>15. {v \in versions : v.record = s.record /\ Over(v, t)} = {Version(e, k, tracked, id, b)}
  BY <1>7, <1>9, <1>10, <1>13, <1>14
<1>16. Cardinality({Version(e, k, tracked, id, b)}) = 1
  BY FS_Singleton
<1>17. \A v \in versions : v.record = s.record /\ Over(v, t) => v.values = s.values
  BY <1>9, <1>10, <1>12, <1>14
<1> QED
  BY <1>15, <1>16, <1>17 DEF versions, tracked

LEMMA VersionsAgree ==
    ASSUME now \in 0 .. LastTime, IsTape(emit, now)
    PROVE  VersionsAreStates
<1>1. now \in Nat
  BY TapeAssumption
<1>2. ASSUME NEW k \in Kinds, TrackedAmong(emit, k, FullProperties(emit, k)) # {}, NEW t \in 0 .. now,
             NEW s \in StateAt(emit, k, TrackedAmong(emit, k, FullProperties(emit, k)), t + 1)
      PROVE  LET versions == VersionedIntervals(emit, k, TrackedAmong(emit, k, FullProperties(emit, k)), <<>>)
             IN  /\ Cardinality({v \in versions : v.record = s.record /\ Over(v, t)}) = 1
                 /\ \A v \in versions : v.record = s.record /\ Over(v, t) => v.values = s.values
  BY <1>1, <1>2, VersionsTile
<1>3. ASSUME NEW k \in Kinds, TrackedAmong(emit, k, FullProperties(emit, k)) # {}
      PROVE  LET tracked  == TrackedAmong(emit, k, FullProperties(emit, k))
                 versions == VersionedIntervals(emit, k, tracked, <<>>)
             IN  \A t \in 0 .. now : \A s \in StateAt(emit, k, tracked, t + 1) :
                    /\ Cardinality({v \in versions : v.record = s.record /\ Over(v, t)}) = 1
                    /\ \A v \in versions : v.record = s.record /\ Over(v, t) => v.values = s.values
  BY <1>2, <1>3
<1> QED
  BY <1>3 DEF VersionsAreStates, Over

---------------------------------------------------------------------------
(* The producer.                                                           *)

\* The emit once table n has other rows and history some more.
After(e, n, rows, more) ==
    LET cat == [m \in DOMAIN e.cat |->
                  [e.cat[m] EXCEPT !.rows = IF m = n THEN rows
                                            ELSE IF m = History THEN @ \o more ELSE @]]
    IN  [e EXCEPT !.cat = cat,
                  !.specs = {[s EXCEPT !.rows = Len(cat[s.name].rows)] : s \in e.specs}]

LEMMA AfterFacts ==
    ASSUME NEW e, TablesNamed(e), \A s \in e.specs : ColumnsNamed(e, s),
           NEW n \in Tables(e), NEW rows, NEW more
    PROVE  LET f == After(e, n, rows, more) IN
           /\ Trunk(f) = Trunk(e) /\ \A k : SubTypes(f, k) = SubTypes(e, k)
           /\ TablesNamed(f) /\ Tables(f) = Tables(e)
           /\ \A s \in f.specs : ColumnsNamed(f, s)
           /\ \A m \in Tables(e) :
                 /\ SpecFor(f, m).cols = SpecFor(e, m).cols /\ ColumnNames(f, m) = ColumnNames(e, m)
                 /\ f.cat[m].rows = IF m = n THEN rows
                                    ELSE IF m = History THEN e.cat[m].rows \o more ELSE e.cat[m].rows
<1> DEFINE f == After(e, n, rows, more)
           told(m) == IF m = n THEN rows ELSE IF m = History THEN e.cat[m].rows \o more ELSE e.cat[m].rows
           cat == [m \in DOMAIN e.cat |-> [e.cat[m] EXCEPT !.rows = told(m)]]
           counted(s) == [s EXCEPT !.rows = Len(cat[s.name].rows)]
<1>1. {"cat", "specs", "branches", "enums"} \subseteq DOMAIN e
  BY DEF TablesNamed
<1>2. /\ f.branches = e.branches /\ f.enums = e.enums
      /\ f.cat = cat /\ f.specs = {counted(s) : s \in e.specs}
      /\ {"cat", "specs", "branches", "enums"} \subseteq DOMAIN f
  BY <1>1 DEF After
<1>3. Trunk(f) = Trunk(e) /\ \A k : SubTypes(f, k) = SubTypes(e, k)
  BY <1>2 DEF Trunk, SubTypes
<1>4. Tables(f) = Tables(e)
  BY <1>2 DEF Tables
<1>5. \A s \in e.specs : /\ counted(s).name = s.name /\ counted(s).category = s.category
                         /\ counted(s).kind = s.kind /\ counted(s).cols = s.cols
                         /\ {"name", "category", "kind", "cols", "rows"} \subseteq DOMAIN counted(s)
  BY DEF TablesNamed
<1>6. ASSUME NEW s \in e.specs
      PROVE  /\ e.cat[s.name] = [cols |-> Shape(s.cols), rows |-> e.cat[s.name].rows]
             /\ cat[s.name] = [cols |-> Shape(s.cols), rows |-> told(s.name)]
             /\ cat[s.name].rows = told(s.name)
  <2>1. e.cat[s.name] = [cols |-> Shape(s.cols), rows |-> e.cat[s.name].rows]
    BY DEF ColumnsNamed
  <2>2. s.name \in DOMAIN e.cat
    BY SpecFacts DEF Tables
  <2> DEFINE old == e.cat[s.name]
             new == told(s.name)
             sh  == Shape(s.cols)
  <2>3. cat[s.name] = [old EXCEPT !.rows = new]
    BY <2>2
  <2>4. old = [cols |-> sh, rows |-> old.rows]
    BY <2>1
  <2> HIDE DEF old, new, sh
  <2>5. [old EXCEPT !.rows = new] = [cols |-> sh, rows |-> new]
    BY <2>4
  <2>6. [old EXCEPT !.rows = new].rows = new
    BY <2>5
  <2> QED
    BY <2>1, <2>3, <2>5, <2>6 DEF old, new, sh
<1>7. \A m \in Tables(e) : cat[m].rows = told(m)
  <2>1. \A m \in Tables(e) : SpecFor(e, m) \in e.specs /\ SpecFor(e, m).name = m
    BY SpecFacts
  <2>2. \A s \in e.specs : cat[s.name].rows = told(s.name)
    <3> HIDE DEF cat, told
    <3> QED
      BY <1>6
  <2> HIDE DEF cat, told
  <2> QED
    BY <2>1, <2>2
<1> HIDE DEF counted, f, cat, told
<1>8. {s.name : s \in f.specs} = {s.name : s \in e.specs}
  BY <1>2, <1>5
<1>9. \A s, u \in f.specs : s.name = u.name => s = u
  <2>1. \A s, u \in e.specs : s.name = u.name => s = u
    BY DEF TablesNamed
  <2> QED
    BY <1>2, <1>5, <2>1
<1>10. \A s \in f.specs :
          /\ {"name", "category", "kind", "cols", "rows"} \subseteq DOMAIN s
          /\ s.category = IF s.name = History THEN "fixed"
                          ELSE IF s.name = MemberTable THEN "membership" ELSE "records"
          /\ s.category = "records" => s.name = RecordsOf(s.kind)
  <2>1. ASSUME NEW u \in e.specs
        PROVE  /\ {"name", "category", "kind", "cols", "rows"} \subseteq DOMAIN counted(u)
               /\ counted(u).category = IF counted(u).name = History THEN "fixed"
                          ELSE IF counted(u).name = MemberTable THEN "membership" ELSE "records"
               /\ counted(u).category = "records" => counted(u).name = RecordsOf(counted(u).kind)
    <3>1. /\ u.category = IF u.name = History THEN "fixed"
                          ELSE IF u.name = MemberTable THEN "membership" ELSE "records"
          /\ u.category = "records" => u.name = RecordsOf(u.kind)
      BY DEF TablesNamed
    <3> QED
      BY <1>5, <3>1
  <2> QED
    BY <1>2, <2>1
<1>11. TablesNamed(f)
  <2>1. /\ Tables(e) = {RecordsOf(k) : k \in Kinds} \cup {History, MemberTable}
        /\ {s.name : s \in e.specs} = Tables(e)
    BY DEF TablesNamed
  <2> QED
    BY <1>2, <1>4, <1>8, <1>9, <1>10, <2>1 DEF TablesNamed
<1>12. ASSUME NEW s \in e.specs PROVE ColumnsNamed(f, counted(s))
  <2>1. /\ s.cols \in Seq(Range(s.cols))
        /\ \A i, j \in DOMAIN s.cols : s.cols[i].name = s.cols[j].name => i = j
        /\ \A c \in PropColumns(s) : c.name = PropOf(c.name[2]) /\ TemporalClassAgrees(c)
    BY DEF ColumnsNamed
  <2>2. counted(s).cols = s.cols /\ counted(s).name = s.name
    BY <1>5
  <2>3. PropColumns(counted(s)) = PropColumns(s)
    BY <2>2 DEF PropColumns
  <2>4. f.cat[s.name] = [cols |-> Shape(s.cols), rows |-> f.cat[s.name].rows]
    <3>1. f.cat[s.name] = [cols |-> Shape(s.cols), rows |-> told(s.name)]
      BY <1>2, <1>6
    <3> QED
      BY <3>1
  <2> QED
    BY <2>1, <2>2, <2>3, <2>4 DEF ColumnsNamed
<1>13. ASSUME NEW m \in Tables(e)
       PROVE  SpecFor(f, m).cols = SpecFor(e, m).cols /\ ColumnNames(f, m) = ColumnNames(e, m)
  <2>1. SpecFor(e, m) \in e.specs /\ SpecFor(e, m).name = m
    BY SpecFacts
  <2>2. counted(SpecFor(e, m)) \in f.specs /\ counted(SpecFor(e, m)).name = m
    BY <1>2, <1>5, <2>1
  <2>3. SpecFor(f, m) = counted(SpecFor(e, m))
    BY <1>11, <2>2, SpecFacts
  <2>4. SpecFor(f, m).cols = SpecFor(e, m).cols
    BY <1>5, <2>1, <2>3
  <2>5. ColumnNames(f, m) = {c.name : c \in Range(SpecFor(f, m).cols)}
    BY <1>11, <1>12, <2>1, <2>2, <2>3, ColumnFacts
  <2>6. ColumnNames(e, m) = {c.name : c \in Range(SpecFor(e, m).cols)}
    BY <2>1, ColumnFacts
  <2> QED
    BY <2>4, <2>5, <2>6
<1>14. \A s \in f.specs : ColumnsNamed(f, s)
  BY <1>2, <1>12
<1>15. \A m \in Tables(e) : f.cat[m].rows = told(m)
  BY <1>2, <1>7
<1> QED
  BY <1>3, <1>4, <1>11, <1>13, <1>14, <1>15 DEF f, told

\* Rows of a table, each with a cell for every column, on the trunk.
Shaped(e, n, rows) ==
    /\ rows \in Seq(Range(rows))
    /\ \A r \in Range(rows) : r = [c \in ColumnNames(e, n) |-> r[c]] /\ r[Fork] = Trunk(e)

\* The lives of the records of a kind, and the order of the intervals.
LivesKept(rows, at) ==
    \A i \in DOMAIN rows :
       /\ rows[i][RecordIndex] = i - 1
       /\ rows[i][RecordId] # NULL
       /\ \A j \in DOMAIN rows : rows[i][RecordId] = rows[j][RecordId] => i = j
       /\ rows[i][Created] \in 0 .. at
       /\ rows[i][Deactivated] # NULL => rows[i][Deactivated] \in rows[i][Created] .. at

IntervalsKept(rows, at) ==
    \A i \in DOMAIN rows :
       /\ rows[i][Joined] \in 0 .. at
       /\ rows[i][Left] # NULL => rows[i][Left] \in rows[i][Joined] .. at
       /\ \A j \in DOMAIN rows : i < j => rows[i][Joined] <= rows[j][Joined]

\* History has a row for the creation of record r.
Begun(history, k, c, r) ==
    \E h \in history : /\ h[Kind] = k /\ h[Property] = c.name[2] /\ h[RecordId] = r[RecordId]
                       /\ h[SimTime] = r[Created]

\* What a step of the producer must see to, so that a tape is left.
LEMMA AfterTape ==
    ASSUME NEW e, NEW at \in Nat, IsTape(e, at), NEW n \in Tables(e), n # History, NEW rows, NEW more,
           Shaped(e, n, rows), Shaped(e, History, more),
           \A h \in Range(more) : h[SimTime] \in 0 .. at,
           \A k \in Kinds : n = RecordsOf(k) =>
              /\ LivesKept(rows, at)
              /\ \A c \in PropColumns(SpecFor(e, n)) : c.tracked = TRUE =>
                    \A r \in Range(rows) : Begun(TableRows(e, History) \cup Range(more), k, c, r),
           n = MemberTable => IntervalsKept(rows, at)
    PROVE  IsTape(After(e, n, rows, more), at)
<1> DEFINE f == After(e, n, rows, more)
<1>1. TablesNamed(e) /\ (\A s \in e.specs : ColumnsNamed(e, s)) /\ \A m \in Tables(e) : RowsShaped(e, m)
  BY TapeShape
<1>2. /\ Trunk(f) = Trunk(e)
      /\ TablesNamed(f) /\ Tables(f) = Tables(e) /\ \A s \in f.specs : ColumnsNamed(f, s)
      /\ \A m \in Tables(e) :
            /\ SpecFor(f, m).cols = SpecFor(e, m).cols /\ ColumnNames(f, m) = ColumnNames(e, m)
            /\ f.cat[m].rows = IF m = n THEN rows
                               ELSE IF m = History THEN e.cat[m].rows \o more ELSE e.cat[m].rows
  BY <1>1, AfterFacts
<1>3. /\ History \in Tables(e) /\ MemberTable \in Tables(e) /\ History # MemberTable
      /\ \A k \in Kinds : /\ RecordsOf(k) \in Tables(e) /\ RecordsOf(k) # History
                          /\ RecordsOf(k) # MemberTable
  <2>1. History # MemberTable
    BY TapeAssumption DEF History, Membership
  <2> QED
    BY <1>1, <2>1, CategoryFacts
<1> HIDE DEF f
<1>4. /\ e.cat[History].rows \o more \in Seq(Range(e.cat[History].rows) \cup Range(more))
      /\ Range(e.cat[History].rows \o more) = Range(e.cat[History].rows) \cup Range(more)
  <2> DEFINE old == e.cat[History].rows
             S == Range(old) \cup Range(more)
  <2>1. old \in Seq(Range(old)) /\ more \in Seq(Range(more))
    BY <1>1, <1>3 DEF RowsShaped, Shaped
  <2> HIDE DEF old
  <2>2. old \in Seq(S) /\ more \in Seq(S)
    BY <2>1
  <2>3. old \o more \in Seq(S)
    BY <2>2
  <2>4. Len(old) \in Nat /\ Len(more) \in Nat /\ DOMAIN old = 1 .. Len(old) /\ DOMAIN more = 1 .. Len(more)
    BY <2>1
  <2>5. /\ DOMAIN (old \o more) = 1 .. Len(old) + Len(more)
        /\ \A i \in 1 .. Len(old) + Len(more) :
              (old \o more)[i] = IF i <= Len(old) THEN old[i] ELSE more[i - Len(old)]
    BY <2>2
  <2>6. \A x : x \in Range(old \o more) => x \in S
    BY <2>4, <2>5 DEF Range
  <2>7. ASSUME NEW x \in Range(old) PROVE x \in Range(old \o more)
    <3>1. PICK i \in 1 .. Len(old) : x = old[i]
      BY <2>4 DEF Range
    <3> QED
      BY <2>4, <2>5, <3>1 DEF Range
  <2>8. ASSUME NEW x \in Range(more) PROVE x \in Range(old \o more)
    <3>1. PICK i \in 1 .. Len(more) : x = more[i]
      BY <2>4 DEF Range
    <3>2. Len(old) + i \in 1 .. Len(old) + Len(more) /\ (Len(old) + i) - Len(old) = i
          /\ ~(Len(old) + i <= Len(old))
      BY <2>4
    <3>3. (old \o more)[Len(old) + i] = x
      BY <2>5, <3>1, <3>2
    <3> QED
      BY <2>5, <3>2, <3>3 DEF Range
  <2>9. Range(old \o more) = S
    BY <2>6, <2>7, <2>8
  <2> QED
    BY <2>3, <2>9 DEF old
<1>5. ASSUME NEW m \in Tables(e) PROVE RowsShaped(f, m)
  <2>1. CASE m = n
    BY <1>2, <2>1 DEF RowsShaped, Shaped
  <2>2. CASE m = History
    <3>1. f.cat[m].rows = e.cat[History].rows \o more
      BY <1>2, <2>2
    <3>2. RowsShaped(e, History)
      BY <1>1, <1>3
    <3>3. \A r \in Range(e.cat[History].rows) \cup Range(more) :
             r = [c \in ColumnNames(e, History) |-> r[c]] /\ r[Fork] = Trunk(e)
      BY <3>2 DEF RowsShaped, Shaped
    <3>4. f.cat[m].rows \in Seq(Range(f.cat[m].rows))
      BY <1>4, <3>1
    <3>5. ColumnNames(f, m) = ColumnNames(e, History)
      BY <1>2, <2>2
    <3> QED
      BY <1>2, <1>4, <3>1, <3>3, <3>4, <3>5 DEF RowsShaped
  <2>3. CASE m # n /\ m # History
    <3>1. f.cat[m].rows = e.cat[m].rows /\ RowsShaped(e, m)
      BY <1>1, <1>2, <2>3
    <3> QED
      BY <1>2, <3>1 DEF RowsShaped
  <2> QED
    BY <2>1, <2>2, <2>3
<1>6. ASSUME NEW k \in Kinds PROVE RecordsKept(f, k, at)
  <2>1. RecordsKept(e, k, at)
    BY DEF IsTape
  <2>2. ColumnNames(f, RecordsOf(k)) = ColumnNames(e, RecordsOf(k))
        /\ f.cat[RecordsOf(k)].rows = IF RecordsOf(k) = n THEN rows ELSE e.cat[RecordsOf(k)].rows
    BY <1>2, <1>3
  <2>3. CASE RecordsOf(k) = n
    <3>1. LivesKept(rows, at)
      BY <2>3
    <3> QED
      BY <2>1, <2>2, <2>3, <3>1 DEF RecordsKept, LivesKept
  <2>4. CASE RecordsOf(k) # n
    <3>1. f.cat[RecordsOf(k)].rows = e.cat[RecordsOf(k)].rows
      BY <2>2, <2>4
    <3> QED
      BY <2>1, <2>2, <3>1 DEF RecordsKept
  <2> QED
    BY <2>3, <2>4
<1>7. TableRows(f, History) = TableRows(e, History) \cup Range(more)
  BY <1>2, <1>3, <1>4 DEF TableRows
<1>8. HistoryKept(f, at)
  <2>1. HistoryKept(e, at)
    BY DEF IsTape
  <2>2. ColumnNames(f, History) = {Fork, Kind, RecordId, Property, SimTime, Value}
    BY <1>2, <1>3, <2>1 DEF HistoryKept
  <2>3. \A h \in TableRows(f, History) : h[SimTime] \in 0 .. at
    BY <1>7, <2>1 DEF HistoryKept
  <2>4. ASSUME NEW k \in Kinds, NEW c \in PropColumns(SpecFor(f, RecordsOf(k))), c.tracked = TRUE,
               NEW r \in TableRows(f, RecordsOf(k))
        PROVE  Begun(TableRows(f, History), k, c, r)
    <3>1. c \in PropColumns(SpecFor(e, RecordsOf(k)))
      BY <1>2, <1>3 DEF PropColumns
    <3>2. CASE RecordsOf(k) = n
      <4>1. r \in Range(rows)
        BY <1>2, <1>3, <3>2 DEF TableRows
      <4> QED
        BY <1>7, <2>4, <3>1, <3>2, <4>1
    <3>3. CASE RecordsOf(k) # n
      <4>1. r \in TableRows(e, RecordsOf(k))
        BY <1>2, <1>3, <3>3 DEF TableRows
      <4>2. Begun(TableRows(e, History), k, c, r)
        BY <2>1, <2>4, <3>1, <4>1 DEF HistoryKept, Begun
      <4> QED
        BY <1>7, <4>2 DEF Begun
    <3> QED
      BY <3>2, <3>3
  <2> QED
    BY <2>2, <2>3, <2>4 DEF HistoryKept, Begun
<1>9. MembersKept(f, at)
  <2>1. MembersKept(e, at)
    BY DEF IsTape
  <2>2. ColumnNames(f, MemberTable) = ColumnNames(e, MemberTable)
        /\ f.cat[MemberTable].rows = IF MemberTable = n THEN rows ELSE e.cat[MemberTable].rows
    BY <1>2, <1>3
  <2>3. CASE MemberTable = n
    <3>1. IntervalsKept(rows, at) /\ f.cat[MemberTable].rows = rows
      BY <2>2, <2>3
    <3> QED
      BY <2>1, <2>2, <3>1 DEF MembersKept, IntervalsKept
  <2>4. CASE MemberTable # n
    <3>1. f.cat[MemberTable].rows = e.cat[MemberTable].rows
      BY <2>2, <2>4
    <3> QED
      BY <2>1, <2>2, <3>1 DEF MembersKept
  <2> QED
    BY <2>3, <2>4
<1>10. \A m \in Tables(f) : RowsShaped(f, m)
  BY <1>2, <1>5
<1> QED
  BY <1>2, <1>6, <1>8, <1>9, <1>10 DEF IsTape, f

\* Time passes and the tape is none the worse.
LEMMA LaterTape ==
    ASSUME NEW e, NEW at \in Nat, IsTape(e, at), NEW later \in Nat, at <= later
    PROVE  IsTape(e, later)
<1>1. ASSUME NEW k \in Kinds PROVE RecordsKept(e, k, later)
  <2>1. RecordsKept(e, k, at)
    BY DEF IsTape
  <2>2. LivesKept(e.cat[RecordsOf(k)].rows, at)
    BY <2>1 DEF RecordsKept, LivesKept
  <2> DEFINE rows == e.cat[RecordsOf(k)].rows
  <2> HIDE DEF rows
  <2>3. LivesKept(rows, at) => LivesKept(rows, later)
    BY DEF LivesKept
  <2> QED
    BY <2>1, <2>2, <2>3 DEF rows, RecordsKept, LivesKept
<1>2. HistoryKept(e, later)
  BY DEF IsTape, HistoryKept
<1>3. MembersKept(e, later)
  BY DEF IsTape, MembersKept
<1> QED
  BY <1>1, <1>2, <1>3 DEF IsTape

LEMMA WrittenAfter ==
    ASSUME NEW n, NEW rows, NEW more, Written(n, rows, more)
    PROVE  emit' = After(emit, n, rows, more)
BY DEF Written, After

LEMMA NameFacts ==
    /\ RecordId # Fork
    /\ Presented # Fork /\ Presented # RecordId
    /\ Created # Fork /\ Created # RecordId /\ Created # Presented
    /\ Active # Fork /\ Active # RecordId /\ Active # Presented /\ Active # Created
    /\ Deactivated # Fork /\ Deactivated # RecordId /\ Deactivated # Presented
    /\ Deactivated # Created /\ Deactivated # Active
    /\ Mutated # Fork /\ Mutated # RecordId /\ Mutated # Presented /\ Mutated # Created
    /\ Mutated # Active /\ Mutated # Deactivated
    /\ RecordIndex # Fork /\ RecordIndex # RecordId /\ RecordIndex # Presented
    /\ RecordIndex # Created /\ RecordIndex # Active /\ RecordIndex # Deactivated
    /\ RecordIndex # Mutated
    /\ Fork[1] # "prop" /\ RecordId[1] # "prop" /\ Presented[1] # "prop" /\ Created[1] # "prop"
    /\ Active[1] # "prop" /\ Deactivated[1] # "prop" /\ Mutated[1] # "prop" /\ RecordIndex[1] # "prop"
BY DEF Fork, RecordId, Presented, Created, Active, Deactivated, Mutated, RecordIndex

LEMMA NewCellFacts ==
    ASSUME NEW k, NEW id, NEW values
    PROVE  /\ NewCell(k, id, values, Fork) = Trunk(emit)
           /\ NewCell(k, id, values, RecordId) = id
           /\ NewCell(k, id, values, Presented) = PresentedAs(k, id, values, Records(k))
           /\ NewCell(k, id, values, Created) = now
           /\ NewCell(k, id, values, Deactivated) = NULL
           /\ NewCell(k, id, values, RecordIndex) = Len(Rows(RecordsOf(k)))
<1>1. NewCell(k, id, values, Fork) = Trunk(emit)
  BY NameFacts DEF NewCell
<1>2. NewCell(k, id, values, RecordId) = id
  BY NameFacts DEF NewCell
<1>3. NewCell(k, id, values, Presented) = PresentedAs(k, id, values, Records(k))
  BY NameFacts DEF NewCell
<1>4. NewCell(k, id, values, Created) = now
  BY NameFacts DEF NewCell
<1>5. NewCell(k, id, values, Deactivated) = NULL
  BY NameFacts DEF NewCell
<1>6. NewCell(k, id, values, RecordIndex) = Len(Rows(RecordsOf(k)))
  BY NameFacts DEF NewCell
<1> QED
  BY <1>1, <1>2, <1>3, <1>4, <1>5, <1>6

LEMMA HistoryRowFacts ==
    ASSUME NEW k, NEW id, NEW c, NEW v
    PROVE  LET h == HistoryRow(k, id, c, v) IN
           /\ h = [x \in {Fork, Kind, RecordId, Property, SimTime, Value} |-> h[x]]
           /\ h[Fork] = Trunk(emit) /\ h[Kind] = k /\ h[RecordId] = id /\ h[Property] = c.name[2]
           /\ h[SimTime] = now
<1>1. /\ Kind # Fork /\ RecordId # Fork /\ RecordId # Kind /\ Property # Fork /\ Property # Kind
      /\ Property # RecordId /\ SimTime # Fork /\ SimTime # Kind /\ SimTime # RecordId
      /\ SimTime # Property /\ Value # Fork /\ Value # Kind /\ Value # RecordId /\ Value # Property
      /\ Value # SimTime
  BY DEF Kind, Fork, RecordId, Property, SimTime, Value
<1> DEFINE h == HistoryRow(k, id, c, v)
<1>2. h = [x \in {Fork, Kind, RecordId, Property, SimTime, Value} |-> h[x]]
  BY DEF HistoryRow
<1>3. h[Fork] = Trunk(emit)
  BY <1>1 DEF HistoryRow
<1>4. h[Kind] = k
  BY <1>1 DEF HistoryRow
<1>5. h[RecordId] = id
  BY <1>1 DEF HistoryRow
<1>6. h[Property] = c.name[2]
  BY <1>1 DEF HistoryRow
<1>7. h[SimTime] = now
  BY <1>1 DEF HistoryRow
<1> QED
  BY <1>2, <1>3, <1>4, <1>5, <1>6, <1>7

LEMMA HistoryRowShaped ==
    ASSUME NEW at, IsTape(emit, at), NEW k, NEW id, NEW c, NEW v
    PROVE  LET h == HistoryRow(k, id, c, v) IN
           h = [x \in ColumnNames(emit, History) |-> h[x]] /\ h[Fork] = Trunk(emit)
<1> DEFINE row == HistoryRow(k, id, c, v)
           X == {Fork, Kind, RecordId, Property, SimTime, Value}
<1>1. row = [x \in X |-> row[x]] /\ row[Fork] = Trunk(emit)
  BY HistoryRowFacts
<1>2. ColumnNames(emit, History) = X
  BY DEF IsTape, HistoryKept
<1> HIDE DEF row, X
<1>3. row = [x \in ColumnNames(emit, History) |-> row[x]]
  BY <1>1, <1>2
<1> QED
  BY <1>1, <1>3 DEF row

\* The kind of a table of records is the only one it is of.
LEMMA KindFacts ==
    ASSUME NEW e, TablesNamed(e), NEW k \in Kinds
    PROVE  /\ RecordsOf(k) \in Tables(e) /\ RecordsOf(k) # History /\ RecordsOf(k) # MemberTable
           /\ \A j : RecordsOf(k) = RecordsOf(j) => j = k
<1>1. \A j : RecordsOf(k) = RecordsOf(j) => j = k
  BY DEF RecordsOf
<1> QED
  BY <1>1, CategoryFacts

LEMMA AppendFacts ==
    ASSUME NEW rows, rows \in Seq(Range(rows)), NEW new
    PROVE  LET all == Append(rows, new) IN
           /\ Len(rows) \in Nat /\ DOMAIN rows = 1 .. Len(rows) /\ DOMAIN all = 1 .. Len(rows) + 1
           /\ \A i \in DOMAIN all : IF i = Len(rows) + 1 THEN all[i] = new
                                    ELSE i \in DOMAIN rows /\ all[i] = rows[i]
           /\ Range(all) = Range(rows) \cup {new} /\ all \in Seq(Range(all))
<1> DEFINE all == Append(rows, new)
<1>1. Len(rows) \in Nat /\ DOMAIN rows = 1 .. Len(rows)
  OBVIOUS
<1>2. /\ all \in Seq(Range(rows) \cup {new}) /\ DOMAIN all = 1 .. Len(rows) + 1
      /\ \A i \in DOMAIN all : IF i = Len(rows) + 1 THEN all[i] = new
                               ELSE i \in DOMAIN rows /\ all[i] = rows[i]
  <2>1. rows \in Seq(Range(rows) \cup {new})
    OBVIOUS
  <2> QED
    BY <1>1, <2>1
<1> HIDE DEF all
<1>3. \A x \in Range(all) : x \in Range(rows) \cup {new}
  BY <1>2 DEF Range
<1>4. ASSUME NEW x \in Range(rows) PROVE x \in Range(all)
  <2>1. PICK i \in DOMAIN rows : x = rows[i]
    BY DEF Range
  <2>2. i \in DOMAIN all /\ i # Len(rows) + 1
    BY <1>1, <1>2
  <2> QED
    BY <1>2, <2>1, <2>2 DEF Range
<1>5. new \in Range(all)
  BY <1>1, <1>2 DEF Range
<1>6. Range(all) = Range(rows) \cup {new}
  BY <1>3, <1>4, <1>5
<1> QED
  BY <1>1, <1>2, <1>6 DEF all

\* A birth appends a record with its own id and index and begins its history.
LEMMA BornKeeps ==
    ASSUME now \in Nat, IsTape(emit, now), NEW k \in Kinds, Born(k)
    PROVE  IsTape(emit', now)
<1> DEFINE n == RecordsOf(k)
           rows == Rows(n)
<1>1. /\ TablesNamed(emit) /\ (\A s \in emit.specs : ColumnsNamed(emit, s)) /\ RowsShaped(emit, n)
      /\ n \in Tables(emit) /\ n # History /\ n # MemberTable /\ \A j : n = RecordsOf(j) => j = k
  BY TapeShape, KindFacts
<1>2. PICK id \in IdsOf(k) \ Existing(k) : \E values :
         emit' = After(emit, n, Append(rows, NewRecord(k, id, values)), Seeded(k, id, values))
  BY WrittenAfter DEF Born
<1>2a. PICK values :
         emit' = After(emit, n, Append(rows, NewRecord(k, id, values)), Seeded(k, id, values))
  BY <1>2
<1> DEFINE new == NewRecord(k, id, values)
           more == Seeded(k, id, values)
           C == ColumnNames(emit, n)
<1>3. id # NULL /\ \A i \in DOMAIN rows : rows[i][RecordId] # id
  <2>1. id # NULL
    BY TapeAssumption
  <2>2. \A i \in DOMAIN rows : rows[i] \in Records(k)
    BY DEF Records, Rows, Range
  <2>3. \A r \in Records(k) : r[RecordId] # id
    BY DEF Existing
  <2> QED
    BY <2>1, <2>2, <2>3
<1>4. RecordsKept(emit, k, now)
  BY DEF IsTape
<1>5. /\ new = [c \in C |-> new[c]] /\ new[Fork] = Trunk(emit) /\ new[RecordId] = id
      /\ new[Created] = now /\ new[Deactivated] = NULL /\ new[RecordIndex] = Len(rows)
  <2>1. {Fork, RecordId, Created, Deactivated, RecordIndex} \subseteq C
    BY <1>4 DEF RecordsKept
  <2>2. \A c \in C : new[c] = NewCell(k, id, values, c)
    BY DEF NewRecord
  <2>3. new = [c \in C |-> new[c]]
    BY DEF NewRecord
  <2> HIDE DEF new, C, rows
  <2> QED
    BY <2>1, <2>2, <2>3, NewCellFacts DEF rows
<1>6. /\ rows \in Seq(Range(rows)) /\ Len(rows) \in Nat /\ DOMAIN rows = 1 .. Len(rows)
      /\ \A r \in Range(rows) : r = [c \in C |-> r[c]] /\ r[Fork] = Trunk(emit)
      /\ LivesKept(rows, now)
  BY SMTT(20), <1>1, <1>4 DEF RowsShaped, RecordsKept, LivesKept, Rows
<1> HIDE DEF rows, new, C
<1> DEFINE all == Append(rows, new)
<1>7. /\ DOMAIN all = 1 .. Len(rows) + 1
      /\ \A i \in DOMAIN all : IF i = Len(rows) + 1 THEN all[i] = new
                               ELSE i \in DOMAIN rows /\ all[i] = rows[i]
      /\ Range(all) = Range(rows) \cup {new} /\ all \in Seq(Range(all))
  BY <1>6, AppendFacts
<1> HIDE DEF all
<1>9. Shaped(emit, n, all)
  BY <1>5, <1>6, <1>7 DEF Shaped, C
<1>10. LivesKept(all, now)
  <2> SUFFICES ASSUME NEW i \in DOMAIN all
               PROVE  /\ all[i][RecordIndex] = i - 1 /\ all[i][RecordId] # NULL
                      /\ \A j \in DOMAIN all : all[i][RecordId] = all[j][RecordId] => i = j
                      /\ all[i][Created] \in 0 .. now
                      /\ all[i][Deactivated] # NULL => all[i][Deactivated] \in all[i][Created] .. now
    BY DEF LivesKept
  <2>1. CASE i = Len(rows) + 1
    <3>1. all[i] = new
      BY <1>7, <2>1
    <3>2. \A j \in DOMAIN all : j # i => all[j][RecordId] # id
      BY <1>3, <1>7, <2>1
    <3> QED
      BY <1>3, <1>5, <1>6, <2>1, <3>1, <3>2
  <2>2. CASE i # Len(rows) + 1
    <3>1. all[i] = rows[i] /\ i \in DOMAIN rows
      BY <1>7, <2>2
    <3>2. \A j \in DOMAIN all : all[i][RecordId] = all[j][RecordId] => i = j
      <4> SUFFICES ASSUME NEW j \in DOMAIN all, all[i][RecordId] = all[j][RecordId] PROVE i = j
        OBVIOUS
      <4>1. j # Len(rows) + 1
        BY <1>3, <1>5, <1>7, <3>1
      <4>2. j \in DOMAIN rows /\ all[j] = rows[j]
        BY <1>7, <4>1
      <4> QED
        BY <1>6, <3>1, <4>2 DEF LivesKept
    <3> QED
      BY <1>6, <3>1, <3>2 DEF LivesKept
  <2> QED
    BY <2>1, <2>2
<1> DEFINE s == SpecFor(emit, n)
           S == {i \in DOMAIN s.cols : s.cols[i] \in ColumnsOf(k) /\ s.cols[i].tracked = TRUE}
           seeds == Only(s.cols, S)
<1>11. /\ s.cols \in Seq(Range(s.cols)) /\ ColumnsOf(k) = PropColumns(s)
  <2>1. s \in emit.specs
    BY <1>1, SpecFacts
  <2> QED
    BY <1>1, <2>1 DEF ColumnsNamed, ColumnsOf
<1>12. /\ seeds \in Seq(Range(seeds)) /\ Range(seeds) = {s.cols[i] : i \in S}
  <2>1. S \in SUBSET DOMAIN s.cols
    OBVIOUS
  <2> HIDE DEF S, s
  <2> QED
    BY <1>11, <2>1, OnlyFacts
<1>13. more = [i \in DOMAIN seeds |-> HistoryRow(k, id, seeds[i], values[seeds[i].name])]
  BY DEF Seeded
<1>14. \A c \in PropColumns(s) : c.tracked = TRUE => c \in Range(seeds)
  BY <1>11, <1>12 DEF PropColumns, Range
<1> HIDE DEF seeds, more, s
<1>15. \A h \in Range(more) : \E c, v : h = HistoryRow(k, id, c, v)
  BY <1>13 DEF Range
<1>16. more \in Seq(Range(more))
  <2>1. Len(seeds) \in Nat /\ DOMAIN seeds = 1 .. Len(seeds)
    BY <1>12
  <2>2. DOMAIN more = 1 .. Len(seeds) /\ more = [i \in 1 .. Len(seeds) |-> more[i]]
    BY <1>13, <2>1
  <2>3. \A i \in 1 .. Len(seeds) : more[i] \in Range(more)
    BY <2>2 DEF Range
  <2> QED
    BY <2>1, <2>2, <2>3
<1>17. ColumnNames(emit, History) = {Fork, Kind, RecordId, Property, SimTime, Value}
  BY DEF IsTape, HistoryKept
<1>18. Shaped(emit, History, more)
  <2>1. ASSUME NEW h \in Range(more)
        PROVE  h = [x \in ColumnNames(emit, History) |-> h[x]] /\ h[Fork] = Trunk(emit)
    <3>1. PICK c, v : h = HistoryRow(k, id, c, v)
      BY <1>15
    <3> QED
      BY <3>1, HistoryRowShaped
  <2> QED
    BY <1>16, <2>1 DEF Shaped
<1>19. \A h \in Range(more) : h[SimTime] \in 0 .. now
  BY <1>15, HistoryRowFacts
<1>20. ASSUME NEW c \in PropColumns(s), c.tracked = TRUE, NEW r \in Range(all)
       PROVE  Begun(TableRows(emit, History) \cup Range(more), k, c, r)
  <2>1. CASE r = new
    <3>1. PICK i \in DOMAIN seeds : seeds[i] = c
      BY <1>14, <1>20 DEF Range
    <3>2. more[i] = HistoryRow(k, id, c, values[c.name]) /\ more[i] \in Range(more)
      BY <1>13, <3>1 DEF Range
    <3> QED
      BY <1>5, <2>1, <3>2, HistoryRowFacts DEF Begun
  <2>2. CASE r \in Range(rows)
    <3>1. r \in TableRows(emit, n)
      BY <2>2 DEF rows, Rows, TableRows
    <3> QED
      BY <1>20, <3>1 DEF s, IsTape, HistoryKept, Begun
  <2> QED
    BY <1>7, <2>1, <2>2
<1> HIDE DEF n
<1>21. \A j \in Kinds : n = RecordsOf(j) =>
          /\ LivesKept(all, now)
          /\ \A c \in PropColumns(SpecFor(emit, n)) : c.tracked = TRUE =>
                \A r \in Range(all) : Begun(TableRows(emit, History) \cup Range(more), j, c, r)
  BY <1>1, <1>10, <1>20 DEF s
<1>22. IsTape(After(emit, n, all, more), now)
  BY <1>1, <1>9, <1>18, <1>19, <1>21, AfterTape
<1> QED
  BY <1>2a, <1>22 DEF all, new, more

\* An update changes no cell of the identity and the birth of a record.
Fixed == {Fork, RecordId, Created, RecordIndex}

\* A record may change in any other cell, its end if it ends now.
LEMMA ChangedTape ==
    ASSUME now \in Nat, IsTape(emit, now), NEW k \in Kinds, NEW all,
           all = [i \in DOMAIN Rows(RecordsOf(k)) |-> all[i]],
           \A i \in DOMAIN Rows(RecordsOf(k)) :
              /\ all[i] = [c \in ColumnNames(emit, RecordsOf(k)) |-> all[i][c]]
              /\ \A c \in Fixed : all[i][c] = Rows(RecordsOf(k))[i][c]
              /\ all[i][Deactivated] = Rows(RecordsOf(k))[i][Deactivated] \/ all[i][Deactivated] = now,
           NEW more, Shaped(emit, History, more), \A h \in Range(more) : h[SimTime] \in 0 .. now
    PROVE  IsTape(After(emit, RecordsOf(k), all, more), now)
<1> DEFINE n == RecordsOf(k)
           rows == Rows(n)
           C == ColumnNames(emit, n)
<1>1. /\ TablesNamed(emit) /\ RowsShaped(emit, n)
      /\ n \in Tables(emit) /\ n # History /\ n # MemberTable /\ \A j : n = RecordsOf(j) => j = k
  BY TapeShape, KindFacts
<1>2. RecordsKept(emit, k, now)
  BY DEF IsTape
<1>3. /\ rows \in Seq(Range(rows)) /\ Len(rows) \in Nat /\ DOMAIN rows = 1 .. Len(rows)
      /\ \A i \in DOMAIN rows : rows[i] = [c \in C |-> rows[i][c]] /\ rows[i][Fork] = Trunk(emit)
      /\ LivesKept(rows, now) /\ {Fork, RecordId, Created, Deactivated, RecordIndex} \subseteq C
  <2>1. /\ rows \in Seq(Range(rows))
        /\ \A r \in Range(rows) : r = [c \in C |-> r[c]] /\ r[Fork] = Trunk(emit)
    BY <1>1 DEF RowsShaped, Rows
  <2>2. LivesKept(rows, now) /\ {Fork, RecordId, Created, Deactivated, RecordIndex} \subseteq C
    BY <1>2 DEF RecordsKept, LivesKept, Rows
  <2> HIDE DEF rows, C
  <2>3. \A i \in DOMAIN rows : rows[i] \in Range(rows)
    BY DEF Range
  <2> QED
    BY <2>1, <2>2, <2>3
<1>4. DOMAIN all = DOMAIN rows
  OBVIOUS
<1> HIDE DEF rows, n, C
<1>6. \A i \in DOMAIN rows :
         /\ all[i] = [c \in C |-> all[i][c]]
         /\ \A c \in Fixed : all[i][c] = rows[i][c]
         /\ all[i][Deactivated] = rows[i][Deactivated] \/ all[i][Deactivated] = now
  BY DEF rows, n, C
<1>7. \A i \in DOMAIN rows :
         /\ all[i][Fork] = rows[i][Fork] /\ all[i][RecordId] = rows[i][RecordId]
         /\ all[i][Created] = rows[i][Created] /\ all[i][RecordIndex] = rows[i][RecordIndex]
  BY <1>6 DEF Fixed
<1>8. Shaped(emit, n, all)
  <2>1. all \in Seq(Range(all))
    <3>1. \A i \in 1 .. Len(rows) : all[i] \in Range(all)
      BY <1>3, <1>4 DEF Range
    <3> QED
      BY <1>3, <1>4, <3>1
  <2>2. ASSUME NEW r \in Range(all) PROVE r = [c \in C |-> r[c]] /\ r[Fork] = Trunk(emit)
    <3>1. PICK i \in DOMAIN rows : r = all[i]
      BY <1>4 DEF Range
    <3> QED
      BY <1>3, <1>6, <1>7, <3>1
  <2> QED
    BY <2>1, <2>2 DEF Shaped, C
<1>9. LivesKept(all, now)
  <2> SUFFICES ASSUME NEW i \in DOMAIN all
               PROVE  /\ all[i][RecordIndex] = i - 1 /\ all[i][RecordId] # NULL
                      /\ \A j \in DOMAIN all : all[i][RecordId] = all[j][RecordId] => i = j
                      /\ all[i][Created] \in 0 .. now
                      /\ all[i][Deactivated] # NULL => all[i][Deactivated] \in all[i][Created] .. now
    BY DEF LivesKept
  <2>1. /\ rows[i][RecordIndex] = i - 1 /\ rows[i][RecordId] # NULL
        /\ \A j \in DOMAIN rows : rows[i][RecordId] = rows[j][RecordId] => i = j
        /\ rows[i][Created] \in 0 .. now
        /\ rows[i][Deactivated] # NULL => rows[i][Deactivated] \in rows[i][Created] .. now
    BY <1>3, <1>4 DEF LivesKept
  <2>2. \A j \in DOMAIN all : all[i][RecordId] = all[j][RecordId] => i = j
    BY <1>4, <1>7, <2>1
  <2>3. all[i][Deactivated] # NULL => all[i][Deactivated] \in all[i][Created] .. now
    <3>1. all[i][Created] \in 0 .. now /\ all[i][Created] = rows[i][Created]
      BY <1>4, <1>7, <2>1
    <3>2. all[i][Deactivated] = rows[i][Deactivated] \/ all[i][Deactivated] = now
      BY <1>4, <1>6
    <3> QED
      BY <2>1, <3>1, <3>2
  <2> QED
    BY <1>4, <1>7, <2>1, <2>2, <2>3
<1>10. ASSUME NEW c \in PropColumns(SpecFor(emit, n)), c.tracked = TRUE, NEW r \in Range(all)
       PROVE  Begun(TableRows(emit, History) \cup Range(more), k, c, r)
  <2>1. PICK i \in DOMAIN rows : r = all[i]
    BY <1>4 DEF Range
  <2>2. rows[i] \in TableRows(emit, n)
    BY DEF rows, Rows, TableRows, Range
  <2>3. r[RecordId] = rows[i][RecordId] /\ r[Created] = rows[i][Created]
    BY <1>7, <2>1
  <2> QED
    BY <1>10, <2>2, <2>3 DEF n, IsTape, HistoryKept, Begun
<1>11. \A j \in Kinds : n = RecordsOf(j) =>
          /\ LivesKept(all, now)
          /\ \A c \in PropColumns(SpecFor(emit, n)) : c.tracked = TRUE =>
                \A r \in Range(all) : Begun(TableRows(emit, History) \cup Range(more), j, c, r)
  BY <1>1, <1>9, <1>10
<1>12. IsTape(After(emit, n, all, more), now)
  BY <1>1, <1>8, <1>11, AfterTape
<1> QED
  BY <1>12 DEF n

LEMMA UpdatedTape ==
    ASSUME now \in Nat, IsTape(emit, now), NEW k \in Kinds, NEW id, NEW cells,
           DOMAIN cells \cap Fixed = {}, Deactivated \in DOMAIN cells => cells[Deactivated] = now,
           NEW more, Shaped(emit, History, more), \A h \in Range(more) : h[SimTime] \in 0 .. now
    PROVE  IsTape(After(emit, RecordsOf(k), Updated(k, id, cells), more), now)
<1> DEFINE n == RecordsOf(k)
           rows == Rows(n)
           all == Updated(k, id, cells)
           C == ColumnNames(emit, n)
<1>1. RowsShaped(emit, n)
  BY TapeShape, KindFacts
<1>2. RecordsKept(emit, k, now)
  BY DEF IsTape
<1>3. /\ rows \in Seq(Range(rows)) /\ Len(rows) \in Nat /\ DOMAIN rows = 1 .. Len(rows)
      /\ \A i \in DOMAIN rows : rows[i] = [c \in C |-> rows[i][c]] /\ rows[i][Fork] = Trunk(emit)
      /\ LivesKept(rows, now) /\ {Fork, RecordId, Created, Deactivated, RecordIndex} \subseteq C
  <2>1. /\ rows \in Seq(Range(rows))
        /\ \A r \in Range(rows) : r = [c \in C |-> r[c]] /\ r[Fork] = Trunk(emit)
    BY <1>1 DEF RowsShaped, Rows
  <2>2. LivesKept(rows, now) /\ {Fork, RecordId, Created, Deactivated, RecordIndex} \subseteq C
    BY <1>2 DEF RecordsKept, LivesKept, Rows
  <2> HIDE DEF rows, C
  <2>3. \A i \in DOMAIN rows : rows[i] \in Range(rows)
    BY DEF Range
  <2> QED
    BY <2>1, <2>2, <2>3
<1>4. all = [i \in DOMAIN rows |-> all[i]]
  BY DEF Updated
<1> DEFINE written(i) == [x \in DOMAIN rows[i] |->
                            IF x = Mutated THEN now ELSE IF x \in DOMAIN cells THEN cells[x] ELSE rows[i][x]]
<1>5. \A i \in DOMAIN rows : all[i] = IF rows[i][RecordId] # id THEN rows[i] ELSE written(i)
  BY DEF Updated
<1> HIDE DEF rows, all, n, C
<1>6. ASSUME NEW i \in DOMAIN rows
      PROVE  /\ all[i] = [c \in C |-> all[i][c]]
             /\ \A c \in Fixed : all[i][c] = rows[i][c]
             /\ all[i][Deactivated] = rows[i][Deactivated] \/ all[i][Deactivated] = now
  <2>1. CASE rows[i][RecordId] # id
    BY <1>3, <1>5, <2>1
  <2>2. CASE ~(rows[i][RecordId] # id)
    <3>1. DOMAIN rows[i] = C
      BY <1>3
    <3>2. all[i] = [x \in C |-> IF x = Mutated THEN now
                                ELSE IF x \in DOMAIN cells THEN cells[x] ELSE rows[i][x]]
      BY <1>5, <2>2, <3>1
    <3> HIDE DEF written
    <3>3. all[i] = [c \in C |-> all[i][c]]
      BY <3>2
    <3>4. \A c \in Fixed : c \in C /\ c # Mutated /\ c \notin DOMAIN cells
      BY <1>3, NameFacts DEF Fixed
    <3>5. \A c \in Fixed : all[i][c] = rows[i][c]
      BY <3>2, <3>4
    <3>6. Deactivated \in C /\ Deactivated # Mutated
      BY <1>3, NameFacts
    <3>7. all[i][Deactivated] = rows[i][Deactivated] \/ all[i][Deactivated] = now
      BY <3>2, <3>6
    <3> QED
      BY <3>3, <3>5, <3>7
  <2> QED
    BY <2>1, <2>2
<1>7. IsTape(After(emit, n, all, more), now)
  BY <1>4, <1>6, ChangedTape DEF n, rows, C
<1> QED
  BY <1>7 DEF n, all

\* History gets no row, or one.
LEMMA NoMore == Shaped(emit, History, <<>>) /\ \A h \in Range(<<>>) : h[SimTime] \in 0 .. now
<1>1. Range(<<>>) = {} /\ <<>> \in Seq(Range(<<>>))
  BY DEF Range
<1> QED
  BY <1>1 DEF Shaped

LEMMA OneMore ==
    ASSUME now \in Nat, IsTape(emit, now), NEW k, NEW id, NEW c, NEW v
    PROVE  /\ Shaped(emit, History, <<HistoryRow(k, id, c, v)>>)
           /\ \A h \in Range(<<HistoryRow(k, id, c, v)>>) : h[SimTime] \in 0 .. now
<1> DEFINE row == HistoryRow(k, id, c, v)
           X == {Fork, Kind, RecordId, Property, SimTime, Value}
<1>1. row = [x \in X |-> row[x]] /\ row[Fork] = Trunk(emit) /\ row[SimTime] = now
  BY HistoryRowFacts
<1>2. ColumnNames(emit, History) = X
  BY DEF IsTape, HistoryKept
<1> HIDE DEF row, X
<1>3. Range(<<row>>) = {row} /\ <<row>> \in Seq(Range(<<row>>))
  BY DEF Range
<1>4. Shaped(emit, History, <<row>>)
  BY <1>1, <1>2, <1>3 DEF Shaped
<1> QED
  BY <1>1, <1>3, <1>4 DEF row

LEMMA WriteKeeps ==
    ASSUME now \in Nat, IsTape(emit, now), NEW k \in Kinds, Write(k)
    PROVE  IsTape(emit', now)
<1>1. PICK id \in Alive(k), c \in ColumnsOf(k) : \E v :
         Written(RecordsOf(k), Updated(k, id, Cells(c, v)),
                 IF c.tracked = TRUE THEN <<HistoryRow(k, id, c, v)>> ELSE <<>>)
  BY DEF Write
<1>1a. PICK v :
         Written(RecordsOf(k), Updated(k, id, Cells(c, v)),
                 IF c.tracked = TRUE THEN <<HistoryRow(k, id, c, v)>> ELSE <<>>)
  BY <1>1
<1> DEFINE more == IF c.tracked = TRUE THEN <<HistoryRow(k, id, c, v)>> ELSE <<>>
<1>2. emit' = After(emit, RecordsOf(k), Updated(k, id, Cells(c, v)), more)
  BY <1>1a, WrittenAfter
<1>3. Shaped(emit, History, more) /\ \A h \in Range(more) : h[SimTime] \in 0 .. now
  BY NoMore, OneMore
<1>4. c.name = PropOf(c.name[2])
  <2>1. SpecFor(emit, RecordsOf(k)) \in emit.specs
    BY TapeShape, KindFacts, SpecFacts
  <2> QED
    BY <2>1, TapeShape DEF ColumnsOf, ColumnsNamed
<1>5. DOMAIN Cells(c, v) \subseteq {PropOf(c.name[2]), RefIndex(c.name[2])}
  BY <1>4 DEF Cells
<1>6. DOMAIN Cells(c, v) \cap Fixed = {} /\ Deactivated \notin DOMAIN Cells(c, v)
  BY <1>5 DEF Fixed, PropOf, RefIndex, Fork, RecordId, Created, RecordIndex, Deactivated
<1> HIDE DEF more
<1> QED
  BY <1>2, <1>3, <1>6, UpdatedTape

LEMMA DeactivateKeeps ==
    ASSUME now \in Nat, IsTape(emit, now), NEW k \in Kinds, Deactivate(k)
    PROVE  IsTape(emit', now)
<1>1. PICK id \in Alive(k) : Written(RecordsOf(k), Updated(k, id, Gone), <<>>)
  BY DEF Deactivate
<1>2. emit' = After(emit, RecordsOf(k), Updated(k, id, Gone), <<>>)
  BY <1>1, WrittenAfter
<1>3. DOMAIN Gone = {Active, Deactivated} /\ Gone[Deactivated] = now
  BY NameFacts DEF Gone
<1>4. DOMAIN Gone \cap Fixed = {}
  BY <1>3, NameFacts DEF Fixed
<1> QED
  BY <1>2, <1>3, <1>4, NoMore, UpdatedTape

LEMMA EnterKeeps ==
    ASSUME now \in Nat, IsTape(emit, now), Enter
    PROVE  IsTape(emit', now)
<1> DEFINE n == MemberTable
           rows == Rows(n)
           C == ColumnNames(emit, n)
<1>1. PICK owner, k, id : emit' = After(emit, n, Append(rows, NewMember(owner, k, id)), <<>>)
  BY WrittenAfter DEF Enter
<1> DEFINE new == NewMember(owner, k, id)
           all == Append(rows, new)
<1>2. /\ n \in Tables(emit) /\ RowsShaped(emit, n) /\ n # History /\ \A j \in Kinds : n # RecordsOf(j)
  <2>1. n # History
    BY TapeAssumption DEF History, Membership
  <2> QED
    BY <2>1, TapeShape, CategoryFacts
<1>3. C = {Fork, RecordId, Joined, Left, Field, <<"member_id", Field[2]>>} /\ IntervalsKept(rows, now)
  BY DEF IsTape, MembersKept, IntervalsKept, Rows
<1>4. new = [c \in C |-> new[c]] /\ new[Fork] = Trunk(emit) /\ new[Joined] = now /\ new[Left] = NULL
  <2>1. Field[1] = "member_kind"
    BY TapeAssumption
  <2>2. /\ Fork # RecordId /\ Fork # Joined /\ Fork # Left /\ Fork # Field
        /\ Joined # RecordId /\ Joined # Left /\ Joined # Field /\ Left # RecordId /\ Left # Field
    BY <2>1 DEF Fork, RecordId, Joined, Left
  <2>3. new = [c \in C |-> new[c]]
    BY <1>3 DEF NewMember
  <2>4. new[Fork] = Trunk(emit)
    BY <2>2 DEF NewMember
  <2>5. new[Joined] = now
    BY <2>2 DEF NewMember
  <2>6. new[Left] = NULL
    BY <2>2 DEF NewMember
  <2> QED
    BY <2>3, <2>4, <2>5, <2>6
<1>5. /\ rows \in Seq(Range(rows)) /\ \A r \in Range(rows) : r = [c \in C |-> r[c]] /\ r[Fork] = Trunk(emit)
  BY <1>2 DEF RowsShaped, Rows
<1> HIDE DEF n, rows, C, new
<1>6. /\ Len(rows) \in Nat /\ DOMAIN rows = 1 .. Len(rows) /\ DOMAIN all = 1 .. Len(rows) + 1
      /\ \A i \in DOMAIN all : IF i = Len(rows) + 1 THEN all[i] = new
                               ELSE i \in DOMAIN rows /\ all[i] = rows[i]
      /\ Range(all) = Range(rows) \cup {new} /\ all \in Seq(Range(all))
  BY <1>5, AppendFacts
<1> HIDE DEF all
<1>7. Shaped(emit, n, all)
  BY <1>4, <1>5, <1>6 DEF Shaped, C
<1>8. IntervalsKept(all, now)
  <2> SUFFICES ASSUME NEW i \in DOMAIN all
               PROVE  /\ all[i][Joined] \in 0 .. now
                      /\ all[i][Left] # NULL => all[i][Left] \in all[i][Joined] .. now
                      /\ \A j \in DOMAIN all : i < j => all[i][Joined] <= all[j][Joined]
    BY DEF IntervalsKept
  <2>1. CASE i = Len(rows) + 1
    BY <1>4, <1>6, <2>1
  <2>2. CASE i # Len(rows) + 1
    <3>1. i \in DOMAIN rows /\ all[i] = rows[i]
      BY <1>6, <2>2
    <3>2. /\ rows[i][Joined] \in 0 .. now
          /\ rows[i][Left] # NULL => rows[i][Left] \in rows[i][Joined] .. now
          /\ \A j \in DOMAIN rows : i < j => rows[i][Joined] <= rows[j][Joined]
      BY <1>3, <3>1 DEF IntervalsKept
    <3>3. ASSUME NEW j \in DOMAIN all, i < j PROVE all[i][Joined] <= all[j][Joined]
      <4>1. CASE j = Len(rows) + 1
        BY <1>4, <1>6, <3>1, <3>2, <4>1
      <4>2. CASE j # Len(rows) + 1
        BY <1>6, <3>1, <3>2, <3>3, <4>2
      <4> QED
        BY <4>1, <4>2
    <3> QED
      BY <3>1, <3>2, <3>3
  <2> QED
    BY <2>1, <2>2
<1>9. IsTape(After(emit, n, all, <<>>), now)
  BY <1>2, <1>7, <1>8, NoMore, AfterTape
<1> QED
  BY <1>1, <1>9 DEF all, new

LEMMA ExitKeeps ==
    ASSUME now \in Nat, IsTape(emit, now), Exit
    PROVE  IsTape(emit', now)
<1> DEFINE n == MemberTable
           rows == Rows(n)
           C == ColumnNames(emit, n)
<1>1. PICK x \in DOMAIN rows : emit' = After(emit, n, [rows EXCEPT ![x][Left] = now], <<>>)
  BY WrittenAfter DEF Exit
<1> DEFINE all == [rows EXCEPT ![x][Left] = now]
<1>2. /\ n \in Tables(emit) /\ RowsShaped(emit, n) /\ n # History /\ \A j \in Kinds : n # RecordsOf(j)
  <2>1. n # History
    BY TapeAssumption DEF History, Membership
  <2> QED
    BY <2>1, TapeShape, CategoryFacts
<1>3. C = {Fork, RecordId, Joined, Left, Field, <<"member_id", Field[2]>>} /\ IntervalsKept(rows, now)
  BY DEF IsTape, MembersKept, IntervalsKept, Rows
<1>4. rows \in Seq(Range(rows)) /\ \A r \in Range(rows) : r = [c \in C |-> r[c]] /\ r[Fork] = Trunk(emit)
  BY <1>2 DEF RowsShaped, Rows
<1>5. {Fork, Joined, Left} \subseteq C /\ Fork # Left /\ Joined # Left
  BY <1>3 DEF Fork, Joined, Left
<1> HIDE DEF n, rows, C
<1>6. Len(rows) \in Nat /\ DOMAIN rows = 1 .. Len(rows) /\ \A i \in DOMAIN rows : rows[i] \in Range(rows)
  BY <1>4 DEF Range
<1>7. /\ DOMAIN all = DOMAIN rows /\ all = [i \in DOMAIN rows |-> all[i]]
      /\ \A i \in DOMAIN rows : all[i] = IF i = x THEN [rows[x] EXCEPT ![Left] = now] ELSE rows[i]
  OBVIOUS
<1> HIDE DEF all
<1>8. ASSUME NEW i \in DOMAIN rows
      PROVE  /\ all[i] = [c \in C |-> all[i][c]] /\ all[i][Fork] = Trunk(emit)
             /\ all[i][Joined] = rows[i][Joined]
             /\ all[i][Left] = rows[i][Left] \/ all[i][Left] = now
  <2>1. rows[i] = [c \in C |-> rows[i][c]] /\ rows[i][Fork] = Trunk(emit)
    BY <1>4, <1>6
  <2>2. CASE i # x
    BY <1>7, <2>1, <2>2
  <2>3. CASE i = x
    <3>1. all[i] = [rows[i] EXCEPT ![Left] = now]
      BY <1>7, <2>3
    <3>2. all[i] = [c \in C |-> IF c = Left THEN now ELSE rows[i][c]]
      BY <1>5, <2>1, <3>1
    <3> QED
      BY <1>5, <2>1, <3>2
  <2> QED
    BY <2>2, <2>3
<1>9. Shaped(emit, n, all)
  <2>1. \A i \in 1 .. Len(rows) : all[i] \in Range(all)
    BY <1>6, <1>7 DEF Range
  <2>2. all \in Seq(Range(all))
    BY <1>6, <1>7, <2>1
  <2>3. ASSUME NEW r \in Range(all) PROVE r = [c \in C |-> r[c]] /\ r[Fork] = Trunk(emit)
    <3>1. PICK i \in DOMAIN rows : r = all[i]
      BY <1>7 DEF Range
    <3> QED
      BY <1>8, <3>1
  <2> QED
    BY <2>2, <2>3 DEF Shaped, C
<1>10. IntervalsKept(all, now)
  <2> SUFFICES ASSUME NEW i \in DOMAIN all
               PROVE  /\ all[i][Joined] \in 0 .. now
                      /\ all[i][Left] # NULL => all[i][Left] \in all[i][Joined] .. now
                      /\ \A j \in DOMAIN all : i < j => all[i][Joined] <= all[j][Joined]
    BY DEF IntervalsKept
  <2>1. /\ rows[i][Joined] \in 0 .. now
        /\ rows[i][Left] # NULL => rows[i][Left] \in rows[i][Joined] .. now
        /\ \A j \in DOMAIN rows : i < j => rows[i][Joined] <= rows[j][Joined]
    BY <1>3, <1>7 DEF IntervalsKept
  <2>2. /\ all[i][Joined] = rows[i][Joined] /\ \A j \in DOMAIN all : all[j][Joined] = rows[j][Joined]
        /\ all[i][Left] = rows[i][Left] \/ all[i][Left] = now
    BY <1>7, <1>8
  <2> QED
    BY <1>7, <2>1, <2>2
<1>11. IsTape(After(emit, n, all, <<>>), now)
  BY <1>2, <1>9, <1>10, NoMore, AfterTape
<1> QED
  BY <1>1, <1>11 DEF all

\* A corruption changes a surrogate and nothing a tape is made of.
LEMMA GarbleKeeps ==
    ASSUME now \in Nat, IsTape(emit, now), NEW k \in Kinds, NEW r \in Records(k), NEW v
    PROVE  IsTape(After(emit, RecordsOf(k),
                        [i \in DOMAIN Rows(RecordsOf(k)) |->
                            IF Rows(RecordsOf(k))[i] = r THEN [r EXCEPT ![Presented] = v]
                            ELSE Rows(RecordsOf(k))[i]], <<>>), now)
<1> DEFINE n == RecordsOf(k)
           rows == Rows(n)
           C == ColumnNames(emit, n)
           all == [i \in DOMAIN rows |-> IF rows[i] = r THEN [r EXCEPT ![Presented] = v] ELSE rows[i]]
<1>1. RowsShaped(emit, n) /\ {Fork, RecordId, Created, Deactivated, RecordIndex} \subseteq C
  BY TapeShape, KindFacts DEF IsTape, RecordsKept
<1>2. \A i \in DOMAIN rows : rows[i] = [c \in C |-> rows[i][c]]
  BY <1>1 DEF RowsShaped, Rows, Range
<1>3. \A c \in Fixed \cup {Deactivated} : c \in C /\ c # Presented
  BY <1>1, NameFacts DEF Fixed
<1>4. \A i \in DOMAIN rows : all[i] = IF rows[i] = r THEN [rows[i] EXCEPT ![Presented] = v] ELSE rows[i]
  OBVIOUS
<1>5. all = [i \in DOMAIN rows |-> all[i]]
  OBVIOUS
<1> HIDE DEF all, rows, C, n
<1>6. ASSUME NEW i \in DOMAIN rows
      PROVE  /\ all[i] = [c \in C |-> all[i][c]]
             /\ \A c \in Fixed : all[i][c] = rows[i][c]
             /\ all[i][Deactivated] = rows[i][Deactivated] \/ all[i][Deactivated] = now
  <2>1. CASE rows[i] = r
    <3>1. all[i] = [c \in C |-> IF c = Presented THEN v ELSE rows[i][c]]
      BY <1>2, <1>4, <2>1
    <3>2. \A c \in Fixed \cup {Deactivated} : all[i][c] = rows[i][c]
      BY <1>3, <3>1
    <3> QED
      BY <3>1, <3>2
  <2>2. CASE rows[i] # r
    BY <1>2, <1>4, <2>2
  <2> QED
    BY <2>1, <2>2
<1>7. IsTape(After(emit, n, all, <<>>), now)
  BY <1>5, <1>6, NoMore, ChangedTape DEF rows, C, n
<1> QED
  BY <1>7 DEF all, rows, n

---------------------------------------------------------------------------
(* The theorems of the tape.                                               *)

\* The emit of every instant is what a reader relies on.
Conforming == now \in 0 .. LastTime /\ IsTape(emit, now)

LEMMA NextKeeps ==
    ASSUME Conforming, Next
    PROVE  Conforming'
<1> USE DEF Conforming
<1>0. LastTime \in Nat /\ now \in Nat
  BY TapeAssumption
<1>1. ASSUME NEW k \in Kinds, Born(k) PROVE Conforming'
  BY <1>0, <1>1, BornKeeps DEF Born, Change
<1>2. ASSUME NEW k \in Kinds, Write(k) PROVE Conforming'
  BY <1>0, <1>2, WriteKeeps DEF Write, Change
<1>3. ASSUME NEW k \in Kinds, Deactivate(k) PROVE Conforming'
  BY <1>0, <1>3, DeactivateKeeps DEF Deactivate, Change
<1>4. CASE Enter
  BY <1>0, <1>4, EnterKeeps DEF Enter, Change
<1>5. CASE Exit
  BY <1>0, <1>5, ExitKeeps DEF Exit, Change
<1>6. CASE Tick
  <2>1. now' = now + 1 /\ emit' = emit /\ now < LastTime
    BY <1>6 DEF Tick
  <2>2. now' \in Nat /\ now <= now' /\ now' \in 0 .. LastTime
    BY <1>0, <2>1
  <2>3. IsTape(emit, now')
    BY <1>0, <2>2, LaterTape
  <2> QED
    BY <2>1, <2>2, <2>3
<1> QED
  BY <1>1, <1>2, <1>3, <1>4, <1>5, <1>6 DEF Next

\* Whatever the producer does, and in whatever order, the emit of every instant is one
\* the relied-on guarantees describe: one branch, tables and columns named once, one
\* index and one life for each record, history from the creation of a record on, and
\* intervals in the order they begin (docs/architecture/derivations.md, "Relied-on
\* upstream guarantees").
THEOREM TapeConforms == Spec => []Conforming
<1>1. Init => Conforming
  BY TapeAssumption DEF Init, Conforming
<1>2. Conforming /\ [Next]_vars => Conforming'
  <2>1. CASE Next
    BY <2>1, NextKeeps
  <2>2. CASE UNCHANGED vars
    BY <2>2 DEF vars, Conforming
  <2> QED
    BY <2>1, <2>2
<1> QED
  BY <1>1, <1>2, PTL DEF Spec

\* For every tape and every instant of it, whatever the exporter derives for the instant
\* is what it derives in the end of the tape truncated there, and the version over an
\* instant has the values of the state at it: the folds of derivations/ commute with
\* truncated_tape.py.
THEOREM DerivationsHold == Spec => []DerivationsAgree
<1>1. Conforming => DerivationsAgree
  BY FoldsAgree, VersionsAgree DEF Conforming, DerivationsAgree
<1> QED
  BY <1>1, TapeConforms, PTL

\* A corruption that duplicates a surrogate takes nothing from that: what the source
\* exporter derives from a corrupted emit agrees as well.
THEOREM CorruptionConforms == SourceSpec => [](Conforming /\ DerivationsAgree)
<1>1. SourceInit => Conforming
  BY TapeAssumption DEF SourceInit, Init, Conforming
<1>2. Conforming /\ [SourceNext]_<<vars, garbled>> => Conforming'
  <2>1. CASE Produce
    BY <2>1, NextKeeps DEF Produce
  <2>2. ASSUME Conforming, Garble PROVE Conforming'
    <3>1. PICK k \in Corruptible : \E r, q \in Records(k) :
             Written(RecordsOf(k),
                [i \in DOMAIN Rows(RecordsOf(k)) |->
                    IF Rows(RecordsOf(k))[i] = r
                    THEN [r EXCEPT ![Presented] = q[Presented]] ELSE Rows(RecordsOf(k))[i]], <<>>)
      BY <2>2 DEF Garble
    <3>2. PICK r \in Records(k), q \in Records(k) :
             Written(RecordsOf(k),
                [i \in DOMAIN Rows(RecordsOf(k)) |->
                    IF Rows(RecordsOf(k))[i] = r
                    THEN [r EXCEPT ![Presented] = q[Presented]] ELSE Rows(RecordsOf(k))[i]], <<>>)
      BY <3>1
    <3>3. k \in Kinds
      BY SourceAssumption
    <3>4. now \in Nat /\ IsTape(emit, now)
      BY <2>2, TapeAssumption DEF Conforming
    <3>5. IsTape(emit', now)
      BY ZenonT(30), <3>2, <3>3, <3>4, WrittenAfter, GarbleKeeps
    <3> QED
      BY <2>2, <3>5 DEF Garble, Conforming
  <2>3. CASE UNCHANGED <<vars, garbled>>
    BY <2>3 DEF vars, Conforming
  <2> QED
    BY <2>1, <2>2, <2>3 DEF SourceNext
<1>3. Conforming => DerivationsAgree
  BY FoldsAgree, VersionsAgree DEF Conforming, DerivationsAgree
<1> QED
  BY <1>1, <1>2, <1>3, PTL DEF SourceSpec

---------------------------------------------------------------------------
(* The keys of the source exporter.                                        *)

\* What no step changes, and the surrogates of the flat kinds.
KeysOf(e) ==
    /\ "claims" \in DOMAIN e /\ e.claims = Blank.claims
    /\ \A k : SubTypes(e, k) = SubTypes(Blank, k)
    /\ \A k \in Kinds : /\ ColumnNames(e, RecordsOf(k)) = ColumnNames(Blank, RecordsOf(k))
                        /\ SurrogatesKept(e, k)

\* Every row has a surrogate of its own.
OwnSurrogates(rows) ==
    \A i \in DOMAIN rows :
       /\ rows[i][Presented] # NULL
       /\ \A j \in DOMAIN rows : rows[i][Presented] = rows[j][Presented] => i = j

LEMMA AfterKeys ==
    ASSUME NEW e, TablesNamed(e), \A s \in e.specs : ColumnsNamed(e, s), KeysOf(e),
           NEW n \in Tables(e), NEW rows, NEW more,
           \A k \in Kinds : n = RecordsOf(k) =>
              (SubTypes(e, k) = {} /\ HasPresentationId(e, k) => OwnSurrogates(rows))
    PROVE  KeysOf(After(e, n, rows, more))
<1> DEFINE f == After(e, n, rows, more)
<1>1. "claims" \in DOMAIN f /\ f.claims = e.claims
  BY DEF KeysOf, After
<1>2. /\ \A k : SubTypes(f, k) = SubTypes(e, k)
      /\ \A m \in Tables(e) :
            /\ ColumnNames(f, m) = ColumnNames(e, m)
            /\ f.cat[m].rows = IF m = n THEN rows
                               ELSE IF m = History THEN e.cat[m].rows \o more ELSE e.cat[m].rows
  BY AfterFacts
<1> HIDE DEF f
<1>3. ASSUME NEW k \in Kinds
      PROVE  /\ ColumnNames(f, RecordsOf(k)) = ColumnNames(Blank, RecordsOf(k))
             /\ SurrogatesKept(f, k)
  <2>1. RecordsOf(k) \in Tables(e) /\ RecordsOf(k) # History
    BY KindFacts
  <2>2. ColumnNames(f, RecordsOf(k)) = ColumnNames(e, RecordsOf(k))
        /\ f.cat[RecordsOf(k)].rows = IF RecordsOf(k) = n THEN rows ELSE e.cat[RecordsOf(k)].rows
    BY <1>2, <2>1
  <2>3. SurrogatesKept(e, k) /\ ColumnNames(e, RecordsOf(k)) = ColumnNames(Blank, RecordsOf(k))
    BY DEF KeysOf
  <2>4. ASSUME SubTypes(f, k) = {}, HasPresentationId(f, k)
        PROVE  OwnSurrogates(f.cat[RecordsOf(k)].rows)
    <3>1. SubTypes(e, k) = {} /\ HasPresentationId(e, k)
      BY <1>2, <2>2, <2>4 DEF HasPresentationId
    <3>2. CASE RecordsOf(k) = n
      BY <2>2, <3>1, <3>2
    <3>3. CASE RecordsOf(k) # n
      BY <2>2, <2>3, <3>1, <3>3 DEF SurrogatesKept, OwnSurrogates
    <3> QED
      BY <3>2, <3>3
  <2>5. SurrogatesKept(f, k)
    BY <2>4 DEF SurrogatesKept, OwnSurrogates
  <2> QED
    BY <2>2, <2>3, <2>5
<1>4. \A k : SubTypes(f, k) = SubTypes(Blank, k)
  BY <1>2 DEF KeysOf
<1> QED
  BY <1>1, <1>3, <1>4 DEF KeysOf, f

\* An update leaves the surrogates as they are.
LEMMA UpdatedKeys ==
    ASSUME NEW at, IsTape(emit, at), KeysOf(emit), NEW k \in Kinds, NEW id, NEW cells, NEW more,
           Presented \notin DOMAIN cells
    PROVE  KeysOf(After(emit, RecordsOf(k), Updated(k, id, cells), more))
<1> DEFINE n == RecordsOf(k)
           rows == Rows(n)
           all == Updated(k, id, cells)
<1>1. /\ TablesNamed(emit) /\ (\A s \in emit.specs : ColumnsNamed(emit, s)) /\ RowsShaped(emit, n)
      /\ n \in Tables(emit) /\ \A j : n = RecordsOf(j) => j = k
  BY TapeShape, KindFacts
<1>2. ASSUME SubTypes(emit, k) = {}, HasPresentationId(emit, k) PROVE OwnSurrogates(all)
  <2>1. OwnSurrogates(rows)
    BY <1>2 DEF KeysOf, SurrogatesKept, OwnSurrogates, Rows
  <2>2. ASSUME NEW i \in DOMAIN rows PROVE Presented \in DOMAIN rows[i]
    <3>1. rows[i] = [c \in ColumnNames(emit, n) |-> rows[i][c]]
      BY <1>1 DEF RowsShaped, Rows, Range
    <3> QED
      BY <1>2, <3>1 DEF HasPresentationId
  <2>3. DOMAIN all = DOMAIN rows
    BY DEF Updated
  <2>4. ASSUME NEW i \in DOMAIN rows PROVE all[i][Presented] = rows[i][Presented]
    BY <2>2, NameFacts DEF Updated
  <2> HIDE DEF all, rows
  <2> QED
    BY <2>1, <2>3, <2>4 DEF OwnSurrogates
<1> HIDE DEF all
<1>3. \A j \in Kinds : n = RecordsOf(j) =>
         (SubTypes(emit, j) = {} /\ HasPresentationId(emit, j) => OwnSurrogates(all))
  BY <1>1, <1>2
<1>4. KeysOf(After(emit, n, all, more))
  BY <1>1, <1>3, AfterKeys
<1> QED
  BY <1>4 DEF all

LEMMA BornKeys ==
    ASSUME NEW at, IsTape(emit, at), KeysOf(emit), NEW k \in Kinds, Born(k)
    PROVE  KeysOf(emit')
<1> DEFINE n == RecordsOf(k)
           rows == Rows(n)
<1>1. /\ TablesNamed(emit) /\ (\A s \in emit.specs : ColumnsNamed(emit, s)) /\ RowsShaped(emit, n)
      /\ n \in Tables(emit) /\ \A j : n = RecordsOf(j) => j = k
  BY TapeShape, KindFacts
<1>2. PICK id, values :
         /\ Minted(k, NewRecord(k, id, values))
         /\ emit' = After(emit, n, Append(rows, NewRecord(k, id, values)), Seeded(k, id, values))
  BY WrittenAfter DEF Born
<1> DEFINE new == NewRecord(k, id, values)
           all == Append(rows, new)
<1>3. ASSUME SubTypes(emit, k) = {}, HasPresentationId(emit, k) PROVE OwnSurrogates(all)
  <2>1. OwnSurrogates(rows)
    BY <1>3 DEF KeysOf, SurrogatesKept, OwnSurrogates, Rows
  <2>2. \A r \in Records(k) : PopulationOf(emit, k, r) = PopulationOf(emit, k, new)
    BY <1>3 DEF PopulationOf
  <2>3. new[Presented] # NULL /\ \A r \in Records(k) : r[Presented] # new[Presented]
    BY <1>2, <1>3, <2>2 DEF Minted
  <2>4. \A i \in DOMAIN rows : rows[i] \in Records(k)
    BY DEF Records, Rows, Range
  <2>5. rows \in Seq(Range(rows))
    BY <1>1 DEF RowsShaped, Rows
  <2> HIDE DEF rows, new
  <2>6. /\ Len(rows) \in Nat /\ DOMAIN rows = 1 .. Len(rows) /\ DOMAIN all = 1 .. Len(rows) + 1
        /\ \A i \in DOMAIN all : IF i = Len(rows) + 1 THEN all[i] = new
                                 ELSE i \in DOMAIN rows /\ all[i] = rows[i]
    BY <2>5, AppendFacts
  <2> HIDE DEF all
  <2> SUFFICES ASSUME NEW i \in DOMAIN all
               PROVE  /\ all[i][Presented] # NULL
                      /\ \A j \in DOMAIN all : all[i][Presented] = all[j][Presented] => i = j
    BY DEF OwnSurrogates
  <2>7. CASE i = Len(rows) + 1
    BY <2>3, <2>4, <2>6, <2>7
  <2>8. CASE i # Len(rows) + 1
    <3>1. i \in DOMAIN rows /\ all[i] = rows[i]
      BY <2>6, <2>8
    <3>2. ASSUME NEW j \in DOMAIN all, all[i][Presented] = all[j][Presented] PROVE i = j
      <4>1. j # Len(rows) + 1
        BY <2>3, <2>4, <2>6, <3>1, <3>2
      <4>2. j \in DOMAIN rows /\ all[j] = rows[j]
        BY <2>6, <4>1
      <4> QED
        BY <2>1, <3>1, <3>2, <4>2 DEF OwnSurrogates
    <3> QED
      BY <2>1, <3>1, <3>2 DEF OwnSurrogates
  <2> QED
    BY <2>7, <2>8
<1> HIDE DEF all
<1>4. \A j \in Kinds : n = RecordsOf(j) =>
         (SubTypes(emit, j) = {} /\ HasPresentationId(emit, j) => OwnSurrogates(all))
  BY <1>1, <1>3
<1>5. KeysOf(After(emit, n, all, Seeded(k, id, values)))
  BY <1>1, <1>4, AfterKeys
<1> QED
  BY <1>2, <1>5 DEF all

LEMMA NextKeys ==
    ASSUME NEW at, IsTape(emit, at), KeysOf(emit), Next
    PROVE  KeysOf(emit')
<1>1. ASSUME NEW k \in Kinds, Born(k) PROVE KeysOf(emit')
  BY <1>1, BornKeys
<1>2. ASSUME NEW k \in Kinds, Write(k) PROVE KeysOf(emit')
  <2>1. PICK id \in Alive(k), c \in ColumnsOf(k) : \E v :
           Written(RecordsOf(k), Updated(k, id, Cells(c, v)),
                   IF c.tracked = TRUE THEN <<HistoryRow(k, id, c, v)>> ELSE <<>>)
    BY <1>2 DEF Write
  <2>1a. PICK v :
           Written(RecordsOf(k), Updated(k, id, Cells(c, v)),
                   IF c.tracked = TRUE THEN <<HistoryRow(k, id, c, v)>> ELSE <<>>)
    BY <2>1
  <2>2. c.name = PropOf(c.name[2])
    <3>1. SpecFor(emit, RecordsOf(k)) \in emit.specs
      BY TapeShape, KindFacts, SpecFacts
    <3> QED
      BY <3>1, TapeShape DEF ColumnsOf, ColumnsNamed
  <2>3. DOMAIN Cells(c, v) \subseteq {PropOf(c.name[2]), RefIndex(c.name[2])}
    BY <2>2 DEF Cells
  <2>4. Presented \notin DOMAIN Cells(c, v)
    BY <2>3 DEF PropOf, RefIndex, Presented
  <2> QED
    BY <2>1a, <2>4, WrittenAfter, UpdatedKeys
<1>3. ASSUME NEW k \in Kinds, Deactivate(k) PROVE KeysOf(emit')
  <2>1. PICK id : Written(RecordsOf(k), Updated(k, id, Gone), <<>>)
    BY <1>3 DEF Deactivate
  <2>2. Presented \notin DOMAIN Gone
    BY NameFacts DEF Gone
  <2> QED
    BY <2>1, <2>2, WrittenAfter, UpdatedKeys
<1>4. CASE Enter \/ Exit
  <2>1. PICK rows : Written(MemberTable, rows, <<>>)
    BY <1>4 DEF Enter, Exit
  <2>2. /\ TablesNamed(emit) /\ (\A s \in emit.specs : ColumnsNamed(emit, s))
        /\ MemberTable \in Tables(emit) /\ \A k \in Kinds : MemberTable # RecordsOf(k)
    BY TapeShape, CategoryFacts
  <2> QED
    BY <2>1, <2>2, WrittenAfter, AfterKeys
<1>5. CASE Tick
  BY <1>5 DEF Tick
<1> QED
  BY <1>1, <1>2, <1>3, <1>4, <1>5 DEF Next

\* A record has one row.
LEMMA OneRecord ==
    ASSUME NEW e, NEW at, IsTape(e, at), NEW k \in Kinds,
           NEW r \in TableRows(e, RecordsOf(k)), NEW q \in TableRows(e, RecordsOf(k)),
           q[RecordId] = r[RecordId]
    PROVE  q = r
<1> DEFINE rows == e.cat[RecordsOf(k)].rows
<1>1. \A i, j \in DOMAIN rows : rows[i][RecordId] = rows[j][RecordId] => i = j
  BY DEF IsTape, RecordsKept
<1>2. PICK i \in DOMAIN rows : r = rows[i]
  BY DEF TableRows, Range
<1>3. PICK j \in DOMAIN rows : q = rows[j]
  BY DEF TableRows, Range
<1> QED
  BY <1>1, <1>2, <1>3

\* The keys stay what they are as long as a corruption spares the flat kinds.
LEMMA GarbleKeys ==
    ASSUME NEW at, IsTape(emit, at), KeysOf(emit), \A k \in Corruptible : SubTypes(Blank, k) # {}, Garble
    PROVE  KeysOf(emit')
<1>1. PICK k \in Corruptible : \E rows : Written(RecordsOf(k), rows, <<>>)
  BY DEF Garble
<1>1a. PICK rows : Written(RecordsOf(k), rows, <<>>)
  BY <1>1
<1>2. k \in Kinds
  BY SourceAssumption
<1>3. /\ TablesNamed(emit) /\ (\A s \in emit.specs : ColumnsNamed(emit, s))
      /\ RecordsOf(k) \in Tables(emit) /\ \A j : RecordsOf(k) = RecordsOf(j) => j = k
  BY <1>2, TapeShape, KindFacts
<1>4. SubTypes(emit, k) # {}
  BY <1>2 DEF KeysOf
<1>5. \A j \in Kinds : RecordsOf(k) = RecordsOf(j) =>
         (SubTypes(emit, j) = {} /\ HasPresentationId(emit, j) => OwnSurrogates(rows))
  BY <1>3, <1>4
<1>6. KeysOf(After(emit, RecordsOf(k), rows, <<>>))
  BY <1>3, <1>5, AfterKeys
<1> QED
  BY <1>1a, <1>6, WrittenAfter

\* What names a record in a table is the value of the elected column in its row.
LEMMA IdentityCell ==
    ASSUME NEW e, NEW at, IsTape(e, at), NEW k \in Kinds, NEW surface \in Surfaces,
           NEW r \in TableRows(e, RecordsOf(k))
    PROVE  SelfIdentity(e, k, surface, r[RecordId]) = r[surface]
<1> DEFINE rows == TrunkRows(e, RecordsOf(k))
<1>1. RecordsOf(k) \in Tables(e) /\ RowsShaped(e, RecordsOf(k))
  BY TapeShape, CategoryFacts
<1>2. rows = TableRows(e, RecordsOf(k))
  BY <1>1, TrunkFacts
<1>3. \A q \in rows : q[RecordId] = r[RecordId] => q = r
  BY <1>2, OneRecord
<1>4. /\ RecordIndexAt(e, k, NULL) = {<<q[RecordId], q[RecordIndex]>> : q \in rows}
      /\ PresentationKeyAt(e, k, NULL) = {<<q[RecordId], q[Presented]>> : q \in rows}
  BY DEF RecordIndexAt, PresentationKeyAt
<1> HIDE DEF rows
<1>5. LeftJoin(RecordIndexAt(e, k, NULL), r[RecordId]) = r[RecordIndex]
  <2>1. \A x \in RecordIndexAt(e, k, NULL) : x[1] = r[RecordId] => x[2] = r[RecordIndex]
    BY <1>3, <1>4
  <2>2. \E x \in RecordIndexAt(e, k, NULL) : x[1] = r[RecordId]
    <3>1. <<r[RecordId], r[RecordIndex]>> \in RecordIndexAt(e, k, NULL)
      BY <1>2, <1>4
    <3>2. <<r[RecordId], r[RecordIndex]>>[1] = r[RecordId]
      OBVIOUS
    <3> QED
      BY <3>1, <3>2
  <2> QED
    BY <2>1, <2>2 DEF LeftJoin
<1>6. LeftJoin(PresentationKeyAt(e, k, NULL), r[RecordId]) = r[Presented]
  <2>1. \A x \in PresentationKeyAt(e, k, NULL) : x[1] = r[RecordId] => x[2] = r[Presented]
    BY <1>3, <1>4
  <2>2. \E x \in PresentationKeyAt(e, k, NULL) : x[1] = r[RecordId]
    <3>1. <<r[RecordId], r[Presented]>> \in PresentationKeyAt(e, k, NULL)
      BY <1>2, <1>4
    <3>2. <<r[RecordId], r[Presented]>>[1] = r[RecordId]
      OBVIOUS
    <3> QED
      BY <3>1, <3>2
  <2> QED
    BY <2>1, <2>2 DEF LeftJoin
<1> QED
  BY <1>5, <1>6, NameFacts DEF SelfIdentity, Surfaces

\* A kind that a plan knows has a table of the tape.
LEMMA KnownFacts ==
    ASSUME NEW e, TablesNamed(e), NEW k \in KnownKinds(e)
    PROVE  k \in Kinds
<1>1. PICK s \in e.specs : s.category = "records" /\ s.kind = k
  BY DEF KnownKinds, SpecsOf
<1>2. s.name \in Tables(e) /\ s.name = RecordsOf(k) /\ s.name # History /\ s.name # MemberTable
  BY <1>1 DEF TablesNamed
<1>3. PICK j \in Kinds : s.name = RecordsOf(j)
  BY <1>2 DEF TablesNamed
<1> QED
  BY <1>2, <1>3 DEF RecordsOf

LEMMA SurfaceFacts ==
    ASSUME NEW c \in Configs, NEW k, NEW p
    PROVE  SurfaceFor(c.keys, k, p) \in Surfaces
<1>1. CASE k \notin DOMAIN c.keys
  BY <1>1 DEF SurfaceFor, Surfaces
<1>2. CASE k \in DOMAIN c.keys
  <2>1. /\ c.keys[k].all \in Surfaces \cup {NULL} 
        /\ \A q \in DOMAIN c.keys[k].of : c.keys[k].of[q] \in Surfaces
    BY <1>2, SourceAssumption DEF Range
  <2> QED
    BY <1>2, <2>1 DEF SurfaceFor, Surfaces
<1> QED
  BY <1>1, <1>2

\* The populations of a table are one for a flat kind, and sub-types of any other.
LEMMA PopulationFacts ==
    ASSUME NEW e, NEW k, NEW subTypes, NonEmpty(subTypes), PopulationsResolve(e, k, subTypes)
    PROVE  /\ Populations(e, k, subTypes) # {}
           /\ Populations(e, k, subTypes) \subseteq PopulationsOf(e, k)
           /\ SubTypes(e, k) = {} => Populations(e, k, subTypes) = {NULL}
           /\ SubTypes(e, k) # {} => Populations(e, k, subTypes) \subseteq SubTypes(e, k)
  BY DEF NonEmpty, PopulationsResolve, Populations, PopulationsOf

\* A surrogate that the guard or the contract vouches for tells two selected records apart.
LEMMA SurrogateKey ==
    ASSUME NEW e, NEW at, IsTape(e, at), KeysOf(e), NEW k \in Kinds, NEW ps, NEW where,
           ps # {}, SubTypes(e, k) = {} => ps = {NULL} /\ HasPresentationId(e, k),
           SubTypes(e, k) # {} => ps \subseteq SubTypes(e, k),
           GuardSubset(e, k, ps \ {NULL}, Presented),
           NEW r \in SelectedRecords(e, k, ps, where), NEW q \in SelectedRecords(e, k, ps, where)
    PROVE  r[Presented] # NULL /\ (r # q => r[Presented] # q[Presented])
<1> DEFINE rows == e.cat[RecordsOf(k)].rows
<1>1. PICK i \in DOMAIN rows, j \in DOMAIN rows :
         rows[i] = r /\ rows[j] = q /\ r[Fork] = Trunk(e) /\ q[Fork] = Trunk(e)
  BY DEF SelectedRecords, TrunkRows, TableRows, Range
<1>2. CASE SubTypes(e, k) = {}
  <2>1. SurrogatesKept(e, k) /\ HasPresentationId(e, k)
    BY <1>2 DEF KeysOf
  <2> QED
    BY <1>1, <1>2, <2>1 DEF SurrogatesKept
<1>3. CASE SubTypes(e, k) # {}
  <2>1. ps \ {NULL} = ps /\ ps # {NULL}
    <3>1. NULL \notin SubTypes(e, k)
      BY SourceAssumption DEF KeysOf
    <3> QED
      BY <1>3, <3>1
  <2> DEFINE spine == IF ps = SubTypes(e, k) THEN {} ELSE PopulationSpine(e, k, ps)
  <2>2. ElectedKeyUnique(e, k, Presented, spine)
    BY <2>1 DEF GuardSubset
  <2>3. ASSUME NEW x \in SelectedRecords(e, k, ps, where) PROVE InSpine(spine, x[RecordId])
    <3>1. CASE ps = SubTypes(e, k)
      BY <3>1 DEF InSpine
    <3>2. CASE ps # SubTypes(e, k)
      <4>1. x \in TrunkRows(e, RecordsOf(k)) /\ PopulationOf(e, k, x) \in ps
        BY <2>1, <3>2 DEF SelectedRecords, NeedsPopulationFilter
      <4>2. x[PropOf(TypeProp(k))] \in ps
        BY <1>3, <4>1 DEF PopulationOf
      <4>3. InSpine(PopulationSpine(e, k, ps), x[RecordId])
        BY <4>1, <4>2 DEF PopulationSpine, InSpine
      <4> QED
        BY <3>2, <4>3 DEF InSpine
    <3> QED
      BY <3>1, <3>2
  <2> HIDE DEF spine
  <2>4. InSpine(spine, r[RecordId]) /\ InSpine(spine, q[RecordId])
    BY <2>3
  <2> QED
    BY <1>1, <2>2, <2>4 DEF ElectedKeyUnique
<1> QED
  BY <1>2, <1>3

\* Any surface elected for a table is a key of the records it selects.
LEMMA ElectedKey ==
    ASSUME NEW e, NEW at \in Nat, IsTape(e, at), KeysOf(e), NEW k \in Kinds, NEW ps, NEW where,
           NEW surface \in Surfaces, ps # {},
           SubTypes(e, k) = {} => ps = {NULL} /\ (surface = Presented => HasPresentationId(e, k)),
           SubTypes(e, k) # {} => ps \subseteq SubTypes(e, k),
           surface # RecordId => GuardSubset(e, k, ps \ {NULL}, surface),
           NEW r \in SelectedRecords(e, k, ps, where), NEW q \in SelectedRecords(e, k, ps, where)
    PROVE  r[surface] # NULL /\ (r # q => r[surface] # q[surface])
<1>1. r \in TableRows(e, RecordsOf(k)) /\ q \in TableRows(e, RecordsOf(k))
  BY DEF SelectedRecords, TrunkRows
<1>2. CASE surface = RecordId
  BY <1>1, <1>2, OneRecord, RecordLife
<1>3. CASE surface = RecordIndex
  <2> DEFINE rows == e.cat[RecordsOf(k)].rows
  <2>1. PICK i \in DOMAIN rows, j \in DOMAIN rows : rows[i] = r /\ rows[j] = q
    BY <1>1 DEF TableRows, Range
  <2>2. i \in Nat /\ j \in Nat
    <3>1. RowsShaped(e, RecordsOf(k))
      BY TapeShape, KindFacts
    <3> QED
      BY <3>1, TrunkFacts
  <2>3. r[RecordIndex] = i - 1 /\ q[RecordIndex] = j - 1
    BY <2>1 DEF IsTape, RecordsKept
  <2>4. r # q => i # j
    BY <2>1
  <2> QED
    BY <1>3, <2>2, <2>3, <2>4, NullFacts
<1>4. CASE surface = Presented
  <2>1. surface # RecordId
    BY <1>4, NameFacts
  <2> QED
    BY <1>4, <2>1, SurrogateKey
<1> QED
  BY <1>2, <1>3, <1>4 DEF Surfaces

\* The surface a table elects is the one of its populations and one of its columns.
Elects(e, c, t) ==
    /\ t.kind \in KnownKinds(e)
    /\ t.surface \in Surfaces /\ t.surface \in SourcesOf(t.columns)
    /\ t.populations # {} /\ t.populations \subseteq PopulationsOf(e, t.kind)
    /\ SubTypes(e, t.kind) = {} => t.populations = {NULL}
    /\ SubTypes(e, t.kind) # {} => t.populations \subseteq SubTypes(e, t.kind)
    /\ \A p \in t.populations : t.surface = SurfaceFor(c.keys, t.kind, p)

LEMMA StatePlanFacts ==
    ASSUME NEW e, NEW c \in Configs, PlanResolves(e, c), NEW i \in DOMAIN c.tables,
           c.tables[i].property = NULL, NEW t,
           t = StatePlan(e, Election(e, c.keys), c.tables[i], c.declareKeys)
    PROVE  Elects(e, c, t)
<1> DEFINE d  == c.tables[i]
           k  == d.kind
           el == Election(e, c.keys)
           ps == Populations(e, k, d.subTypes)
           p  == CHOOSE x \in ps : TRUE
           surface == TableSurface(el, k, ps)
           columns == StateColumns(e, k, surface, ps, d.columns, d.rename)
<1>1. NonEmpty(d.subTypes)
  BY DEF PlanResolves, WellFormed, TableWellFormed
<1>2. PopulationsResolve(e, k, d.subTypes)
  BY DEF PlanResolves, TableResolves, StateResolves
<1>3. k \in KnownKinds(e)
  BY <1>2 DEF PopulationsResolve
<1>4. /\ ps # {} /\ ps \subseteq PopulationsOf(e, k)
      /\ SubTypes(e, k) = {} => ps = {NULL}
      /\ SubTypes(e, k) # {} => ps \subseteq SubTypes(e, k)
  BY <1>1, <1>2, PopulationFacts
<1>5. t.property = NULL /\ t.kind = k /\ t.surface = surface /\ t.columns = columns /\ t.populations = ps
  BY DEF StatePlan
<1>6. p \in ps /\ p \in PopulationsOf(e, k)
  BY <1>4
<1> HIDE DEF p
<1>7. surface = el[k][p]
  BY DEF TableSurface, p
<1> HIDE DEF k
<1>8. \A q \in ps : surface = SurfaceFor(c.keys, k, q)
  <2>1. IdentityElected(e, el, k, ps)
    BY DEF PlanResolves, TableResolves, StateResolves, k
  <2>2. ASSUME NEW q \in ps PROVE surface = SurfaceFor(c.keys, k, q)
    <3>1. el[k][q] = el[k][p] /\ q \in PopulationsOf(e, k)
      BY <1>4, <1>6, <2>1 DEF IdentityElected
    <3> QED
      BY <1>3, <1>7, <3>1 DEF Election
  <2> QED
    BY <2>2
<1>9. surface \in Surfaces
  BY <1>6, <1>8, SurfaceFacts
<1> HIDE DEF surface
<1>10. surface \in SourcesOf(columns)
  <2>1. <<surface, "id">> \in StateCandidates(e, k, surface)
    BY DEF StateCandidates
  <2> DEFINE x == <<surface, "id">>
             y == <<x[1], IF x[1] \in DOMAIN d.rename THEN d.rename[x[1]] ELSE x[2]>>
  <2>2. x[1] = surface /\ y[1] = surface
    OBVIOUS
  <2>3. y \in columns
    BY <2>1, <2>2 DEF StateColumns
  <2> HIDE DEF columns, y
  <2> QED
    BY <2>2, <2>3 DEF SourcesOf
<1> HIDE DEF columns, ps
<1> QED
  BY <1>3, <1>4, <1>5, <1>6, <1>8, <1>9, <1>10 DEF d, k, Elects

\* A state table of the plan is the plan of one that the configuration has.
LEMMA PlannedTable ==
    ASSUME NEW e, NEW c \in Configs, PlanResolves(e, c), NEW t \in StateTables(SourcePlanOf(e, c))
    PROVE  /\ Elects(e, c, t)
           /\ \E i \in DOMAIN c.tables :
                 /\ c.tables[i].property = NULL
                 /\ t = StatePlan(e, Election(e, c.keys), c.tables[i], c.declareKeys)
<1> DEFINE el == Election(e, c.keys)
           plan == SourcePlanOf(e, c)
<1>1. plan.tables = TablePlans(e, el, c)
  BY DEF SourcePlanOf
<1>2. PICK i \in DOMAIN plan.tables : t = plan.tables[i] /\ t.property = NULL
  BY DEF StateTables, Range
<1>3. i \in DOMAIN c.tables /\ t = TablePlan(e, el, c.tables[i], c.declareKeys)
  BY <1>1, <1>2 DEF TablePlans
<1>4. c.tables[i].property = NULL /\ t = StatePlan(e, el, c.tables[i], c.declareKeys)
  BY <1>2, <1>3 DEF TablePlan, JunctionPlan
<1> HIDE DEF plan
<1>5. Elects(e, c, t)
  BY <1>3, <1>4, StatePlanFacts
<1> QED
  BY <1>3, <1>4, <1>5

\* What an accepted plan elects for a table names its records, each by a name of its own.
LEMMA TableKey ==
    ASSUME NEW at \in Nat, IsTape(emit, at), KeysOf(emit), NEW c \in Configs, Accepted(emit, c),
           NEW t \in StateTables(SourcePlanOf(emit, c)),
           NEW x \in StateTable(emit, t), NEW y \in StateTable(emit, t)
    PROVE  x.cells[t.surface] # NULL /\ (x # y => x.cells[t.surface] # y.cells[t.surface])
<1>1. PlanResolves(emit, c)
  BY DEF Accepted
<1>2. PICK i \in DOMAIN SourcePlanOf(emit, c).tables :
         t = SourcePlanOf(emit, c).tables[i] /\ t.property = NULL
  BY DEF StateTables, Range
<1>5. Elects(emit, c, t)
  BY <1>1, PlannedTable
<1>5a. /\ t.kind \in KnownKinds(emit)
       /\ t.surface \in Surfaces /\ t.surface \in SourcesOf(t.columns)
       /\ t.populations # {} /\ t.populations \subseteq PopulationsOf(emit, t.kind)
       /\ SubTypes(emit, t.kind) = {} => t.populations = {NULL}
       /\ SubTypes(emit, t.kind) # {} => t.populations \subseteq SubTypes(emit, t.kind)
       /\ \A p \in t.populations : t.surface = SurfaceFor(c.keys, t.kind, p)
  BY <1>5 DEF Elects
<1>6. t.kind \in Kinds
  BY <1>5a, TapeShape, KnownFacts
<1>7. SubTypes(emit, t.kind) = {} /\ t.surface = Presented => HasPresentationId(emit, t.kind)
  <2> SUFFICES ASSUME SubTypes(emit, t.kind) = {}, t.surface = Presented
               PROVE  HasPresentationId(emit, t.kind)
    OBVIOUS
  <2>1. PICK p \in t.populations : SurfaceFor(c.keys, t.kind, p) = Presented
    BY <1>5a
  <2>2. HasClaim(emit, t.kind, p)
    BY <1>5a, <2>1 DEF Accepted, PlanResolves, ElectionResolves
  <2>3. Blank.claims # NULL /\ t.kind \in DOMAIN Blank.claims
    BY <2>2 DEF HasClaim, KeysOf
  <2>4. HasPresentationId(Blank, t.kind)
    BY <2>3, SourceAssumption
  <2> QED
    BY <1>6, <2>4 DEF KeysOf, HasPresentationId
<1>8. t.surface # RecordId => GuardSubset(emit, t.kind, t.populations \ {NULL}, t.surface)
  BY <1>2 DEF Accepted, GuardsHold
<1>9. PICK r \in SelectedRecords(emit, t.kind, t.populations, t.where) :
         x = [record |-> r[RecordId],
              cells |-> [d \in SourcesOf(t.columns) |-> StateCell(emit, t, r, d)]]
  BY DEF StateTable
<1>10. PICK q \in SelectedRecords(emit, t.kind, t.populations, t.where) :
         y = [record |-> q[RecordId],
              cells |-> [d \in SourcesOf(t.columns) |-> StateCell(emit, t, q, d)]]
  BY DEF StateTable
<1>11. r \in TableRows(emit, RecordsOf(t.kind)) /\ q \in TableRows(emit, RecordsOf(t.kind))
  BY DEF SelectedRecords, TrunkRows
<1>12. x.cells[t.surface] = r[t.surface] /\ y.cells[t.surface] = q[t.surface]
  <2>1. /\ x.cells[t.surface] = SelfIdentity(emit, t.kind, t.surface, r[RecordId])
        /\ y.cells[t.surface] = SelfIdentity(emit, t.kind, t.surface, q[RecordId])
    BY <1>5a, <1>9, <1>10 DEF StateCell
  <2> QED
    BY <1>5a, <1>6, <1>11, <2>1, IdentityCell
<1>13. x # y => r # q
  BY <1>9, <1>10
<1>14. r[t.surface] # NULL /\ (r # q => r[t.surface] # q[t.surface])
  <2>1. SubTypes(emit, t.kind) = {} =>
           t.populations = {NULL} /\ (t.surface = Presented => HasPresentationId(emit, t.kind))
    BY <1>5a, <1>7
  <2>2. /\ t.surface \in Surfaces /\ t.populations # {}
        /\ SubTypes(emit, t.kind) # {} => t.populations \subseteq SubTypes(emit, t.kind)
    BY <1>5a
  <2> DEFINE k  == t.kind
             ps == t.populations
             where == t.where
             surface == t.surface
  <2>3. /\ k \in Kinds /\ surface \in Surfaces /\ ps # {}
        /\ SubTypes(emit, k) = {} => ps = {NULL} /\ (surface = Presented => HasPresentationId(emit, k))
        /\ SubTypes(emit, k) # {} => ps \subseteq SubTypes(emit, k)
        /\ surface # RecordId => GuardSubset(emit, k, ps \ {NULL}, surface)
        /\ r \in SelectedRecords(emit, k, ps, where) /\ q \in SelectedRecords(emit, k, ps, where)
    BY <1>6, <1>8, <2>1, <2>2
  <2> HIDE DEF k, ps, where, surface
  <2>4. r[surface] # NULL /\ (r # q => r[surface] # q[surface])
    BY <2>3, ElectedKey
  <2> QED
    BY <2>4 DEF surface
<1> QED
  BY <1>12, <1>13, <1>14

\* What an accepted configuration elects to name the records of a table is a key of the
\* table it exports, for every configuration, every tape, and whatever a corruption does to
\* the surrogates of sub-typed kinds: the guards of exporters/source/plan.py see it. (That
\* they look away from a flat kind is what SourceGuard.cfg shows.)
THEOREM IdentityKept ==
    ASSUME \A k \in Corruptible : SubTypes(Blank, k) # {}
    PROVE  SourceSpec => []IdentityIsKey
<1> DEFINE Inv == Conforming /\ KeysOf(emit)
<1>1. SourceInit => Inv
  <2>1. KeysOf(Blank)
    BY SourceAssumption DEF KeysOf
  <2> QED
    BY <2>1, TapeAssumption DEF SourceInit, Init, Conforming
<1>2. Inv /\ [SourceNext]_<<vars, garbled>> => KeysOf(emit')
  <2> SUFFICES ASSUME Inv, [SourceNext]_<<vars, garbled>> PROVE KeysOf(emit')
    OBVIOUS
  <2>1. IsTape(emit, now)
    BY DEF Conforming
  <2>2. CASE Produce
    BY <2>1, <2>2, NextKeys DEF Produce
  <2>3. CASE Garble
    BY <2>1, <2>3, GarbleKeys
  <2>4. CASE UNCHANGED <<vars, garbled>>
    BY <2>4 DEF vars
  <2> QED
    BY <2>2, <2>3, <2>4 DEF SourceNext
<1>3. Inv => IdentityIsKey
  <2> SUFFICES ASSUME Inv, NEW c \in Exported, NEW t \in StateTables(SourcePlanOf(emit, c)),
                      NEW x \in StateTable(emit, t), NEW y \in StateTable(emit, t)
               PROVE  /\ x.cells[t.surface] # NULL
                      /\ x # y => x.cells[t.surface] # y.cells[t.surface]
    BY DEF IdentityIsKey, Plans
  <2>1. now \in Nat /\ IsTape(emit, now) /\ c \in Configs /\ Accepted(emit, c)
    BY TapeAssumption DEF Conforming, Exported
  <2> QED
    BY <2>1, TableKey
<1>4. SourceSpec => []Conforming
  BY CorruptionConforms, PTL
<1>5. SourceSpec => []KeysOf(emit)
  <2>1. Conforming /\ KeysOf(emit) /\ [SourceNext]_<<vars, garbled>> => KeysOf(emit)'
    BY <1>2
  <2>2. SourceInit => KeysOf(emit)
    BY <1>1
  <2> QED
    BY <1>4, <2>1, <2>2, PTL DEF SourceSpec
<1> QED
  BY <1>3, <1>4, <1>5, PTL

---------------------------------------------------------------------------
(* The references of the source exporter.                                  *)

NumericSurrogate(k) ==
    /\ HasPresentationId(Blank, k)
    /\ ColumnFor(Blank, RecordsOf(k), Presented).type \in {"BIGINT", "DOUBLE"}

\* What IdentitiesTyped asks of a row.
TypedRow(k, r) ==
    /\ SubTypes(Blank, k) # {} => r[PropOf(TypeProp(k))] \in SubTypes(Blank, k)
    /\ NumericSurrogate(k) => r[Presented] \in Int \cup {NULL}

\* What no step changes, and the cells that name a record or its population.
TypesOf(e) ==
    /\ "claims" \in DOMAIN e /\ e.claims = Blank.claims
    /\ \A k : SubTypes(e, k) = SubTypes(Blank, k)
    /\ \A k \in Kinds :
          /\ ColumnNames(e, RecordsOf(k)) = ColumnNames(Blank, RecordsOf(k))
          /\ SpecFor(e, RecordsOf(k)).cols = SpecFor(Blank, RecordsOf(k)).cols
          /\ \A r \in TableRows(e, RecordsOf(k)) : TypedRow(k, r)

LEMMA BlankTypes == TypesOf(Blank)
<1>1. ASSUME NEW k \in Kinds, NEW r \in TableRows(Blank, RecordsOf(k)) PROVE TypedRow(k, r)
  <2>1. IdentitiesTyped(Blank, k)
    BY SourceAssumption
  <2>2. SubTypes(Blank, k) # {} => r[PropOf(TypeProp(k))] \in SubTypes(Blank, k)
    BY <2>1 DEF IdentitiesTyped, PopulationOf, PopulationsOf
  <2>3. NumericSurrogate(k) => r[Presented] \in Int \cup {NULL}
    BY <2>1 DEF IdentitiesTyped, NumericSurrogate
  <2> QED
    BY <2>2, <2>3 DEF TypedRow
<1> QED
  BY <1>1, SourceAssumption DEF TypesOf

LEMMA AfterTypes ==
    ASSUME NEW e, TablesNamed(e), \A s \in e.specs : ColumnsNamed(e, s), TypesOf(e),
           NEW n \in Tables(e), NEW rows, NEW more,
           \A k \in Kinds : n = RecordsOf(k) => \A i \in DOMAIN rows : TypedRow(k, rows[i])
    PROVE  TypesOf(After(e, n, rows, more))
<1> DEFINE f == After(e, n, rows, more)
<1>1. "claims" \in DOMAIN f /\ f.claims = e.claims
  BY DEF TypesOf, After
<1>2. /\ \A k : SubTypes(f, k) = SubTypes(e, k)
      /\ \A m \in Tables(e) :
            /\ ColumnNames(f, m) = ColumnNames(e, m) /\ SpecFor(f, m).cols = SpecFor(e, m).cols
            /\ f.cat[m].rows = IF m = n THEN rows
                               ELSE IF m = History THEN e.cat[m].rows \o more ELSE e.cat[m].rows
  BY AfterFacts
<1> HIDE DEF f
<1>3. ASSUME NEW k \in Kinds
      PROVE  /\ ColumnNames(f, RecordsOf(k)) = ColumnNames(Blank, RecordsOf(k))
             /\ SpecFor(f, RecordsOf(k)).cols = SpecFor(Blank, RecordsOf(k)).cols
             /\ \A r \in TableRows(f, RecordsOf(k)) : TypedRow(k, r)
  <2>1. RecordsOf(k) \in Tables(e) /\ RecordsOf(k) # History
    BY KindFacts
  <2>2. /\ ColumnNames(f, RecordsOf(k)) = ColumnNames(e, RecordsOf(k))
        /\ SpecFor(f, RecordsOf(k)).cols = SpecFor(e, RecordsOf(k)).cols
        /\ f.cat[RecordsOf(k)].rows = IF RecordsOf(k) = n THEN rows ELSE e.cat[RecordsOf(k)].rows
    BY <1>2, <2>1
  <2>3. /\ ColumnNames(e, RecordsOf(k)) = ColumnNames(Blank, RecordsOf(k))
        /\ SpecFor(e, RecordsOf(k)).cols = SpecFor(Blank, RecordsOf(k)).cols
        /\ \A r \in TableRows(e, RecordsOf(k)) : TypedRow(k, r)
    BY DEF TypesOf
  <2>4. \A r \in TableRows(f, RecordsOf(k)) : TypedRow(k, r)
    <3>1. CASE RecordsOf(k) = n
      BY <2>2, <3>1 DEF TableRows, Range
    <3>2. CASE RecordsOf(k) # n
      BY <2>2, <2>3, <3>2 DEF TableRows
    <3> QED
      BY <3>1, <3>2
  <2> QED
    BY <2>2, <2>3, <2>4
<1>4. \A k : SubTypes(f, k) = SubTypes(Blank, k)
  BY <1>2 DEF TypesOf
<1>5. "claims" \in DOMAIN f /\ f.claims = Blank.claims
  BY <1>1 DEF TypesOf
<1> QED
  BY <1>3, <1>4, <1>5 DEF TypesOf, f

\* A sub-typed kind has a column for the sub-type, which refers to nothing.
LEMMA TypeColumn ==
    ASSUME NEW e, NEW at, IsTape(e, at), TypesOf(e), NEW k \in Kinds, SubTypes(Blank, k) # {}
    PROVE  /\ PropOf(TypeProp(k)) \in ColumnNames(e, RecordsOf(k))
           /\ \A c \in PropColumns(SpecFor(e, RecordsOf(k))) : c.name[2] = TypeProp(k) =>
                 c.refs = NULL
           /\ \E c \in PropColumns(SpecFor(e, RecordsOf(k))) : c.name = PropOf(TypeProp(k))
           /\ SeedsOf(k, TypeProp(k)) \cup ValuesOf(k, TypeProp(k)) \subseteq SubTypes(Blank, k)
<1> DEFINE s == SpecFor(e, RecordsOf(k))
<1>1. TypesListed(k)
  BY SourceAssumption
<1>2. s.cols = SpecFor(Blank, RecordsOf(k)).cols
  BY DEF TypesOf
<1>3. PICK c \in PropColumns(s) :
         /\ c.name = PropOf(TypeProp(k)) /\ c.refs = NULL
         /\ SeedsOf(k, TypeProp(k)) \cup ValuesOf(k, TypeProp(k)) \subseteq SubTypes(Blank, k)
  BY <1>1, <1>2 DEF TypesListed, PropColumns
<1>4. TablesNamed(e) /\ s \in e.specs /\ s.name = RecordsOf(k) /\ ColumnsNamed(e, s)
  BY TapeShape, KindFacts, SpecFacts
<1>5. ColumnNames(e, RecordsOf(k)) = {d.name : d \in Range(s.cols)}
  BY <1>4, ColumnFacts
<1>6. \A d \in PropColumns(s) : d.name = PropOf(d.name[2])
  BY <1>4 DEF ColumnsNamed
<1>7. \A a, b \in Range(s.cols) : a.name = b.name => a = b
  BY <1>4 DEF ColumnsNamed, Range
<1> HIDE DEF s
<1>8. \A d \in PropColumns(s) : d.name[2] = TypeProp(k) => d = c
  BY <1>3, <1>6, <1>7 DEF PropColumns
<1> QED
  BY <1>3, <1>5, <1>8 DEF PropColumns, s

\* An update with cells of these types leaves the others as they are.
LEMMA UpdatedTypes ==
    ASSUME NEW at, IsTape(emit, at), TypesOf(emit), NEW k \in Kinds, NEW id, NEW cells, NEW more,
           Presented \notin DOMAIN cells,
           SubTypes(Blank, k) # {} /\ PropOf(TypeProp(k)) \in DOMAIN cells =>
              cells[PropOf(TypeProp(k))] \in SubTypes(Blank, k)
    PROVE  TypesOf(After(emit, RecordsOf(k), Updated(k, id, cells), more))
<1> DEFINE n == RecordsOf(k)
           rows == Rows(n)
           all == Updated(k, id, cells)
           p == PropOf(TypeProp(k))
<1>1. /\ TablesNamed(emit) /\ (\A s \in emit.specs : ColumnsNamed(emit, s)) /\ RowsShaped(emit, n)
      /\ n \in Tables(emit) /\ \A j : n = RecordsOf(j) => j = k
  BY TapeShape, KindFacts
<1>2. p # Mutated /\ p # Presented /\ Presented # Mutated
  BY NameFacts DEF PropOf
<1>3. ASSUME NEW i \in DOMAIN rows
      PROVE  /\ SubTypes(Blank, k) # {} => p \in DOMAIN rows[i]
             /\ NumericSurrogate(k) => Presented \in DOMAIN rows[i]
             /\ TypedRow(k, rows[i])
  <2>1. rows[i] \in TableRows(emit, n)
    BY DEF TableRows, Range, Rows
  <2>2. rows[i] = [c \in ColumnNames(emit, n) |-> rows[i][c]]
    BY <1>1, <2>1 DEF RowsShaped, TableRows
  <2>3. DOMAIN rows[i] = ColumnNames(emit, n)
    BY <2>2
  <2>4. SubTypes(Blank, k) # {} => p \in ColumnNames(emit, n)
    BY TypeColumn
  <2>5. NumericSurrogate(k) => Presented \in ColumnNames(emit, n)
    BY DEF NumericSurrogate, HasPresentationId, TypesOf
  <2> QED
    BY <2>1, <2>3, <2>4, <2>5 DEF TypesOf
<1>4. DOMAIN all = DOMAIN rows
  BY DEF Updated
<1>5. ASSUME NEW i \in DOMAIN rows
      PROVE  \A x \in DOMAIN rows[i] : x # Mutated =>
                all[i][x] \in IF x \in DOMAIN cells THEN {cells[x], rows[i][x]} ELSE {rows[i][x]}
  BY DEF Updated
<1> HIDE DEF all, rows, p
<1>6. ASSUME NEW i \in DOMAIN all PROVE TypedRow(k, all[i])
  <2>1. i \in DOMAIN rows
    BY <1>4
  <2>2. SubTypes(Blank, k) # {} => all[i][p] \in SubTypes(Blank, k)
    <3>1. SubTypes(Blank, k) # {} => rows[i][p] \in SubTypes(Blank, k)
      BY <1>3, <2>1 DEF TypedRow, p
    <3>2. SubTypes(Blank, k) # {} /\ p \in DOMAIN cells => cells[p] \in SubTypes(Blank, k)
      BY DEF p
    <3> QED
      BY <1>2, <1>3, <1>5, <2>1, <3>1, <3>2
  <2>3. NumericSurrogate(k) => all[i][Presented] \in Int \cup {NULL}
    <3>1. NumericSurrogate(k) => rows[i][Presented] \in Int \cup {NULL}
      BY <1>3, <2>1 DEF TypedRow
    <3> QED
      BY <1>2, <1>3, <1>5, <2>1, <3>1
  <2> QED
    BY <2>2, <2>3 DEF TypedRow, p
<1>7. \A j \in Kinds : n = RecordsOf(j) => \A i \in DOMAIN all : TypedRow(j, all[i])
  BY <1>1, <1>6
<1>8. TypesOf(After(emit, n, all, more))
  BY <1>1, <1>7, AfterTypes
<1> QED
  BY <1>8 DEF all

LEMMA BornTypes ==
    ASSUME NEW at, IsTape(emit, at), TypesOf(emit), NEW k \in Kinds, Born(k)
    PROVE  TypesOf(emit')
<1> DEFINE n == RecordsOf(k)
           rows == Rows(n)
           p == PropOf(TypeProp(k))
<1>1. /\ TablesNamed(emit) /\ (\A s \in emit.specs : ColumnsNamed(emit, s)) /\ RowsShaped(emit, n)
      /\ n \in Tables(emit) /\ \A j : n = RecordsOf(j) => j = k
  BY TapeShape, KindFacts
<1>2. PICK id, values :
         /\ \A c \in ColumnsOf(k) : values[c.name] \in Seeds(k, c)
         /\ Minted(k, NewRecord(k, id, values))
         /\ emit' = After(emit, n, Append(rows, NewRecord(k, id, values)), Seeded(k, id, values))
  BY WrittenAfter DEF Born
<1> DEFINE new == NewRecord(k, id, values)
           all == Append(rows, new)
<1>3. SubTypes(Blank, k) # {} => new[p] \in SubTypes(Blank, k)
  <2> SUFFICES ASSUME SubTypes(Blank, k) # {} PROVE new[p] \in SubTypes(Blank, k)
    OBVIOUS
  <2>1. /\ p \in ColumnNames(emit, n)
        /\ \A c \in ColumnsOf(k) : c.name[2] = TypeProp(k) => c.refs = NULL
        /\ \E c \in ColumnsOf(k) : c.name = p
        /\ SeedsOf(k, TypeProp(k)) \subseteq SubTypes(Blank, k)
    BY TypeColumn DEF ColumnsOf
  <2>2. PICK c \in ColumnsOf(k) : c.name = p
    BY <2>1
  <2>3. p[1] = "prop" /\ p[2] = TypeProp(k)
    BY DEF PropOf
  <2>4. values[p] \in SeedsOf(k, TypeProp(k))
    BY <1>2, <2>1, <2>2, <2>3 DEF Seeds
  <2>5. new[p] = NewCell(k, id, values, p)
    BY <2>1 DEF NewRecord
  <2> HIDE DEF p
  <2>6. NewCell(k, id, values, p) = values[p]
    BY <2>3, NameFacts DEF NewCell
  <2> QED
    BY <2>1, <2>4, <2>5, <2>6
<1>4. NumericSurrogate(k) => new[Presented] \in Int \cup {NULL}
  <2> SUFFICES ASSUME NumericSurrogate(k) PROVE new[Presented] \in Int \cup {NULL}
    OBVIOUS
  <2>1. /\ HasPresentationId(emit, k)
        /\ ColumnFor(emit, n, Presented).type \in {"BIGINT", "DOUBLE"}
    BY DEF NumericSurrogate, HasPresentationId, TypesOf, ColumnFor
  <2> QED
    BY <1>2, <2>1 DEF Minted
<1>5. TypedRow(k, new)
  BY <1>3, <1>4 DEF TypedRow
<1>6. \A i \in DOMAIN rows : TypedRow(k, rows[i])
  BY DEF TypesOf, TableRows, Range, Rows
<1>7. rows \in Seq(Range(rows))
  BY <1>1 DEF RowsShaped, Rows
<1> HIDE DEF rows, new
<1>8. \A i \in DOMAIN all : IF i = Len(rows) + 1 THEN all[i] = new
                            ELSE i \in DOMAIN rows /\ all[i] = rows[i]
  BY <1>7, AppendFacts
<1> HIDE DEF all
<1>9. \A j \in Kinds : n = RecordsOf(j) => \A i \in DOMAIN all : TypedRow(j, all[i])
  BY <1>1, <1>5, <1>6, <1>8
<1>10. TypesOf(After(emit, n, all, Seeded(k, id, values)))
  BY <1>1, <1>9, AfterTypes
<1> QED
  BY <1>2, <1>10 DEF all, new

LEMMA NextTypes ==
    ASSUME NEW at, IsTape(emit, at), TypesOf(emit), Next
    PROVE  TypesOf(emit')
<1>1. ASSUME NEW k \in Kinds, Born(k) PROVE TypesOf(emit')
  BY <1>1, BornTypes
<1>2. ASSUME NEW k \in Kinds, Write(k) PROVE TypesOf(emit')
  <2>1. PICK id \in Alive(k), c \in ColumnsOf(k) : \E v \in Domain(k, c) :
           Written(RecordsOf(k), Updated(k, id, Cells(c, v)),
                   IF c.tracked = TRUE THEN <<HistoryRow(k, id, c, v)>> ELSE <<>>)
    BY <1>2 DEF Write
  <2>2. PICK v \in Domain(k, c) :
           Written(RecordsOf(k), Updated(k, id, Cells(c, v)),
                   IF c.tracked = TRUE THEN <<HistoryRow(k, id, c, v)>> ELSE <<>>)
    BY <2>1
  <2>3. c.name = PropOf(c.name[2])
    <3>1. SpecFor(emit, RecordsOf(k)) \in emit.specs
      BY TapeShape, KindFacts, SpecFacts
    <3> QED
      BY <3>1, TapeShape DEF ColumnsOf, ColumnsNamed
  <2>4. DOMAIN Cells(c, v) \subseteq {PropOf(c.name[2]), RefIndex(c.name[2])}
    BY <2>3 DEF Cells
  <2>5. Presented \notin DOMAIN Cells(c, v)
    BY <2>4 DEF PropOf, RefIndex, Presented
  <2> DEFINE p == PropOf(TypeProp(k))
  <2>6. ASSUME SubTypes(Blank, k) # {}, p \in DOMAIN Cells(c, v)
        PROVE  Cells(c, v)[p] \in SubTypes(Blank, k)
    <3>1. c.name[2] = TypeProp(k)
      BY <2>4, <2>6 DEF PropOf, RefIndex
    <3>2. c.refs = NULL /\ ValuesOf(k, TypeProp(k)) \subseteq SubTypes(Blank, k)
      BY <2>6, <3>1, TypeColumn DEF ColumnsOf
    <3>3. v \in ValuesOf(k, TypeProp(k))
      BY <3>1, <3>2 DEF Domain
    <3>4. c.name = p
      BY <2>3, <3>1
    <3>5. Cells(c, v)[p] = v
      BY <3>2, <3>4 DEF Cells
    <3> QED
      BY <3>2, <3>3, <3>5
  <2> QED
    BY <2>2, <2>5, <2>6, WrittenAfter, UpdatedTypes
<1>3. ASSUME NEW k \in Kinds, Deactivate(k) PROVE TypesOf(emit')
  <2>1. PICK id : Written(RecordsOf(k), Updated(k, id, Gone), <<>>)
    BY <1>3 DEF Deactivate
  <2>2. Presented \notin DOMAIN Gone /\ PropOf(TypeProp(k)) \notin DOMAIN Gone
    BY NameFacts DEF Gone, PropOf
  <2> QED
    BY <2>1, <2>2, WrittenAfter, UpdatedTypes
<1>4. CASE Enter \/ Exit
  <2>1. PICK rows : Written(MemberTable, rows, <<>>)
    BY <1>4 DEF Enter, Exit
  <2>2. /\ TablesNamed(emit) /\ (\A s \in emit.specs : ColumnsNamed(emit, s))
        /\ MemberTable \in Tables(emit) /\ \A k \in Kinds : MemberTable # RecordsOf(k)
    BY TapeShape, CategoryFacts
  <2> QED
    BY <2>1, <2>2, WrittenAfter, AfterTypes
<1>5. CASE Tick
  BY <1>5 DEF Tick
<1> QED
  BY <1>1, <1>2, <1>3, <1>4, <1>5 DEF Next

\* A surrogate copied to another record is of its type as well.
LEMMA GarbleTypes ==
    ASSUME NEW at, IsTape(emit, at), TypesOf(emit), Garble
    PROVE  TypesOf(emit')
<1>1. PICK k \in Corruptible : \E r, q \in Records(k) :
         Written(RecordsOf(k),
            [i \in DOMAIN Rows(RecordsOf(k)) |->
                IF Rows(RecordsOf(k))[i] = r
                THEN [r EXCEPT ![Presented] = q[Presented]] ELSE Rows(RecordsOf(k))[i]], <<>>)
  BY DEF Garble
<1>2. PICK r \in Records(k), q \in Records(k) :
         Written(RecordsOf(k),
            [i \in DOMAIN Rows(RecordsOf(k)) |->
                IF Rows(RecordsOf(k))[i] = r
                THEN [r EXCEPT ![Presented] = q[Presented]] ELSE Rows(RecordsOf(k))[i]], <<>>)
  BY <1>1
<1>3. k \in Kinds
  BY SourceAssumption
<1> DEFINE n == RecordsOf(k)
           rows == Rows(n)
           new == [r EXCEPT ![Presented] = q[Presented]]
           all == [i \in DOMAIN rows |-> IF rows[i] = r THEN new ELSE rows[i]]
<1>4. /\ TablesNamed(emit) /\ (\A s \in emit.specs : ColumnsNamed(emit, s))
      /\ n \in Tables(emit) /\ \A j : n = RecordsOf(j) => j = k
  BY <1>3, TapeShape, KindFacts
<1>5. TypedRow(k, r) /\ TypedRow(k, q) /\ \A i \in DOMAIN rows : TypedRow(k, rows[i])
  BY <1>3 DEF TypesOf, TableRows, Range, Rows, Records
<1>6. TypedRow(k, new)
  <2> DEFINE p == PropOf(TypeProp(k))
  <2>1. p # Presented
    BY NameFacts DEF PropOf
  <2>2. RowsShaped(emit, n) /\ r \in TableRows(emit, n)
    BY <1>4, TapeShape DEF TableRows, Records
  <2>3. r = [c \in ColumnNames(emit, n) |-> r[c]]
    BY <2>2 DEF RowsShaped, TableRows
  <2>4. DOMAIN r = ColumnNames(emit, n)
    BY <2>3
  <2>5. /\ SubTypes(Blank, k) # {} => p \in DOMAIN r
        /\ NumericSurrogate(k) => Presented \in DOMAIN r
    BY <1>3, <2>4, TypeColumn DEF NumericSurrogate, HasPresentationId, TypesOf
  <2>6. /\ SubTypes(Blank, k) # {} => new[p] = r[p]
        /\ NumericSurrogate(k) => new[Presented] = q[Presented]
    BY <2>1, <2>5
  <2> HIDE DEF new
  <2> QED
    BY <1>5, <2>6 DEF TypedRow
<1> HIDE DEF new, rows
<1>7. \A j \in Kinds : n = RecordsOf(j) => \A i \in DOMAIN all : TypedRow(j, all[i])
  BY <1>4, <1>5, <1>6
<1> HIDE DEF all
<1>8. TypesOf(After(emit, n, all, <<>>))
  BY <1>4, <1>7, AfterTypes
<1> QED
  BY <1>2, <1>8, WrittenAfter DEF all, rows, new

\* The columns of an identity keep their types.
LEMMA SurfaceTypes ==
    ASSUME NEW e, TypesOf(e), NEW k \in Kinds, NEW r \in TableRows(e, RecordsOf(k)),
           NEW surface \in Surfaces, surface = Presented => HasPresentationId(e, k)
    PROVE  LET type == ColumnFor(e, RecordsOf(k), surface).type IN
           /\ surface = RecordId => type = "VARCHAR"
           /\ surface = RecordIndex => type = "BIGINT"
           /\ type \in {"BIGINT", "DOUBLE", "VARCHAR"}
           /\ surface = Presented /\ type \in {"BIGINT", "DOUBLE"} => r[Presented] \in Int \cup {NULL}
           /\ PopulationOf(e, k, r) \in PopulationsOf(e, k)
<1> DEFINE type == ColumnFor(e, RecordsOf(k), surface).type
<1>1. type = ColumnFor(Blank, RecordsOf(k), surface).type
  BY DEF TypesOf, ColumnFor
<1>2. HasPresentationId(e, k) => HasPresentationId(Blank, k)
  BY DEF TypesOf, HasPresentationId
<1>3. IdentitiesTyped(Blank, k)
  BY SourceAssumption
<1>4. TypedRow(k, r) /\ SubTypes(e, k) = SubTypes(Blank, k)
  BY DEF TypesOf
<1>5. /\ surface = RecordId => type = "VARCHAR"
      /\ surface = RecordIndex => type = "BIGINT"
      /\ surface = Presented => type \in {"BIGINT", "DOUBLE", "VARCHAR"}
  BY <1>1, <1>2, <1>3 DEF IdentitiesTyped
<1>6. surface = Presented /\ type \in {"BIGINT", "DOUBLE"} => r[Presented] \in Int \cup {NULL}
  BY <1>1, <1>2, <1>4 DEF TypedRow, NumericSurrogate
<1>7. PopulationOf(e, k, r) \in PopulationsOf(e, k)
  BY <1>4 DEF TypedRow, PopulationOf, PopulationsOf
<1> HIDE DEF type
<1>8. type \in {"BIGINT", "DOUBLE", "VARCHAR"}
  BY <1>5 DEF Surfaces
<1> QED
  BY <1>5, <1>6, <1>7, <1>8 DEF type

\* The text of a value of a type that can be cast back is no other's.
LEMMA CastBack ==
    ASSUME NEW v, v # NULL, NEW type, type \in {"BIGINT", "DOUBLE", "VARCHAR"},
           type \in {"BIGINT", "DOUBLE"} => v \in Int,
           NEW to \in {type, "VARCHAR"}
    PROVE  AsText(TryCast(CastText(v, type), to), to) = AsText(v, type)
<1>1. CASE type = "VARCHAR"
  <2>1. to = "VARCHAR" /\ CastText(v, type) = v
    BY <1>1 DEF CastText, ToText, RoundTrippable
  <2>2. TryCast(v, "VARCHAR") = v
    BY DEF TryCast
  <2> QED
    BY <1>1, <2>1, <2>2 DEF AsText
<1>2. CASE type \in {"BIGINT", "DOUBLE"}
  <2>1. v \in Int
    BY <1>2
  <2> DEFINE text == CastText(v, type)
  <2>2. text = IF type = "BIGINT" THEN 2 * v ELSE 2 * v + 1
    BY <1>2 DEF CastText, ToText, RoundTrippable
  <2>3. text \in Int /\ text \div 2 = v
    BY <2>1, <2>2
  <2> HIDE DEF text
  <2>4. text # NULL
    BY <2>3, NullFacts
  <2>5. AsText(v, type) = text
    BY DEF AsText, text
  <2>6. CASE to = type
    <3>1. TryCast(text, to) = text \div 2
      BY <1>2, <2>4, <2>6 DEF TryCast
    <3> QED
      BY <2>3, <2>5, <2>6, <3>1 DEF text
  <2>7. CASE to = "VARCHAR"
    <3>1. TryCast(text, to) = text
      BY <2>4, <2>7 DEF TryCast
    <3>2. CastText(text, to) = text
      BY <2>7 DEF CastText, ToText, RoundTrippable
    <3> QED
      BY <2>4, <2>5, <3>1, <3>2 DEF AsText
  <2> QED
    BY <2>6, <2>7 DEF text
<1> QED
  BY <1>1, <1>2

LEMMA RenderedText ==
    ASSUME NEW e, NEW at \in Nat, IsTape(e, at), TypesOf(e), NEW k \in Kinds,
           NEW r \in TableRows(e, RecordsOf(k)),
           NEW surface \in Surfaces, surface = Presented => HasPresentationId(e, k),
           NEW to \in {ColumnFor(e, RecordsOf(k), surface).type, "VARCHAR"}
    PROVE  AsText(TryCast(TextOf(e, k, r, surface), to), to)
             = AsText(r[surface], ColumnFor(e, RecordsOf(k), surface).type)
<1> DEFINE type == ColumnFor(e, RecordsOf(k), surface).type
           v == r[surface]
<1>1. /\ surface = RecordId => type = "VARCHAR"
      /\ surface = RecordIndex => type = "BIGINT"
      /\ type \in {"BIGINT", "DOUBLE", "VARCHAR"}
      /\ surface = Presented /\ type \in {"BIGINT", "DOUBLE"} => r[Presented] \in Int \cup {NULL}
  BY SurfaceTypes
<1>2. surface = RecordIndex => v \in Int
  <2> DEFINE rows == e.cat[RecordsOf(k)].rows
  <2>1. PICK i \in DOMAIN rows : rows[i] = r
    BY DEF TableRows, Range
  <2>2. RowsShaped(e, RecordsOf(k))
    BY TapeShape, KindFacts
  <2>3. rows \in Seq(Range(rows))
    BY <2>2 DEF RowsShaped
  <2>4. i \in Int /\ rows[i][RecordIndex] = i - 1
    BY <2>1, <2>3 DEF IsTape, RecordsKept
  <2> QED
    BY <2>1, <2>4
<1>3. CASE v = NULL
  <2>1. TextOf(e, k, r, surface) = NULL
    BY <1>3 DEF TextOf
  <2>2. TryCast(NULL, to) = NULL
    BY DEF TryCast
  <2> QED
    BY <1>3, <2>1, <2>2 DEF AsText
<1>4. CASE v # NULL
  <2>1. TextOf(e, k, r, surface) = CastText(v, type)
    BY <1>4 DEF TextOf
  <2>2. type \in {"BIGINT", "DOUBLE"} => v \in Int
    BY <1>1, <1>2, <1>4 DEF Surfaces
  <2> HIDE DEF type, v
  <2>3. type \in {"BIGINT", "DOUBLE", "VARCHAR"} /\ to \in {type, "VARCHAR"}
    BY <1>1 DEF type
  <2>4. AsText(TryCast(CastText(v, type), to), to) = AsText(v, type)
    BY <1>4, <2>2, <2>3, CastBack
  <2> QED
    BY <2>1, <2>4 DEF type, v
<1> QED
  BY <1>3, <1>4

\* A rendered reference to a record reads like the cell that names the record.
LEMMA EdgeReads ==
    ASSUME NEW e, NEW at \in Nat, IsTape(e, at), TypesOf(e), NEW k \in Kinds,
           NEW r \in TableRows(e, RecordsOf(k)),
           NEW surface \in Surfaces, surface = Presented => HasPresentationId(e, k),
           NEW x, k \in DOMAIN x.targets, PopulationOf(e, k, r) \in DOMAIN x.targets[k],
           x.targets[k][PopulationOf(e, k, r)] = surface,
           x.type \in {ColumnFor(e, RecordsOf(k), surface).type, "VARCHAR"}
    PROVE  EdgeCellText(x, EdgeValue(e, x, k, r[RecordId]))
             = AsText(r[surface], ColumnFor(e, RecordsOf(k), surface).type)
<1> DEFINE p == PopulationOf(e, k, r)
           id == r[RecordId]
           type == ColumnFor(e, RecordsOf(k), surface).type
<1>1. CASE AllRecordId(x)
  <2>1. surface = RecordId
    BY <1>1 DEF AllRecordId, Range
  <2>2. type = "VARCHAR"
    BY <2>1, SurfaceTypes
  <2>3. EdgeCellText(x, EdgeValue(e, x, k, id)) = id
    BY <1>1 DEF EdgeCellText, EdgeValue
  <2>4. AsText(id, "VARCHAR") = id
    BY DEF AsText, CastText, ToText, RoundTrippable
  <2> HIDE DEF type
  <2> QED
    BY <2>1, <2>2, <2>3, <2>4 DEF type
<1>2. CASE ~AllRecordId(x)
  <2> DEFINE told == Translation(e, k, x.targets[k])
  <2>1. TrunkRows(e, RecordsOf(k)) = TableRows(e, RecordsOf(k))
    BY TapeShape, KindFacts, TrunkFacts
  <2>2. <<id, TextOf(e, k, r, surface)>> \in told
    BY <2>1 DEF Translation
  <2>3. ASSUME NEW y \in told, y[1] = id PROVE y[2] = TextOf(e, k, r, surface)
    <3>1. PICK q \in TableRows(e, RecordsOf(k)) :
             y = <<q[RecordId], TextOf(e, k, q, x.targets[k][PopulationOf(e, k, q)])>>
      BY <2>1 DEF Translation
    <3>2. q = r
      BY <2>3, <3>1, OneRecord
    <3> QED
      BY <3>1, <3>2
  <2> HIDE DEF told
  <2>4. LeftJoin(told, id) = TextOf(e, k, r, surface)
    <3> DEFINE y == <<id, TextOf(e, k, r, surface)>>
    <3>1. y \in told /\ y[1] = id
      BY <2>2
    <3> HIDE DEF y, id
    <3>2. \E z \in told : z[1] = id
      BY <3>1
    <3> QED
      BY <2>3, <3>2 DEF LeftJoin
  <2>5. EdgeValue(e, x, k, id) = TryCast(TextOf(e, k, r, surface), x.type)
    BY <1>2, <2>4 DEF EdgeValue, EdgeText, told
  <2>6. EdgeCellText(x, EdgeValue(e, x, k, id)) = AsText(TryCast(TextOf(e, k, r, surface), x.type), x.type)
    BY <1>2, <2>5 DEF EdgeCellText
  <2> QED
    BY <2>6, RenderedText
<1> QED
  BY <1>1, <1>2

\* The column of references is of the type its target is named by, or of text.
LEMMA EdgeTypes ==
    ASSUME NEW e, TypesOf(e), NEW k \in Kinds, NEW surfaces, NEW surface \in surfaces
    PROVE  RenderedType(e, k, surfaces) \in {ColumnFor(e, RecordsOf(k), surface).type, "VARCHAR"}
<1>1. RecordIndex # Presented
  BY NameFacts
<1>2. CASE surfaces = {RecordIndex}
  <2>1. surface = RecordIndex
    BY <1>2
  <2>2. ColumnFor(e, RecordsOf(k), RecordIndex).type = "BIGINT"
    BY SourceAssumption DEF IdentitiesTyped, TypesOf, ColumnFor
  <2>3. RenderedType(e, k, surfaces) = "BIGINT"
    BY <1>1, <1>2 DEF RenderedType
  <2> QED
    BY <2>1, <2>2, <2>3
<1>3. CASE surfaces = {Presented}
  <2>1. surface = Presented
    BY <1>3
  <2>2. RenderedType(e, k, surfaces) = ColumnFor(e, RecordsOf(k), Presented).type
    BY <1>1, <1>3 DEF RenderedType
  <2> QED
    BY <2>1, <2>2
<1>4. CASE surfaces # {RecordIndex} /\ surfaces # {Presented}
  BY <1>4 DEF RenderedType
<1> QED
  BY <1>2, <1>3, <1>4

\* A selected record is of the populations selected, and so is what the spine admits.
LEMMA SelectedPopulation ==
    ASSUME NEW e, NEW at, IsTape(e, at), TypesOf(e), NEW k \in Kinds, NEW ps, NEW where,
           ps # {}, SubTypes(e, k) = {} => ps = {NULL}, SubTypes(e, k) # {} => ps \subseteq SubTypes(e, k),
           NEW r \in TableRows(e, RecordsOf(k)), InSpine(Spine(e, k, ps, where), r[RecordId])
    PROVE  PopulationOf(e, k, r) \in ps
<1>1. CASE SubTypes(e, k) = {}
  BY <1>1 DEF PopulationOf
<1>2. CASE SubTypes(e, k) # {}
  <2>1. ps # {NULL}
    BY <1>2, SourceAssumption DEF TypesOf
  <2>2. CASE ps = SubTypes(e, k)
    BY <1>2, <2>2 DEF TypesOf, TypedRow, PopulationOf
  <2>3. CASE ps # SubTypes(e, k)
    <3>1. r[RecordId] \in {q[RecordId] : q \in SelectedRecords(e, k, ps, where)}
      BY <2>1, <2>3 DEF Spine, InSpine, NeedsPopulationFilter
    <3>2. PICK q \in SelectedRecords(e, k, ps, where) : q[RecordId] = r[RecordId]
      BY <3>1
    <3>3. q \in TableRows(e, RecordsOf(k)) /\ PopulationOf(e, k, q) \in ps
      BY <2>1, <2>3 DEF SelectedRecords, TrunkRows, NeedsPopulationFilter
    <3>4. q = r
      BY <3>2, <3>3, OneRecord
    <3> QED
      BY <3>3, <3>4
  <2> QED
    BY <2>2, <2>3
<1> QED
  BY <1>1, <1>2

\* The table of the kind names the record of this row, on this surface.
NamedIn(e, c, k, r, surface) ==
    LET p == PopulationOf(e, k, r) IN
    /\ k \in KnownKinds(e) /\ r \in TableRows(e, RecordsOf(k)) /\ p \in PopulationsOf(e, k)
    /\ surface \in Surfaces /\ surface = SurfaceFor(c.keys, k, p)
    /\ surface = Presented => HasPresentationId(e, k)

\* The identity of a row is the one elected for the population of its record.
LEMMA TableIdentity ==
    ASSUME NEW e, NEW at, IsTape(e, at), TypesOf(e), NEW c \in Configs, PlanResolves(e, c),
           NEW u \in StateTables(SourcePlanOf(e, c)), NEW q \in StateTable(e, u)
    PROVE  \E r \in TableRows(e, RecordsOf(u.kind)) :
              /\ r[RecordId] = q.record /\ NamedIn(e, c, u.kind, r, u.surface)
              /\ IdentityText(e, u, q)
                   = AsText(r[u.surface], ColumnFor(e, RecordsOf(u.kind), u.surface).type)
<1>1. /\ u.kind \in KnownKinds(e)
      /\ u.surface \in Surfaces /\ u.surface \in SourcesOf(u.columns)
      /\ u.populations # {} /\ u.populations \subseteq PopulationsOf(e, u.kind)
      /\ SubTypes(e, u.kind) = {} => u.populations = {NULL}
      /\ SubTypes(e, u.kind) # {} => u.populations \subseteq SubTypes(e, u.kind)
      /\ \A p \in u.populations : u.surface = SurfaceFor(c.keys, u.kind, p)
  BY PlannedTable DEF Elects
<1>2. u.kind \in Kinds
  BY <1>1, TapeShape, KnownFacts
<1>3. PICK r \in SelectedRecords(e, u.kind, u.populations, u.where) :
         q = [record |-> r[RecordId],
              cells |-> [d \in SourcesOf(u.columns) |-> StateCell(e, u, r, d)]]
  BY DEF StateTable
<1>4. r \in TableRows(e, RecordsOf(u.kind)) /\ q.record = r[RecordId]
  BY <1>3 DEF SelectedRecords, TrunkRows
<1>5. q.cells[u.surface] = r[u.surface]
  <2>1. q.cells[u.surface] = SelfIdentity(e, u.kind, u.surface, r[RecordId])
    BY <1>1, <1>3 DEF StateCell
  <2> QED
    BY <1>1, <1>2, <1>4, <2>1, IdentityCell
<1>6. PopulationOf(e, u.kind, r) \in u.populations
  <2>1. InSpine(Spine(e, u.kind, u.populations, u.where), r[RecordId])
    BY <1>3 DEF Spine, InSpine
  <2> DEFINE k == u.kind
             ps == u.populations
             where == u.where
  <2>2. /\ k \in Kinds /\ ps # {} /\ (SubTypes(e, k) = {} => ps = {NULL})
        /\ SubTypes(e, k) # {} => ps \subseteq SubTypes(e, k)
        /\ r \in TableRows(e, RecordsOf(k)) /\ InSpine(Spine(e, k, ps, where), r[RecordId])
    BY <1>1, <1>2, <1>4, <2>1
  <2> HIDE DEF k, ps, where
  <2>3. PopulationOf(e, k, r) \in ps
    BY <2>2, SelectedPopulation
  <2> QED
    BY <2>3 DEF k, ps
<1>7. u.surface = Presented => HasPresentationId(e, u.kind)
  <2> SUFFICES ASSUME u.surface = Presented PROVE HasPresentationId(e, u.kind)
    OBVIOUS
  <2>1. PICK p \in u.populations : SurfaceFor(c.keys, u.kind, p) = Presented
    BY <1>1
  <2>2. HasClaim(e, u.kind, p)
    BY <1>1, <2>1 DEF PlanResolves, ElectionResolves
  <2>3. Blank.claims # NULL /\ u.kind \in DOMAIN Blank.claims
    BY <2>2 DEF HasClaim, TypesOf
  <2>4. HasPresentationId(Blank, u.kind)
    BY <2>3, SourceAssumption
  <2> QED
    BY <1>2, <2>4 DEF TypesOf, HasPresentationId
<1>8. NamedIn(e, c, u.kind, r, u.surface)
  BY <1>1, <1>4, <1>6, <1>7 DEF NamedIn
<1>9. IdentityText(e, u, q) = AsText(r[u.surface], ColumnFor(e, RecordsOf(u.kind), u.surface).type)
  BY <1>5 DEF IdentityText
<1> QED
  BY <1>4, <1>8, <1>9

\* An edge under which a record of these populations reads as in its own table.
Refers(e, c, x, k, ps) ==
    LET surface(p) == Election(e, c.keys)[k][p] IN
    /\ k \in DOMAIN x.targets /\ x.targets[k] = [p \in ps |-> surface(p)]
    /\ \A p \in ps : x.type \in {ColumnFor(e, RecordsOf(k), surface(p)).type, "VARCHAR"}

LEMMA EdgeJoins ==
    ASSUME NEW e, NEW at \in Nat, IsTape(e, at), TypesOf(e), NEW c \in Configs, PlanResolves(e, c),
           NEW u \in StateTables(SourcePlanOf(e, c)), NEW q \in StateTable(e, u),
           NEW x, NEW ps, Refers(e, c, x, u.kind, ps),
           \A r \in TableRows(e, RecordsOf(u.kind)) :
              r[RecordId] = q.record => PopulationOf(e, u.kind, r) \in ps
    PROVE  IdentityText(e, u, q) = EdgeCellText(x, EdgeValue(e, x, u.kind, q.record))
<1> DEFINE k == u.kind
           surface == u.surface
<1>1. PICK r \in TableRows(e, RecordsOf(k)) :
         /\ r[RecordId] = q.record /\ NamedIn(e, c, k, r, surface)
         /\ IdentityText(e, u, q) = AsText(r[surface], ColumnFor(e, RecordsOf(k), surface).type)
  BY TableIdentity
<1> DEFINE p == PopulationOf(e, k, r)
<1>2. /\ k \in KnownKinds(e) /\ p \in PopulationsOf(e, k)
      /\ surface \in Surfaces /\ surface = SurfaceFor(c.keys, k, p)
      /\ surface = Presented => HasPresentationId(e, k)
  BY <1>1 DEF NamedIn
<1>3. k \in Kinds
  BY <1>2, TapeShape, KnownFacts
<1>4. p \in ps
  BY <1>1
<1>5. Election(e, c.keys)[k][p] = surface
  BY <1>2 DEF Election
<1> HIDE DEF p, k, surface
<1>6. /\ k \in DOMAIN x.targets /\ p \in DOMAIN x.targets[k] /\ x.targets[k][p] = surface
      /\ x.type \in {ColumnFor(e, RecordsOf(k), surface).type, "VARCHAR"}
  BY <1>4, <1>5 DEF Refers, k
<1>7. EdgeCellText(x, EdgeValue(e, x, k, r[RecordId]))
        = AsText(r[surface], ColumnFor(e, RecordsOf(k), surface).type)
  BY <1>1, <1>2, <1>3, <1>6, EdgeReads DEF p
<1> QED
  BY <1>1, <1>7 DEF k

\* A state table renders a reference as the target's own table names it.
LEMMA StateJoins ==
    ASSUME NEW e, NEW at \in Nat, IsTape(e, at), TypesOf(e), NEW c \in Configs, PlanResolves(e, c),
           NEW t \in StateTables(SourcePlanOf(e, c)), NEW row \in StateTable(e, t), NEW x \in t.edges,
           NEW r \in TableRows(e, RecordsOf(t.kind)), r[RecordId] = row.record,
           NEW u \in StateTables(SourcePlanOf(e, c)), u.kind = OnlyTarget(x),
           NEW q \in StateTable(e, u), q.record = r[x.column]
    PROVE  IdentityText(e, u, q) = CellText(e, t, row, x.column)
<1> DEFINE el == Election(e, c.keys)
           sources == SourcesOf(t.columns)
<1>1. Elects(e, c, t) /\ Elects(e, c, u)
  BY PlannedTable
<1>2. t.edges = ReferenceEdges(e, el, t.kind, sources)
  <2>1. PICK i \in DOMAIN c.tables :
           t = StatePlan(e, Election(e, c.keys), c.tables[i], c.declareKeys)
    BY PlannedTable
  <2> QED
    BY <2>1 DEF StatePlan
<1>3. t.kind \in Kinds /\ u.kind \in Kinds
  BY <1>1, TapeShape, KnownFacts DEF Elects
<1>4. PICK d \in Referring(e, t.kind, sources) :
         x = KindEdge(e, el, d.refs, PopulationsOf(e, d.refs), d.name)
  BY <1>2 DEF ReferenceEdges
<1>5. \A a, b \in ReferencesOf(e, t.kind) : a.name = b.name => a = b
  <2> DEFINE s == SpecFor(e, RecordsOf(t.kind))
  <2>1. s \in e.specs /\ \A v \in SpecsOf(e, "records") : v.kind = t.kind => v = s
    <3>1. RecordsOf(t.kind) \in Tables(e) /\ TablesNamed(e)
      BY <1>3, TapeShape, KindFacts
    <3>2. s \in e.specs
      BY <3>1, SpecFacts
    <3>3. ASSUME NEW v \in SpecsOf(e, "records"), v.kind = t.kind PROVE v = s
      <4>1. v \in e.specs /\ v.name = RecordsOf(t.kind)
        BY <3>1, <3>3 DEF SpecsOf, TablesNamed
      <4> QED
        BY <3>1, <4>1, SpecFacts
    <3> QED
      BY <3>2, <3>3
  <2>2. \A a, b \in Range(s.cols) : a.name = b.name => a = b
    <3>1. ColumnsNamed(e, s)
      BY <2>1, TapeShape
    <3> DEFINE cols == s.cols
    <3>2. \A i, j \in DOMAIN cols : cols[i].name = cols[j].name => i = j
      BY <3>1 DEF ColumnsNamed
    <3> HIDE DEF s, cols
    <3>3. \A i, j \in DOMAIN cols : cols[i].name = cols[j].name => cols[i] = cols[j]
      BY <3>2
    <3>4. \A a, b \in Range(cols) : a.name = b.name => a = b
      BY <3>3 DEF Range
    <3> QED
      BY <3>4 DEF cols
  <2> HIDE DEF s
  <2>3. \A a \in ReferencesOf(e, t.kind) : a \in Range(s.cols)
    BY <2>1 DEF ReferencesOf
  <2> QED
    BY <2>2, <2>3
<1>6. /\ d \in ReferencesOf(e, t.kind) /\ d.name \in sources /\ d.refs \in KnownKinds(e)
      /\ d.name[1] = "prop"
  BY DEF Referring, ReferencesOf
<1>7. /\ x.column = d.name /\ DOMAIN x.targets = {d.refs}
      /\ x.targets[d.refs] = [p \in PopulationsOf(e, d.refs) |-> el[d.refs][p]]
      /\ x.type = RenderedType(e, d.refs, {el[d.refs][p] : p \in PopulationsOf(e, d.refs)})
  BY <1>4 DEF KindEdge
<1>8. OnlyTarget(x) = d.refs
  BY <1>7 DEF OnlyTarget
<1>9. HasEdge(t.edges, x.column) /\ EdgeOn(t.edges, x.column) = x
  <2>1. ASSUME NEW y \in t.edges, y.column = x.column PROVE y = x
    <3>1. PICK b \in Referring(e, t.kind, sources) :
             y = KindEdge(e, el, b.refs, PopulationsOf(e, b.refs), b.name)
      BY <1>2 DEF ReferenceEdges
    <3>2. b.name = d.name /\ b \in ReferencesOf(e, t.kind)
      BY <1>7, <2>1, <3>1 DEF KindEdge, Referring
    <3>3. b = d
      BY <1>5, <1>6, <3>2
    <3> QED
      BY <1>4, <3>1, <3>3
  <2> QED
    BY <2>1 DEF HasEdge, EdgeOn
<1>10. x.column # t.surface
  <2>1. t.surface \in Surfaces
    BY <1>1 DEF Elects
  <2> QED
    BY <1>6, <1>7, <2>1, NameFacts DEF Surfaces
<1>11. PICK s \in SelectedRecords(e, t.kind, t.populations, t.where) :
          row = [record |-> s[RecordId], cells |-> [b \in sources |-> StateCell(e, t, s, b)]]
  BY DEF StateTable
<1>12. s = r
  <2>1. s \in TableRows(e, RecordsOf(t.kind)) /\ s[RecordId] = r[RecordId]
    BY <1>11 DEF SelectedRecords, TrunkRows
  <2> QED
    BY <1>3, <2>1, OneRecord
<1>13. row.cells[x.column] = EdgeValue(e, x, OnlyTarget(x), r[x.column])
  BY <1>6, <1>7, <1>9, <1>10, <1>11, <1>12 DEF StateCell
<1>14. CellText(e, t, row, x.column) = EdgeCellText(x, EdgeValue(e, x, u.kind, q.record))
  BY <1>9, <1>13 DEF CellText
<1> DEFINE ps == PopulationsOf(e, u.kind)
<1>15. Refers(e, c, x, u.kind, ps)
  <2>1. u.kind = d.refs
    BY <1>8
  <2> DEFINE surfaces == {el[u.kind][p] : p \in ps}
  <2>2. \A p \in ps : x.type \in {ColumnFor(e, RecordsOf(u.kind), el[u.kind][p]).type, "VARCHAR"}
    <3> SUFFICES ASSUME NEW p \in ps
                 PROVE  x.type \in {ColumnFor(e, RecordsOf(u.kind), el[u.kind][p]).type, "VARCHAR"}
      OBVIOUS
    <3>1. el[u.kind][p] \in surfaces
      OBVIOUS
    <3>2. x.type = RenderedType(e, u.kind, surfaces)
      BY <1>7, <2>1
    <3> HIDE DEF surfaces, el
    <3> QED
      BY <1>3, <3>1, <3>2, EdgeTypes
  <2> QED
    BY <1>7, <2>1, <2>2 DEF Refers
<1>16. \A y \in TableRows(e, RecordsOf(u.kind)) : PopulationOf(e, u.kind, y) \in ps
  BY <1>3 DEF TypesOf, TypedRow, PopulationOf, PopulationsOf
<1> HIDE DEF ps
<1>17. IdentityText(e, u, q) = EdgeCellText(x, EdgeValue(e, x, u.kind, q.record))
  BY <1>15, <1>16, EdgeJoins
<1> QED
  BY <1>14, <1>17

\* What the plan of a junction says of its table, its edges and the owners it covers.
Junctured(e, c, t) ==
    LET n == Membership(t.kind, t.property) IN
    /\ n = MemberTable /\ t.kind \in Kinds
    /\ RecordId \in SourcesOf(t.columns)
    /\ t.edges = JunctionEdges(e, Election(e, c.keys), n, t.populations, SourcesOf(t.columns))
    /\ t.populations # {} /\ t.populations \subseteq PopulationsOf(e, t.kind)
    /\ SubTypes(e, t.kind) = {} => t.populations = {NULL}
    /\ SubTypes(e, t.kind) # {} => t.populations \subseteq SubTypes(e, t.kind)

LEMMA JunctionFacts ==
    ASSUME NEW e, NEW at, IsTape(e, at), NEW c \in Configs, PlanResolves(e, c),
           NEW t \in Junctions(SourcePlanOf(e, c))
    PROVE  Junctured(e, c, t)
<1> DEFINE el == Election(e, c.keys)
           plan == SourcePlanOf(e, c)
<1>1. plan.tables = TablePlans(e, el, c)
  BY DEF SourcePlanOf
<1>2. PICK i \in DOMAIN plan.tables : t = plan.tables[i] /\ t.property # NULL
  BY DEF Junctions, Range
<1>3. i \in DOMAIN c.tables /\ t = TablePlan(e, el, c.tables[i], c.declareKeys)
  BY <1>1, <1>2 DEF TablePlans
<1> DEFINE d == c.tables[i]
           ps == Populations(e, d.kind, d.subTypes)
           n == Membership(d.kind, d.property)
           columns == JunctionColumns(e, n, d.columns, d.rename)
<1>4. d.property # NULL /\ t = JunctionPlan(e, el, d)
  BY <1>2, <1>3 DEF TablePlan, StatePlan
<1>5. NonEmpty(d.subTypes) /\ JunctionResolves(e, el, d)
  BY <1>3, <1>4 DEF PlanResolves, WellFormed, TableWellFormed, TableResolves
<1>6. n \in Tables(e) /\ PopulationsResolve(e, d.kind, d.subTypes)
  BY <1>5 DEF JunctionResolves
<1>7. /\ t.kind = d.kind /\ t.property = d.property /\ t.populations = ps /\ t.columns = columns
      /\ t.edges = JunctionEdges(e, el, n, ps, SourcesOf(columns))
  BY <1>4 DEF JunctionPlan
<1>8. d.kind \in Kinds
  BY <1>6, TapeShape, KnownFacts DEF PopulationsResolve
<1>9. n = MemberTable
  <2>1. n # History /\ \A k \in Kinds : n # RecordsOf(k)
    BY DEF Membership, History, RecordsOf
  <2> QED
    BY <1>6, <2>1, TapeShape DEF TablesNamed
<1>10. /\ ps # {} /\ ps \subseteq PopulationsOf(e, d.kind)
       /\ SubTypes(e, d.kind) = {} => ps = {NULL}
       /\ SubTypes(e, d.kind) # {} => ps \subseteq SubTypes(e, d.kind)
  BY <1>5, <1>6, PopulationFacts
<1> HIDE DEF ps
<1>11. RecordId \in SourcesOf(columns)
  <2>1. RecordId \in ColumnNames(e, n) \ {Fork}
    BY <1>9, NameFacts DEF IsTape, MembersKept
  <2> DEFINE y == <<RecordId, IF RecordId \in DOMAIN d.rename THEN d.rename[RecordId]
                              ELSE JunctionName(n, RecordId)>>
  <2>2. y \in columns
    BY <2>1 DEF JunctionColumns
  <2>3. y[1] = RecordId
    OBVIOUS
  <2> HIDE DEF y, columns
  <2> QED
    BY <2>2, <2>3 DEF SourcesOf
<1> HIDE DEF columns, n, el, d
<1>12. Membership(t.kind, t.property) = n
  BY <1>7 DEF n
<1> QED
  BY <1>7, <1>8, <1>9, <1>10, <1>11, <1>12 DEF Junctured, el

\* A junction renders both its ends as the tables of the records name them.
LEMMA JunctionJoins ==
    ASSUME NEW e, NEW at \in Nat, IsTape(e, at), TypesOf(e), NEW c \in Configs, PlanResolves(e, c),
           NEW t \in Junctions(SourcePlanOf(e, c)), NEW labels,
           NEW row \in JunctionTable(e, t, labels), NEW x \in t.edges,
           NEW m, m = e.cat[Membership(t.kind, t.property)].rows[row.at],
           NEW u \in StateTables(SourcePlanOf(e, c)),
           x.column = RecordId => u.kind = t.kind,
           x.column # RecordId => u.kind = m[<<"member_kind", x.column[2]>>],
           NEW q \in StateTable(e, u), q.record = m[x.column]
    PROVE  IdentityText(e, u, q) = EdgeCellText(x, row.cells[x.column])
<1> DEFINE el == Election(e, c.keys)
           n == Membership(t.kind, t.property)
           ps == t.populations
           sources == SourcesOf(t.columns)
<1>1. /\ n = MemberTable /\ t.kind \in Kinds /\ RecordId \in sources
      /\ t.edges = JunctionEdges(e, el, n, ps, sources)
      /\ ps # {} /\ ps \subseteq PopulationsOf(e, t.kind)
      /\ SubTypes(e, t.kind) = {} => ps = {NULL}
      /\ SubTypes(e, t.kind) # {} => ps \subseteq SubTypes(e, t.kind)
  BY JunctionFacts DEF Junctured
<1>2. u.kind \in KnownKinds(e) /\ u.kind \in Kinds
  BY PlannedTable, TapeShape, KnownFacts DEF Elects
<1>3. PICK i \in DOMAIN e.cat[n].rows :
         /\ InSpine(Spine(e, t.kind, ps, t.where), e.cat[n].rows[i][RecordId])
         /\ row = [at |-> i, record |-> e.cat[n].rows[i][RecordId],
                   cells |-> [b \in sources |-> JunctionCell(e, t, labels, e.cat[n].rows[i], b)]]
  BY DEF JunctionTable
<1>4. m = e.cat[n].rows[i]
  BY <1>3
<1>5. InSpine(Spine(e, t.kind, ps, t.where), m[RecordId])
  BY <1>3, <1>4
<1>6. \A b \in sources : row.cells[b] = JunctionCell(e, t, labels, m, b)
  BY <1>3, <1>4
<1>7. n[2] = t.kind
  BY DEF Membership
<1> DEFINE owner == KindEdge(e, el, t.kind, ps, RecordId)
<1>8. \A y \in t.edges : \/ t.kind \in KnownKinds(e) /\ y = owner
                         \/ \E b \in MemberIds(e, n) \cap sources : y = MemberEdge(el, b)
  BY <1>1, <1>7 DEF JunctionEdges
<1>9. /\ owner.column = RecordId /\ \A b : MemberEdge(el, b).column = b
      /\ \A b \in MemberIds(e, n) : b[1] = "member_id" /\ b # RecordId
  BY DEF KindEdge, MemberEdge, MemberIds, RecordId
<1>10. EdgeOn(t.edges, x.column) = x /\ HasEdge(t.edges, x.column)
  <2>1. ASSUME NEW y \in t.edges, y.column = x.column PROVE y = x
    <3> HIDE DEF owner, el, n, ps, sources
    <3> QED
      BY <1>8, <1>9, <2>1
  <2> QED
    BY <2>1 DEF EdgeOn, HasEdge
<1>11. CASE x = owner /\ t.kind \in KnownKinds(e)
  <2>1. x.column = RecordId /\ u.kind = t.kind /\ q.record = m[RecordId]
    BY <1>9, <1>11
  <2>2. row.cells[x.column] = EdgeValue(e, x, u.kind, q.record)
    <3>1. row.cells[RecordId] = JunctionCell(e, t, labels, m, RecordId)
      BY <1>1, <1>6
    <3>2. HasEdge(t.edges, RecordId) /\ EdgeOn(t.edges, RecordId) = x
      BY <1>10, <2>1
    <3>3. RecordId[1] # "member_id" /\ RecordId[1] # "member_kind"
      BY DEF RecordId
    <3>4. JunctionCell(e, t, labels, m, RecordId) = EdgeValue(e, x, t.kind, m[RecordId])
      BY <3>2, <3>3 DEF JunctionCell
    <3> QED
      BY <2>1, <3>1, <3>4
  <2>3. Refers(e, c, x, u.kind, ps)
    <3>1. x.targets = [j \in {t.kind} |-> [p \in ps |-> el[j][p]]]
      BY <1>11 DEF KindEdge
    <3> DEFINE surfaces == {el[t.kind][p] : p \in ps}
    <3>2. x.type = RenderedType(e, t.kind, surfaces)
      BY <1>11 DEF KindEdge
    <3>3. \A p \in ps : el[t.kind][p] \in surfaces
      OBVIOUS
    <3> HIDE DEF surfaces
    <3>4. \A p \in ps : x.type \in {ColumnFor(e, RecordsOf(t.kind), el[t.kind][p]).type, "VARCHAR"}
      BY <1>1, <3>2, <3>3, EdgeTypes
    <3> QED
      BY <2>1, <3>1, <3>4 DEF Refers
  <2>4. ASSUME NEW r \in TableRows(e, RecordsOf(u.kind)), r[RecordId] = q.record
        PROVE  PopulationOf(e, u.kind, r) \in ps
    <3>1. InSpine(Spine(e, t.kind, ps, t.where), r[RecordId]) /\ r \in TableRows(e, RecordsOf(t.kind))
      BY <1>5, <2>1, <2>4
    <3> HIDE DEF ps
    <3>2. PopulationOf(e, t.kind, r) \in ps
      BY <1>1, <3>1, SelectedPopulation
    <3> QED
      BY <2>1, <3>2
  <2>5. IdentityText(e, u, q) = EdgeCellText(x, EdgeValue(e, x, u.kind, q.record))
    BY <2>3, <2>4, EdgeJoins
  <2> QED
    BY <2>2, <2>5
<1>12. ASSUME NEW b \in MemberIds(e, n) \cap sources, x = MemberEdge(el, b)
       PROVE  IdentityText(e, u, q) = EdgeCellText(x, row.cells[x.column])
  <2>1. x.column = b /\ b[1] = "member_id" /\ b # RecordId
    BY <1>9, <1>12
  <2>2. u.kind = m[<<"member_kind", b[2]>>] /\ q.record = m[b]
    BY <2>1
  <2>3. row.cells[b] = JunctionCell(e, t, labels, m, b)
    BY <1>6
  <2>4. JunctionCell(e, t, labels, m, b) = EdgeValue(e, x, u.kind, q.record)
    BY <1>10, <2>1, <2>2 DEF JunctionCell
  <2>5. Refers(e, c, x, u.kind, PopulationsOf(e, u.kind))
    <3>1. x.targets = el /\ x.type = "VARCHAR"
      BY <1>12 DEF MemberEdge
    <3>2. el = [j \in KnownKinds(e) |-> [p \in PopulationsOf(e, j) |-> SurfaceFor(c.keys, j, p)]]
      BY DEF Election
    <3>3. el[u.kind] = [p \in PopulationsOf(e, u.kind) |-> el[u.kind][p]]
      <4> DEFINE j == u.kind
                 all == PopulationsOf(e, j)
      <4>1. el[j] = [p \in all |-> SurfaceFor(c.keys, j, p)]
        BY <1>2, <3>2
      <4> HIDE DEF all, el, j
      <4>2. \A p \in all : el[j][p] = SurfaceFor(c.keys, j, p)
        BY <4>1
      <4>3. el[j] = [p \in all |-> el[j][p]]
        BY <4>1, <4>2
      <4> QED
        BY <4>3 DEF all, j
    <3> QED
      BY <1>2, <3>1, <3>2, <3>3 DEF Refers
  <2>6. \A y \in TableRows(e, RecordsOf(u.kind)) : PopulationOf(e, u.kind, y) \in PopulationsOf(e, u.kind)
    BY <1>2 DEF TypesOf, TypedRow, PopulationOf, PopulationsOf
  <2>7. IdentityText(e, u, q) = EdgeCellText(x, EdgeValue(e, x, u.kind, q.record))
    BY <2>5, <2>6, EdgeJoins
  <2> QED
    BY <2>1, <2>3, <2>4, <2>7
<1> QED
  BY <1>8, <1>11, <1>12

\* Every reference an accepted configuration exports, in a state table or at either end of a
\* junction, reads as the identity of its target in the target's own table, for every
\* configuration, every tape, every instant, and whatever a corruption does to surrogates: the
\* edges and the identity column of exporters/source/renders.py follow one election, and no
\* cast on the way loses a value. (That an identity is no other record's is IdentityKept.)
THEOREM ReferencesJoin == SourceSpec => []TablesJoin
<1> DEFINE Inv == Conforming /\ TypesOf(emit)
<1>1. SourceInit => TypesOf(emit)
  BY BlankTypes DEF SourceInit, Init
<1>2. Conforming /\ TypesOf(emit) /\ [SourceNext]_<<vars, garbled>> => TypesOf(emit)'
  <2> SUFFICES ASSUME Inv, [SourceNext]_<<vars, garbled>> PROVE TypesOf(emit')
    OBVIOUS
  <2>1. IsTape(emit, now)
    BY DEF Conforming
  <2>2. CASE Produce
    BY <2>1, <2>2, NextTypes DEF Produce
  <2>3. CASE Garble
    BY <2>1, <2>3, GarbleTypes
  <2>4. CASE UNCHANGED <<vars, garbled>>
    BY <2>4 DEF vars
  <2> QED
    BY <2>2, <2>3, <2>4 DEF SourceNext
<1>3. Conforming /\ TypesOf(emit) => TablesJoin
  <2> SUFFICES ASSUME Inv, NEW c \in Exported
               PROVE  LET plan == SourcePlanOf(emit, c)
                          joins(kind, id, text) ==
                             \A u \in {v \in StateTables(plan) : v.kind = kind} :
                                \A q \in {p \in StateTable(emit, u) : p.record = id} :
                                   IdentityText(emit, u, q) = text
                          raw(t, row) == CHOOSE r \in TableRows(emit, RecordsOf(t.kind)) :
                                            r[RecordId] = row.record
                      IN  /\ \A t \in StateTables(plan) : \A row \in StateTable(emit, t) : \A x \in t.edges :
                                joins(OnlyTarget(x), raw(t, row)[x.column], CellText(emit, t, row, x.column))
                          /\ \A t \in Junctions(plan) : \A row \in JunctionTable(emit, t, plan.labels) :
                                LET m == Rows(Membership(t.kind, t.property))[row.at]
                                IN  \A x \in t.edges :
                                       joins(IF x.column = RecordId THEN t.kind
                                             ELSE m[<<"member_kind", x.column[2]>>],
                                             m[x.column], EdgeCellText(x, row.cells[x.column]))
    BY DEF TablesJoin, Plans
  <2>1. now \in Nat /\ IsTape(emit, now) /\ TypesOf(emit) /\ c \in Configs /\ PlanResolves(emit, c)
    BY TapeAssumption DEF Conforming, Exported, Accepted
  <2> DEFINE plan == SourcePlanOf(emit, c)
  <2>2. ASSUME NEW t \in StateTables(plan), NEW row \in StateTable(emit, t), NEW x \in t.edges,
               NEW u \in StateTables(plan), u.kind = OnlyTarget(x), NEW q \in StateTable(emit, u),
               q.record = (CHOOSE r \in TableRows(emit, RecordsOf(t.kind)) :
                              r[RecordId] = row.record)[x.column]
        PROVE  IdentityText(emit, u, q) = CellText(emit, t, row, x.column)
    <3> DEFINE r == CHOOSE y \in TableRows(emit, RecordsOf(t.kind)) : y[RecordId] = row.record
    <3>1. PICK s \in SelectedRecords(emit, t.kind, t.populations, t.where) : row.record = s[RecordId]
      BY DEF StateTable
    <3>2. s \in TableRows(emit, RecordsOf(t.kind))
      BY DEF SelectedRecords, TrunkRows
    <3>3. r \in TableRows(emit, RecordsOf(t.kind)) /\ r[RecordId] = row.record
      BY <3>1, <3>2
    <3>4. q.record = r[x.column]
      BY <2>2
    <3> HIDE DEF r
    <3> QED
      BY <2>1, <2>2, <3>3, <3>4, StateJoins
  <2>3. ASSUME NEW t \in Junctions(plan), NEW row \in JunctionTable(emit, t, plan.labels),
               NEW x \in t.edges, NEW u \in StateTables(plan),
               u.kind = IF x.column = RecordId THEN t.kind
                        ELSE Rows(Membership(t.kind, t.property))[row.at][<<"member_kind", x.column[2]>>],
               NEW q \in StateTable(emit, u),
               q.record = Rows(Membership(t.kind, t.property))[row.at][x.column]
        PROVE  IdentityText(emit, u, q) = EdgeCellText(x, row.cells[x.column])
    <3> DEFINE m == Rows(Membership(t.kind, t.property))[row.at]
               labels == plan.labels
    <3>1. m = emit.cat[Membership(t.kind, t.property)].rows[row.at]
      BY DEF Rows
    <3>2. /\ x.column = RecordId => u.kind = t.kind
          /\ x.column # RecordId => u.kind = m[<<"member_kind", x.column[2]>>]
          /\ q.record = m[x.column] /\ row \in JunctionTable(emit, t, labels)
      BY <2>3
    <3>3. /\ t \in Junctions(SourcePlanOf(emit, c)) /\ u \in StateTables(SourcePlanOf(emit, c))
          /\ x \in t.edges /\ q \in StateTable(emit, u)
      BY <2>3
    <3> HIDE DEF m, labels, plan
    <3> QED
      BY <2>1, <3>1, <3>2, <3>3, JunctionJoins
  <2> HIDE DEF plan
  <2> QED
    BY <2>2, <2>3 DEF plan
<1>4. SourceSpec => []Conforming
  BY CorruptionConforms, PTL
<1>5. SourceSpec => []TypesOf(emit)
  BY <1>1, <1>2, <1>4, PTL DEF SourceSpec
<1> QED
  BY <1>3, <1>4, <1>5, PTL

---------------------------------------------------------------------------
(* The past of a tape.                                                     *)

\* Emits of one tape have the same tables, the same columns and the same trunk.
SameForm(f, g) ==
    /\ Tables(f) = Tables(g) /\ Trunk(f) = Trunk(g) /\ \A k : SubTypes(f, k) = SubTypes(g, k)
    /\ \A n \in Tables(g) : SpecFor(f, n).cols = SpecFor(g, n).cols /\ ColumnNames(f, n) = ColumnNames(g, n)

\* The cells of a record that never change.
Steady(k, c) ==
    /\ c \notin {Active, Deactivated, Mutated} /\ c[1] # "ref_index"
    /\ c[1] = "prop" => ColumnFor(Blank, RecordsOf(k), c).temporal = "constant"

\* What ends after t had no end then.
EndsLater(old, new, c, t) ==
    new[c] = old[c] \/ (old[c] = NULL /\ new[c] \in Int /\ new[c] > t)

\* Rows that were written after t.
HistoryGrown(old, new, t) ==
    /\ Len(old) <= Len(new)
    /\ \A i \in DOMAIN new : /\ i <= Len(old) => new[i] = old[i]
                             /\ i > Len(old) => new[i][SimTime] > t

MembersGrown(old, new, t) ==
    /\ Len(old) <= Len(new)
    /\ \A i \in DOMAIN new :
          /\ i <= Len(old) => /\ \A c \in ColumnNames(Blank, MemberTable) \ {Left} : new[i][c] = old[i][c]
                              /\ EndsLater(old[i], new[i], Left, t)
          /\ i > Len(old) => new[i][Joined] > t

RecordsGrown(k, old, new, t) ==
    /\ Len(old) <= Len(new)
    /\ \A i \in DOMAIN new :
          /\ i <= Len(old) => /\ \A c \in ColumnNames(Blank, RecordsOf(k)) : Steady(k, c) => new[i][c] = old[i][c]
                              /\ EndsLater(old[i], new[i], Deactivated, t)
          /\ i > Len(old) => new[i][Created] > t

\* Emit f is emit g with what happened after t.
Grown(g, f, t) ==
    /\ HistoryGrown(g.cat[History].rows, f.cat[History].rows, t)
    /\ MembersGrown(g.cat[MemberTable].rows, f.cat[MemberTable].rows, t)
    /\ \A k \in Kinds : RecordsGrown(k, g.cat[RecordsOf(k)].rows, f.cat[RecordsOf(k)].rows, t)

\* The rows there were by t, when they are the first ones.
LEMMA UntilPrefix ==
    ASSUME NEW e, NEW n, RowsShaped(e, n), NEW time, NEW t, NEW m \in Nat,
           m <= Len(e.cat[n].rows),
           \A i \in DOMAIN e.cat[n].rows : e.cat[n].rows[i][time] <= t <=> i <= m
    PROVE  /\ DOMAIN Until(e, n, time, t) = 1 .. m /\ Len(Until(e, n, time, t)) = m
           /\ \A i \in 1 .. m : Until(e, n, time, t)[i] = e.cat[n].rows[i]
<1> DEFINE rows == e.cat[n].rows
           S == {i \in DOMAIN rows : rows[i][Fork] = Trunk(e) /\ rows[i][time] <= t}
<1>1. /\ rows \in Seq(Range(rows)) /\ Len(rows) \in Nat /\ DOMAIN rows = 1 .. Len(rows)
      /\ \A i \in DOMAIN rows : rows[i][Fork] = Trunk(e)
  BY TrunkFacts DEF RowsShaped
<1>2. Until(e, n, time, t) = Only(rows, S)
  BY DEF Until
<1>3. \A i : i \in S <=> i \in 1 .. m
  BY <1>1
<1>4. S \in SUBSET DOMAIN rows
  OBVIOUS
<1> HIDE DEF rows, S
<1>5. S = 1 .. m
  BY <1>3
<1>6. Cardinality(S) = m
  BY <1>5, FS_Interval
<1>7. \A i \in 1 .. m : Ascending(S)[i] = i
  BY <1>1, <1>4, <1>5, AscendingPrefix
<1>8. DOMAIN Only(rows, S) = 1 .. m /\ \A i \in 1 .. m : Only(rows, S)[i] = rows[i]
  BY <1>1, <1>4, <1>6, <1>7, OnlyFacts
<1>9. Only(rows, S) \in Seq(Range(Only(rows, S)))
  BY <1>1, <1>4, OnlyFacts
<1>10. Len(Only(rows, S)) = m
  BY <1>8, <1>9
<1> QED
  BY <1>2, <1>8, <1>10 DEF rows

\* The rows of history by t are the rows there were at t.
LEMMA HistoryPast ==
    ASSUME NEW t \in Nat, NEW g, IsTape(g, t), NEW at \in Nat, NEW f, IsTape(f, at), Grown(g, f, t)
    PROVE  /\ TableRows(Truncated(f, t), History) = TableRows(g, History)
           /\ Len(Truncated(f, t).cat[History].rows) = Len(g.cat[History].rows)
           /\ \A h \in TableRows(f, History) : h[SimTime] <= t => h \in TableRows(g, History)
           /\ TableRows(g, History) \subseteq TableRows(f, History)
<1> DEFINE old == g.cat[History].rows
           new == f.cat[History].rows
           cut == Truncated(f, t)
<1>1. /\ TablesNamed(f) /\ (\A x \in f.specs : ColumnsNamed(f, x)) /\ History \in Tables(f)
      /\ RowsShaped(f, History) /\ SpecFor(f, History).category = "fixed" /\ SpecFor(f, History).name = History
      /\ RowsShaped(g, History)
  BY TapeShape, CategoryFacts, SpecFacts
<1>2. /\ Len(old) \in Nat /\ DOMAIN old = 1 .. Len(old) /\ Len(new) \in Nat /\ DOMAIN new = 1 .. Len(new)
      /\ TableRows(g, History) = {old[i] : i \in DOMAIN old} /\ TableRows(f, History) = {new[i] : i \in DOMAIN new}
  BY <1>1, TrunkFacts
<1>3. /\ Len(old) <= Len(new)
      /\ \A i \in DOMAIN new : /\ i <= Len(old) => new[i] = old[i]
                               /\ i > Len(old) => new[i][SimTime] > t
  BY DEF Grown, HistoryGrown
<1>4. \A i \in DOMAIN old : old[i][SimTime] \in 0 .. t
  BY <1>2 DEF IsTape, HistoryKept
<1>5. \A i \in DOMAIN new : new[i][SimTime] \in 0 .. at
  BY <1>2 DEF IsTape, HistoryKept
<1> HIDE DEF old, new
<1>6. \A i \in DOMAIN new : new[i][SimTime] <= t <=> i <= Len(old)
  BY <1>2, <1>3, <1>4, <1>5
<1>7. cut.cat[History].rows = Until(f, History, SimTime, t)
  BY <1>1, CutFacts DEF TruncatedRows
<1> HIDE DEF cut
<1>8. /\ DOMAIN cut.cat[History].rows = 1 .. Len(old) /\ Len(cut.cat[History].rows) = Len(old)
      /\ \A i \in 1 .. Len(old) : cut.cat[History].rows[i] = new[i]
  <2> DEFINE kept == Until(f, History, SimTime, t)
  <2>1. /\ DOMAIN kept = 1 .. Len(old) /\ Len(kept) = Len(old)
        /\ \A i \in 1 .. Len(old) : kept[i] = new[i]
    <3> DEFINE m == Len(old)
    <3>1. /\ m \in Nat /\ m <= Len(f.cat[History].rows)
          /\ \A i \in DOMAIN f.cat[History].rows : f.cat[History].rows[i][SimTime] <= t <=> i <= m
      BY <1>2, <1>3, <1>6 DEF new
    <3> HIDE DEF m
    <3>2. /\ DOMAIN kept = 1 .. m /\ Len(kept) = m
          /\ \A i \in 1 .. m : kept[i] = f.cat[History].rows[i]
      BY <1>1, <3>1, UntilPrefix
    <3> QED
      BY <3>2 DEF m, new
  <2> HIDE DEF kept
  <2> QED
    BY <1>7, <2>1 DEF kept
<1>9. TableRows(cut, History) = {old[i] : i \in 1 .. Len(old)}
  BY <1>2, <1>3, <1>8 DEF TableRows, Range
<1>10. \A i \in 1 .. Len(old) : i \in DOMAIN new /\ old[i] = new[i]
  BY <1>2, <1>3
<1>11. TableRows(g, History) \subseteq TableRows(f, History)
  BY <1>2, <1>10
<1>12. \A h \in TableRows(f, History) : h[SimTime] <= t => h \in TableRows(g, History)
  BY <1>2, <1>3, <1>6
<1> QED
  BY <1>2, <1>8, <1>9, <1>11, <1>12 DEF old, cut

\* So a value as of t is the last value there was at t.
LEMMA ValuePast ==
    ASSUME NEW t \in Nat, NEW g, IsTape(g, t), NEW at \in Nat, NEW f, IsTape(f, at), Grown(g, f, t),
           t <= at, at <= LastTime, NEW k, NEW p, NEW id
    PROVE  AsOf(f, k, p, id, t) = AsOf(g, k, p, id, LastTime)
<1>0. t \in Int /\ LastTime \in Int
  BY TapeAssumption
<1>1. \A h \in Series(f, k, p, id) : h[SimTime] \in 0 .. at
  BY SeriesFacts
<1>2. \A h \in Series(g, k, p, id) : h[SimTime] \in 0 .. t
  BY SeriesFacts
<1>3. /\ \A h \in TableRows(f, History) : h[SimTime] <= t => h \in TableRows(g, History)
      /\ TableRows(g, History) \subseteq TableRows(f, History)
  BY HistoryPast
<1>4. SeriesTo(f, k, p, id, t) = Series(g, k, p, id)
  <2>1. /\ Series(f, k, p, id) = {h \in TableRows(f, History) : h[Kind] = k /\ h[Property] = p /\ h[RecordId] = id}
        /\ Series(g, k, p, id) = {h \in TableRows(g, History) : h[Kind] = k /\ h[Property] = p /\ h[RecordId] = id}
    BY SeriesFacts
  <2>2. \A h \in Series(g, k, p, id) : h[SimTime] <= t
    BY <1>2
  <2> QED
    BY <1>3, <2>1, <2>2 DEF SeriesTo
<1>5. SeriesTo(g, k, p, id, LastTime) = Series(g, k, p, id)
  <2>1. \A h \in Series(g, k, p, id) : h[SimTime] <= LastTime
    BY <1>0, <1>2
  <2> QED
    BY <2>1 DEF SeriesTo
<1>6. \A h \in Series(g, k, p, id) : h[SimTime] \in 0 .. at
  BY <1>2
<1> QED
  BY <1>0, <1>1, <1>4, <1>5, <1>6, AsOfSame

\* An interval that ended after t is open again, so each is the one there was.
LEMMA MembersPast ==
    ASSUME NEW t \in Nat, NEW g, IsTape(g, t), NEW at \in Nat, NEW f, IsTape(f, at), Grown(g, f, t)
    PROVE  /\ TableRows(Truncated(f, t), MemberTable) = TableRows(g, MemberTable)
           /\ Len(Truncated(f, t).cat[MemberTable].rows) = Len(g.cat[MemberTable].rows)
<1> DEFINE n == MemberTable
           old == g.cat[n].rows
           new == f.cat[n].rows
           m == Len(old)
           kept == Until(f, n, Joined, t)
           cut == Truncated(f, t)
           C == ColumnNames(Blank, n)
<1>1. /\ TablesNamed(f) /\ (\A x \in f.specs : ColumnsNamed(f, x)) /\ n \in Tables(f)
      /\ RowsShaped(f, n) /\ SpecFor(f, n).category = "membership" /\ SpecFor(f, n).name = n
      /\ RowsShaped(g, n)
  BY TapeShape, CategoryFacts, SpecFacts
<1>2. /\ Len(old) \in Nat /\ DOMAIN old = 1 .. Len(old) /\ Len(new) \in Nat /\ DOMAIN new = 1 .. Len(new)
      /\ TableRows(g, n) = {old[i] : i \in DOMAIN old}
  BY <1>1, TrunkFacts
<1>3. /\ Len(old) <= Len(new)
      /\ \A i \in DOMAIN new :
            /\ i <= Len(old) => /\ \A c \in C \ {Left} : new[i][c] = old[i][c]
                                /\ EndsLater(old[i], new[i], Left, t)
            /\ i > Len(old) => new[i][Joined] > t
  BY DEF Grown, MembersGrown
<1>4. /\ ColumnNames(g, n) = C /\ ColumnNames(f, n) = C /\ {Joined, Left} \subseteq C /\ Joined # Left
  BY TapeAssumption DEF IsTape, MembersKept, Joined, Left
<1>5. /\ \A i \in DOMAIN old : /\ old[i][Joined] \in 0 .. t
                               /\ old[i][Left] # NULL => old[i][Left] \in old[i][Joined] .. t
      /\ \A i \in DOMAIN new : new[i][Joined] \in 0 .. at
  BY DEF IsTape, MembersKept
<1>6. /\ \A i \in DOMAIN old : old[i] = [c \in C |-> old[i][c]]
      /\ \A i \in DOMAIN new : new[i] = [c \in C |-> new[i][c]]
  BY <1>1, <1>4 DEF RowsShaped, Range
<1>7. cut.cat[n].rows = [i \in DOMAIN kept |-> CutMember(kept[i], t)]
  BY <1>1, CutFacts DEF TruncatedRows, TruncatedMembership, CutMember
<1> HIDE DEF cut, C
<1>8. /\ DOMAIN kept = 1 .. m /\ Len(kept) = m /\ \A i \in 1 .. m : kept[i] = new[i]
  <2> HIDE DEF old
  <2>1. /\ m \in Nat /\ m <= Len(new) /\ \A i \in DOMAIN new : new[i][Joined] <= t <=> i <= m
    <3> HIDE DEF new
    <3>1. ASSUME NEW i \in DOMAIN new, i <= m PROVE new[i][Joined] <= t
      BY <1>2, <1>3, <1>4, <1>5, <3>1
    <3> QED
      BY <1>2, <1>3, <1>5, <3>1
  <2> HIDE DEF m
  <2>2. /\ DOMAIN kept = 1 .. m /\ Len(kept) = m /\ \A i \in 1 .. m : kept[i] = f.cat[n].rows[i]
    BY <1>1, <2>1, UntilPrefix
  <2> QED
    BY <2>2
<1> HIDE DEF old, new, kept, n
<1>9. ASSUME NEW i \in 1 .. m PROVE CutMember(new[i], t) = old[i]
  <2>1. /\ i \in DOMAIN old /\ i \in DOMAIN new /\ i <= Len(old)
    BY <1>2, <1>3
  <2>2. /\ (\A c \in C \ {Left} : new[i][c] = old[i][c]) /\ EndsLater(old[i], new[i], Left, t)
        /\ old[i] = [c \in C |-> old[i][c]] /\ new[i] = [c \in C |-> new[i][c]]
        /\ old[i][Joined] \in 0 .. t /\ (old[i][Left] # NULL => old[i][Left] \in old[i][Joined] .. t)
    BY <1>3, <1>5, <1>6, <2>1
  <2>3. CASE new[i][Left] = old[i][Left]
    <3>1. ~(new[i][Left] # NULL /\ new[i][Left] > t)
      BY <2>2, <2>3
    <3>2. \A c \in C : new[i][c] = old[i][c]
      BY <2>2, <2>3
    <3>3. new[i] = old[i]
      BY <2>2, <3>2
    <3> QED
      BY <3>1, <3>3 DEF CutMember
  <2>4. CASE new[i][Left] # old[i][Left]
    <3>1. old[i][Left] = NULL /\ new[i][Left] \in Int /\ new[i][Left] > t
      BY <2>2, <2>4 DEF EndsLater
    <3>2. CutMember(new[i], t) = [new[i] EXCEPT ![Left] = NULL]
      BY <3>1, NullFacts DEF CutMember
    <3>3. [new[i] EXCEPT ![Left] = NULL] = [c \in C |-> IF c = Left THEN NULL ELSE new[i][c]]
      BY <2>2
    <3>4. \A c \in C : (IF c = Left THEN NULL ELSE new[i][c]) = old[i][c]
      BY <2>2, <3>1
    <3> QED
      BY <2>2, <3>2, <3>3, <3>4
  <2> QED
    BY <2>3, <2>4
<1>10. /\ DOMAIN cut.cat[n].rows = 1 .. m /\ \A i \in 1 .. m : cut.cat[n].rows[i] = old[i]
  BY <1>7, <1>8, <1>9
<1>11. Len(cut.cat[n].rows) = m
  <2>1. m \in Nat
    BY <1>2
  <2>2. cut.cat[n].rows = [i \in 1 .. m |-> old[i]]
    BY <1>7, <1>8, <1>9
  <2> QED
    BY <2>1, <2>2
<1>12. TableRows(cut, n) = {old[i] : i \in 1 .. m}
  BY <1>10 DEF TableRows, Range
<1> QED
  BY <1>2, <1>11, <1>12 DEF n, old, cut

\* The columns of a kind are those of the blank tape.
LEMMA FormFacts ==
    ASSUME NEW at, NEW e, IsTape(e, at), SameForm(e, Blank), NEW k \in Kinds
    PROVE  LET n == RecordsOf(k) IN
           /\ ColumnNames(e, n) = ColumnNames(Blank, n)
           /\ PropColumns(SpecFor(e, n)) = PropColumns(SpecFor(Blank, n))
           /\ \A x \in ColumnNames(Blank, n) : /\ ColumnFor(e, n, x) = ColumnFor(Blank, n, x)
                                               /\ ColumnFor(e, n, x).name = x
                                               /\ x[1] = "prop" => ColumnFor(e, n, x) \in PropColumns(SpecFor(Blank, n))
           /\ \A c \in PropColumns(SpecFor(Blank, n)) :
                 /\ c.name \in ColumnNames(Blank, n) /\ c.name[1] = "prop" /\ ColumnFor(e, n, c.name) = c
                 /\ c.name = PropOf(c.name[2]) /\ TemporalClassAgrees(c)
<1> DEFINE n == RecordsOf(k)
           s == SpecFor(e, n)
<1>1. /\ n \in Tables(e) /\ s \in e.specs /\ s.name = n /\ TablesNamed(e) /\ ColumnsNamed(e, s)
  BY TapeShape, CategoryFacts, SpecFacts
<1>2. n \in Tables(Blank) /\ s.cols = SpecFor(Blank, n).cols /\ ColumnNames(e, n) = ColumnNames(Blank, n)
  BY <1>1 DEF SameForm
<1>3. /\ ColumnNames(e, n) = {c.name : c \in Range(s.cols)}
      /\ \A c \in Range(s.cols) : ColumnFor(e, n, c.name) = c
      /\ \A x \in ColumnNames(e, n) : ColumnFor(e, n, x) \in Range(s.cols) /\ ColumnFor(e, n, x).name = x
  BY <1>1, ColumnFacts
<1>4. \A x : ColumnFor(e, n, x) = ColumnFor(Blank, n, x)
  BY <1>2 DEF ColumnFor
<1>5. PropColumns(s) = PropColumns(SpecFor(Blank, n))
  BY <1>2 DEF PropColumns
<1>6. \A c \in PropColumns(s) : c.name = PropOf(c.name[2]) /\ TemporalClassAgrees(c)
  BY <1>1 DEF ColumnsNamed
<1> HIDE DEF s, n
<1>7. \A c \in PropColumns(s) : c \in Range(s.cols) /\ c.name[1] = "prop"
  BY DEF PropColumns
<1>8. \A x \in ColumnNames(e, n) : x[1] = "prop" => ColumnFor(e, n, x) \in PropColumns(s)
  BY <1>3 DEF PropColumns
<1> QED
  BY <1>2, <1>3, <1>4, <1>5, <1>6, <1>7, <1>8 DEF n, s

LEMMA BlankForm == IsTape(Blank, 0) /\ SameForm(Blank, Blank)
  BY TapeAssumption DEF SameForm

\* A record of then is the record of now in every cell that never changes.
LEMMA SteadyCells ==
    ASSUME NEW t \in Nat, NEW g, IsTape(g, t), NEW at \in Nat, NEW f, IsTape(f, at), Grown(g, f, t),
           NEW k \in Kinds
    PROVE  LET old == g.cat[RecordsOf(k)].rows
               new == f.cat[RecordsOf(k)].rows
           IN  /\ Len(old) \in Nat /\ DOMAIN old = 1 .. Len(old)
               /\ Len(new) \in Nat /\ DOMAIN new = 1 .. Len(new) /\ Len(old) <= Len(new)
               /\ TableRows(g, RecordsOf(k)) = {old[i] : i \in DOMAIN old}
               /\ TableRows(f, RecordsOf(k)) = {new[i] : i \in DOMAIN new}
               /\ \A i \in 1 .. Len(old) :
                     /\ i \in DOMAIN new /\ old[i] \in TableRows(g, RecordsOf(k))
                     /\ \A c \in ColumnNames(Blank, RecordsOf(k)) : Steady(k, c) => new[i][c] = old[i][c]
                     /\ new[i][RecordId] = old[i][RecordId] /\ new[i][Created] = old[i][Created]
                     /\ new[i][RecordIndex] = old[i][RecordIndex]
                     /\ EndsLater(old[i], new[i], Deactivated, t)
                     /\ old[i][Created] \in 0 .. t
                     /\ old[i][Deactivated] # NULL => old[i][Deactivated] \in 0 .. t
               /\ \A i \in DOMAIN new : new[i][Created] <= t <=> i <= Len(old)
<1> DEFINE n == RecordsOf(k)
           old == g.cat[n].rows
           new == f.cat[n].rows
<1>1. RowsShaped(f, n) /\ RowsShaped(g, n)
  BY TapeShape, CategoryFacts
<1>2. /\ Len(old) \in Nat /\ DOMAIN old = 1 .. Len(old) /\ Len(new) \in Nat /\ DOMAIN new = 1 .. Len(new)
      /\ TableRows(g, n) = {old[i] : i \in DOMAIN old}
      /\ TableRows(f, n) = {new[i] : i \in DOMAIN new}
  BY <1>1, TrunkFacts
<1>3. RecordsGrown(k, old, new, t)
  BY DEF Grown
<1>4. \A c \in {RecordId, Created, RecordIndex} : c \in ColumnNames(Blank, n) /\ Steady(k, c)
  <2>1. {RecordId, Created, RecordIndex} \subseteq ColumnNames(Blank, n)
    BY TapeAssumption DEF IsTape, RecordsKept
  <2>2. RecordId[1] # "ref_index" /\ Created[1] # "ref_index" /\ RecordIndex[1] # "ref_index"
    BY DEF RecordId, Created, RecordIndex
  <2> QED
    BY <2>1, <2>2, NameFacts DEF Steady
<1>5. /\ \A i \in DOMAIN old : /\ old[i][Created] \in 0 .. t
                               /\ old[i][Deactivated] # NULL => old[i][Deactivated] \in old[i][Created] .. t
      /\ \A i \in DOMAIN new : new[i][Created] \in 0 .. at
  BY DEF IsTape, RecordsKept
<1> HIDE DEF old, new, n
<1>6. /\ Len(old) <= Len(new)
      /\ \A i \in DOMAIN new :
          /\ i <= Len(old) => /\ \A c \in ColumnNames(Blank, n) : Steady(k, c) => new[i][c] = old[i][c]
                              /\ EndsLater(old[i], new[i], Deactivated, t)
          /\ i > Len(old) => new[i][Created] > t
  BY <1>3 DEF RecordsGrown, n
<1>7. \A i \in 1 .. Len(old) : i \in DOMAIN new /\ i \in DOMAIN old /\ i <= Len(old)
  BY <1>2, <1>6
<1>8. ASSUME NEW i \in 1 .. Len(old)
      PROVE  /\ i \in DOMAIN new /\ old[i] \in TableRows(g, n)
             /\ \A c \in ColumnNames(Blank, n) : Steady(k, c) => new[i][c] = old[i][c]
             /\ new[i][RecordId] = old[i][RecordId] /\ new[i][Created] = old[i][Created]
             /\ new[i][RecordIndex] = old[i][RecordIndex]
             /\ EndsLater(old[i], new[i], Deactivated, t)
             /\ old[i][Created] \in 0 .. t
             /\ old[i][Deactivated] # NULL => old[i][Deactivated] \in 0 .. t
  <2>1. i \in DOMAIN new /\ i \in DOMAIN old /\ i <= Len(old)
    BY <1>7
  <2>2. /\ \A c \in ColumnNames(Blank, n) : Steady(k, c) => new[i][c] = old[i][c]
        /\ EndsLater(old[i], new[i], Deactivated, t)
    BY <1>6, <2>1
  <2>3. /\ old[i][Created] \in 0 .. t
        /\ old[i][Deactivated] # NULL => old[i][Deactivated] \in 0 .. t
    BY <1>5, <2>1
  <2>4. old[i] \in TableRows(g, n)
    BY <1>2, <2>1
  <2> QED
    BY <1>4, <2>1, <2>2, <2>3, <2>4
<1>9. \A i \in DOMAIN new : new[i][Created] <= t <=> i <= Len(old)
  <2> SUFFICES ASSUME NEW i \in DOMAIN new PROVE new[i][Created] <= t <=> i <= Len(old)
    OBVIOUS
  <2>1. i \in Nat /\ i >= 1 /\ new[i][Created] \in Int
    BY <1>2, <1>5
  <2>2. CASE i <= Len(old)
    <3>1. i \in 1 .. Len(old)
      BY <1>2, <2>1, <2>2
    <3>2. new[i][Created] = old[i][Created] /\ old[i][Created] \in 0 .. t
      BY <1>8, <3>1
    <3> QED
      BY <2>2, <3>2
  <2>3. CASE ~(i <= Len(old))
    <3>1. new[i][Created] > t
      BY <1>2, <1>6, <2>1, <2>3
    <3> QED
      BY <2>1, <2>3, <3>1
  <2> QED
    BY <2>2, <2>3
<1> QED
  BY <1>2, <1>6, <1>8, <1>9 DEF old, new, n

\* So it is in its properties: a constant one is there, a tracked one is in history.
LEMMA PropertyPast ==
    ASSUME NEW t \in Nat, NEW g, IsTape(g, t), PastTold(g), SameForm(g, Blank),
           NEW at \in Nat, NEW f, IsTape(f, at), SameForm(f, Blank), Grown(g, f, t), t <= at, at <= LastTime,
           NEW k \in Kinds, NEW i \in 1 .. Len(g.cat[RecordsOf(k)].rows),
           NEW c \in PropColumns(SpecFor(Blank, RecordsOf(k))), c.temporal \in {"constant", "tracked"},
           ~ExemptDiscriminator(f, k, c.name)
    PROVE  PropertyAt(f, k, f.cat[RecordsOf(k)].rows[i], c, t) = g.cat[RecordsOf(k)].rows[i][c.name]
<1> DEFINE n == RecordsOf(k)
           q == g.cat[n].rows[i]
           r == f.cat[n].rows[i]
<1>1. /\ q \in TableRows(g, n) /\ r[RecordId] = q[RecordId]
      /\ \A x \in ColumnNames(Blank, n) : Steady(k, x) => r[x] = q[x]
  BY SteadyCells
<1>2. /\ c.name \in ColumnNames(Blank, n) /\ c.name[1] = "prop" /\ ColumnFor(Blank, n, c.name) = c
      /\ c \in PropColumns(SpecFor(g, n)) /\ TemporalClassAgrees(c)
  BY FormFacts, BlankForm
<1>3. RecordTold(g, k, q)
  BY <1>1 DEF PastTold
<1> HIDE DEF q, r
<1>4. CASE c.temporal = "tracked"
  <2>1. PropertyAt(f, k, r, c, t) = TryCast(AsOf(f, k, c.name[2], r[RecordId], t), c.type)
    BY <1>4 DEF PropertyAt
  <2>2. AsOf(f, k, c.name[2], r[RecordId], t) = AsOf(g, k, c.name[2], q[RecordId], LastTime)
    BY <1>1, ValuePast
  <2>3. c.tracked = TRUE
    BY <1>2, <1>4 DEF TemporalClassAgrees
  <2>4. q[c.name] = TryCast(AsOf(g, k, c.name[2], q[RecordId], LastTime), c.type)
    BY <1>2, <1>3, <2>3 DEF RecordTold, ValueTold, n
  <2> QED
    BY <2>1, <2>2, <2>4 DEF q, r
<1>5. CASE c.temporal # "tracked"
  <2>1. PropertyAt(f, k, r, c, t) = r[c.name]
    BY <1>5 DEF PropertyAt
  <2>2. Steady(k, c.name)
    <3>1. c.temporal = "constant"
      BY <1>5
    <3>2. c.name # Active /\ c.name # Deactivated /\ c.name # Mutated
      BY <1>2, NameFacts
    <3> QED
      BY <1>2, <3>1, <3>2 DEF Steady, n
  <2> QED
    BY <1>1, <1>2, <2>1, <2>2 DEF q, r
<1> QED
  BY <1>4, <1>5

\* The index beside a reference is resolved to the one there was: the record it named
\* was there, and keeps its place.
LEMMA IndexPast ==
    ASSUME NEW t \in Nat, NEW g, IsTape(g, t), PastTold(g), SameForm(g, Blank),
           NEW at \in Nat, NEW f, IsTape(f, at), SameForm(f, Blank), Grown(g, f, t), t <= at, at <= LastTime,
           NEW k \in Kinds, NEW i \in 1 .. Len(g.cat[RecordsOf(k)].rows),
           NEW c \in PropColumns(SpecFor(Blank, RecordsOf(k))), c.temporal \in {"constant", "tracked"},
           ~ExemptDiscriminator(f, k, c.name), c.refs # NULL
    PROVE  RefIndexAt(f, k, f.cat[RecordsOf(k)].rows[i], c.name[2], t)
             = g.cat[RecordsOf(k)].rows[i][RefIndex(c.name[2])]
<1> DEFINE n == RecordsOf(k)
           q == g.cat[n].rows[i]
           r == f.cat[n].rows[i]
           target == RecordsOf(c.refs)
           id == PropertyAt(f, k, r, c, t)
           matches == {x \in TrunkRows(f, target) : x[RecordId] = id /\ x[Created] <= t}
           index == q[RefIndex(c.name[2])]
<1>1. id = q[c.name]
  BY PropertyPast
<1>2. q \in TableRows(g, n)
  BY SteadyCells
<1>3. /\ c \in PropColumns(SpecFor(g, n)) /\ c.name = PropOf(c.name[2])
      /\ ColumnFor(f, n, c.name) = c
  BY FormFacts, BlankForm
<1>4. ReferenceTold(g, q, c)
  BY <1>2, <1>3 DEF PastTold, RecordTold
<1>5. c.refs \in Kinds
  BY TapeAssumption DEF ReferencesLaid
<1>6. target \in Tables(f) /\ TrunkRows(f, target) = TableRows(f, target)
  BY <1>5, TapeShape, CategoryFacts, TrunkFacts
<1>7. RefIndexAt(f, k, r, c.name[2], t)
        = IF id = NULL \/ matches = {} THEN NULL ELSE (CHOOSE x \in matches : TRUE)[RecordIndex]
  <2>1. ColumnFor(f, RecordsOf(k), PropOf(c.name[2])) = c
    BY <1>3
  <2> QED
    <3>1. RefIndexAt(f, k, r, c.name[2], t)
            = LET found == IF target \in Tables(f) THEN matches ELSE {}
              IN  IF id = NULL \/ found = {} THEN NULL ELSE (CHOOSE x \in found : TRUE)[RecordIndex]
      BY <2>1 DEF RefIndexAt
    <3> HIDE DEF matches, id, target
    <3> QED
      BY <1>6, <3>1
<1> HIDE DEF q, r, id, n, target, matches, index
<1>8. CASE q[c.name] = NULL
  <2>1. index = NULL
    <3>1. ASSUME NEW x \in TableRows(g, RecordsOf(c.refs)), x[RecordId] = q[c.name] PROVE FALSE
      BY <1>5, <1>8, <3>1, RecordLife
    <3> QED
      BY <1>4, <3>1 DEF ReferenceTold, index
  <2> QED
    BY <1>1, <1>7, <1>8, <2>1 DEF index, q, r, n
<1>9. CASE q[c.name] # NULL
  <2>1. PICK x \in TableRows(g, target) : x[RecordId] = q[c.name] /\ x[RecordIndex] = index
    BY <1>4, <1>9 DEF ReferenceTold, index, target
  <2> DEFINE was == g.cat[target].rows
             is == f.cat[target].rows
  <2>2. /\ TableRows(g, target) = {was[j] : j \in DOMAIN was} /\ DOMAIN was = 1 .. Len(was)
        /\ TableRows(f, target) = {is[j] : j \in DOMAIN is}
        /\ \A j \in 1 .. Len(was) :
              /\ j \in DOMAIN is /\ is[j][RecordId] = was[j][RecordId] /\ is[j][Created] = was[j][Created]
              /\ is[j][RecordIndex] = was[j][RecordIndex] /\ was[j][Created] \in 0 .. t
    <3>1. /\ TableRows(g, target) = {was[j] : j \in DOMAIN was} /\ DOMAIN was = 1 .. Len(was)
          /\ TableRows(f, target) = {is[j] : j \in DOMAIN is}
      BY <1>5, SteadyCells DEF target
    <3>2. \A j \in 1 .. Len(was) :
              /\ j \in DOMAIN is /\ is[j][RecordId] = was[j][RecordId] /\ is[j][Created] = was[j][Created]
              /\ is[j][RecordIndex] = was[j][RecordIndex] /\ was[j][Created] \in 0 .. t
      BY <1>5, SteadyCells DEF target
    <3> QED
      BY <3>1, <3>2
  <2>3. \A j, l \in DOMAIN is : is[j][RecordId] = is[l][RecordId] => j = l
    BY <1>5 DEF IsTape, RecordsKept, target
  <2> HIDE DEF was, is
  <2>4. PICK j \in 1 .. Len(was) : x = was[j]
    BY <2>1, <2>2
  <2>5. /\ j \in DOMAIN is /\ is[j][RecordId] = id /\ is[j][Created] <= t /\ is[j][RecordIndex] = index
    BY <1>1, <2>1, <2>2, <2>4
  <2>6. is[j] \in matches
    BY <1>6, <2>2, <2>5 DEF matches
  <2>7. \A y \in matches : y = is[j]
    BY <1>6, <2>2, <2>3, <2>5 DEF matches
  <2>8. (CHOOSE y \in matches : TRUE)[RecordIndex] = index
    BY <2>5, <2>6, <2>7
  <2>9. RefIndexAt(f, k, r, c.name[2], t) = index
    BY <1>1, <1>7, <1>9, <2>6, <2>8
  <2> QED
    BY <2>9 DEF index, q, r, n
<1> QED
  BY <1>8, <1>9

\* A cell of the truncated tape is the one there was, where the past is not lost.
LEMMA CellPast ==
    ASSUME NEW t \in Nat, NEW g, IsTape(g, t), PastTold(g), SameForm(g, Blank),
           NEW at \in Nat, NEW f, IsTape(f, at), SameForm(f, Blank), Grown(g, f, t), t <= at, at <= LastTime,
           ReferencesKnown, NEW k \in Kinds, NEW i \in 1 .. Len(g.cat[RecordsOf(k)].rows),
           NEW x \in CutNames(f, k), x # Mutated, ~ExemptDiscriminator(f, k, x)
    PROVE  CutRecord(f, k, f.cat[RecordsOf(k)].rows[i], t)[x] = g.cat[RecordsOf(k)].rows[i][x]
<1> DEFINE n == RecordsOf(k)
           q == g.cat[n].rows[i]
           r == f.cat[n].rows[i]
           d == ColumnFor(f, n, x)
<1>1. CutRecord(f, k, r, t)[x] = TruncatedCell(f, k, r, d, t)
  BY CutNamesFacts DEF CutRecord
<1>2. x \in ColumnNames(Blank, n) /\ d.name = x /\ ~NonExemptSliceOnly(f, k, x)
  BY FormFacts DEF CutNames
<1>3. /\ q \in TableRows(g, n) /\ EndsLater(q, r, Deactivated, t)
      /\ \A y \in ColumnNames(Blank, n) : Steady(k, y) => r[y] = q[y]
      /\ q[Deactivated] # NULL => q[Deactivated] \in 0 .. t
  <2>1. q \in TableRows(g, n) /\ EndsLater(q, r, Deactivated, t)
    BY SteadyCells
  <2>2. \A y \in ColumnNames(Blank, n) : Steady(k, y) => r[y] = q[y]
    BY SteadyCells
  <2>3. q[Deactivated] # NULL => q[Deactivated] \in 0 .. t
    BY SteadyCells
  <2> QED
    BY <2>1, <2>2, <2>3
<1>4. RecordTold(g, k, q)
  BY <1>3 DEF PastTold
<1>5. /\ GoneBy(r, t) <=> q[Deactivated] # NULL
      /\ GoneBy(r, t) => r[Deactivated] = q[Deactivated]
  <2> HIDE DEF q, r
  <2>1. CASE r[Deactivated] = q[Deactivated]
    BY <1>3, <2>1 DEF GoneBy
  <2>2. CASE r[Deactivated] # q[Deactivated]
    BY <1>3, <2>2 DEF GoneBy, EndsLater
  <2> QED
    BY <2>1, <2>2
<1>6. /\ Active # Deactivated /\ Active # Mutated /\ Deactivated # Mutated
      /\ Active[1] \notin {"prop", "ref_index"} /\ Deactivated[1] \notin {"prop", "ref_index"}
      /\ Mutated[1] \notin {"prop", "ref_index"}
  BY DEF Active, Deactivated, Mutated
<1> HIDE DEF q, r, d
<1>7. CASE x = Active
  <2>1. TruncatedCell(f, k, r, d, t) = ~GoneBy(r, t)
    BY <1>2, <1>6, <1>7 DEF TruncatedCell
  <2>2. q[Active] = (q[Deactivated] = NULL)
    BY <1>4 DEF RecordTold
  <2> QED
    BY <1>1, <1>5, <1>7, <2>1, <2>2 DEF q, r, n
<1>8. CASE x = Deactivated
  <2>1. TruncatedCell(f, k, r, d, t) = IF GoneBy(r, t) THEN r[Deactivated] ELSE NULL
    BY <1>2, <1>6, <1>8 DEF TruncatedCell
  <2> QED
    BY <1>1, <1>5, <1>8, <2>1 DEF q, r, n
<1>9. CASE x[1] = "ref_index"
  <2>1. TruncatedCell(f, k, r, d, t) = RefIndexAt(f, k, r, x[2], t)
    BY <1>2, <1>6, <1>9 DEF TruncatedCell
  <2>2. PICK c \in PropColumns(SpecFor(Blank, n)) : c.refs # NULL /\ x = RefIndex(c.name[2])
    BY <1>2, <1>9, TapeAssumption DEF ReferencesLaid, n
  <2>3. x[2] = c.name[2]
    BY <2>2 DEF RefIndex
  <2>4. /\ c.temporal # NULL /\ c.temporal # "slice_only" /\ c.name # PropOf(TypeProp(k))
    BY <2>2 DEF ReferencesKnown, n
  <2>5. TemporalClassAgrees(c)
    BY FormFacts, BlankForm DEF n
  <2>6. c.temporal \in {"constant", "tracked"} /\ ~ExemptDiscriminator(f, k, c.name)
    BY <2>4, <2>5 DEF TemporalClassAgrees, ExemptDiscriminator
  <2>7. RefIndexAt(f, k, r, c.name[2], t) = q[RefIndex(c.name[2])]
    BY <2>2, <2>6, IndexPast DEF q, r, n
  <2> QED
    BY <1>1, <2>1, <2>2, <2>3, <2>7 DEF q, r, n
<1>10. CASE x[1] = "prop"
  <2>1. TruncatedCell(f, k, r, d, t) = PropertyAt(f, k, r, d, t)
    BY <1>2, <1>6, <1>10 DEF TruncatedCell
  <2>2. d \in PropColumns(SpecFor(Blank, n))
    BY <1>2, <1>10, FormFacts DEF d, n
  <2>3. d.temporal # NULL
    BY <2>2 DEF ReferencesKnown, n
  <2>4. TemporalClassAgrees(d)
    BY <2>2, FormFacts, BlankForm DEF n
  <2>5. d.temporal # "slice_only"
    BY <1>2, <1>10 DEF NonExemptSliceOnly, d, n
  <2>6. d.temporal \in {"constant", "tracked"}
    BY <2>3, <2>4, <2>5 DEF TemporalClassAgrees
  <2>7. PropertyAt(f, k, r, d, t) = q[d.name]
    BY <1>2, <2>2, <2>6, PropertyPast DEF q, r, n
  <2> QED
    BY <1>1, <1>2, <2>1, <2>7 DEF q, r, n
<1>11. CASE x # Active /\ x # Deactivated /\ x[1] # "ref_index" /\ x[1] # "prop"
  <2>1. TruncatedCell(f, k, r, d, t) = r[x]
    BY <1>2, <1>11 DEF TruncatedCell
  <2>2. Steady(k, x)
    BY <1>11 DEF Steady
  <2> QED
    BY <1>1, <1>2, <1>3, <2>1, <2>2 DEF q, r, n
<1> QED
  BY <1>7, <1>8, <1>9, <1>10, <1>11

\* The records of the truncated tape are the records there were.
LEMMA RecordsPast ==
    ASSUME NEW t \in Nat, NEW g, IsTape(g, t), NEW at \in Nat, NEW f, IsTape(f, at), Grown(g, f, t),
           NEW k \in Kinds
    PROVE  LET n == RecordsOf(k)
               m == Len(g.cat[n].rows)
           IN  /\ Len(Truncated(f, t).cat[n].rows) = m
               /\ TableRows(Truncated(f, t), n) = {CutRecord(f, k, f.cat[n].rows[i], t) : i \in 1 .. m}
               /\ TableRows(g, n) = {g.cat[n].rows[i] : i \in 1 .. m}
<1> DEFINE n == RecordsOf(k)
           s == SpecFor(f, n)
           old == g.cat[n].rows
           new == f.cat[n].rows
           m == Len(old)
           kept == Until(f, n, Created, t)
           cut == Truncated(f, t)
           as(r) == CutRecord(f, k, r, t)
<1>1. /\ n \in Tables(f) /\ s.name = n /\ s.category = "records" /\ s.kind = k
      /\ TablesNamed(f) /\ (\A x \in f.specs : ColumnsNamed(f, x)) /\ RowsShaped(f, n)
  BY TapeShape, CategoryFacts, SpecFacts
<1>2. /\ m \in Nat /\ DOMAIN old = 1 .. m /\ m <= Len(new)
      /\ TableRows(g, n) = {old[i] : i \in DOMAIN old}
      /\ \A i \in DOMAIN new : new[i][Created] <= t <=> i <= m
  <2>1. /\ m \in Nat /\ DOMAIN old = 1 .. m /\ m <= Len(new)
        /\ TableRows(g, n) = {old[i] : i \in DOMAIN old}
    BY SteadyCells
  <2>2. \A i \in DOMAIN new : new[i][Created] <= t <=> i <= m
    BY SteadyCells
  <2> QED
    BY <2>1, <2>2
<1>3. cut.cat[n].rows = [i \in DOMAIN kept |-> as(kept[i])]
  <2>1. cut.cat[n].rows = TruncatedRecords(f, s, t)
    BY <1>1, CutFacts DEF TruncatedRows
  <2> QED
    BY <1>1, <2>1 DEF TruncatedRecords, CutRecord
<1>4. /\ DOMAIN kept = 1 .. m /\ \A i \in 1 .. m : kept[i] = new[i]
  <2> HIDE DEF m
  <2> QED
    BY <1>1, <1>2, UntilPrefix
<1> HIDE DEF cut, kept, as, new, old, n
<1>5. cut.cat[n].rows = [i \in 1 .. m |-> as(new[i])]
  BY <1>3, <1>4
<1>6. Len(cut.cat[n].rows) = m
  BY <1>2, <1>5
<1>7. TableRows(cut, n) = {as(new[i]) : i \in 1 .. m}
  BY <1>5 DEF TableRows, Range
<1> QED
  BY <1>2, <1>6, <1>7 DEF cut, as, new, old, n

\* A table that is not of records keeps its columns.
LEMMA OtherColumns ==
    ASSUME NEW at \in Nat, NEW f, IsTape(f, at), NEW t, NEW n \in {History, MemberTable}
    PROVE  ColumnNames(Truncated(f, t), n) = ColumnNames(f, n)
<1> DEFINE s == SpecFor(f, n)
<1>1. n \in Tables(f) /\ s \in f.specs /\ s.name = n /\ ColumnsNamed(f, s) /\ s.category # "records"
  BY TapeShape, CategoryFacts, SpecFacts
<1>2. TruncatedColumns(f, s) = s.cols /\ f.cat[n].cols = Shape(s.cols)
  BY <1>1 DEF TruncatedColumns, ColumnsNamed
<1>3. "cat" \in DOMAIN f
  BY TapeShape DEF TablesNamed
<1> HIDE DEF s
<1>4. Truncated(f, t).cat[n].cols = Shape(TruncatedColumns(f, s))
  BY <1>1, <1>3 DEF Truncated, s
<1> QED
  BY <1>2, <1>4 DEF ColumnNames

\* So the truncated tape is the tape of then.
LEMMA TapePast ==
    ASSUME NEW t \in Nat, NEW g, IsTape(g, t), PastTold(g), SameForm(g, Blank),
           now \in Nat, IsTape(emit, now), SameForm(emit, Blank), Grown(g, emit, t),
           t <= now, now <= LastTime, ReferencesKnown, NEW n \in Tables(emit)
    PROVE  LET cut == Truncated(emit, t) IN
           /\ ColumnNames(cut, n) = {c \in ColumnNames(emit, n) :
                 n[1] = "records" => ~NonExemptSliceOnly(emit, n[2], c)}
           /\ Len(cut.cat[n].rows) = Len(g.cat[n].rows)
           /\ Sameness(cut, n, ColumnNames(cut, n)) = Sameness(g, n, ColumnNames(cut, n))
<1> DEFINE cut == Truncated(emit, t)
           lost(c) == c = Mutated \/ (n[1] = "records" /\ ExemptDiscriminator(emit, n[2], c))
           seen(r) == [c \in {d \in ColumnNames(cut, n) : ~lost(d)} |-> r[c]]
<1>1. \A e : Sameness(e, n, ColumnNames(cut, n)) = {seen(r) : r \in TableRows(e, n)}
  BY DEF Sameness
<1>2. CASE n \in {History, MemberTable}
  <2>1. ColumnNames(cut, n) = ColumnNames(emit, n) /\ n[1] # "records"
    BY <1>2, OtherColumns, TapeAssumption DEF History, Membership
  <2>2. /\ TableRows(cut, n) = TableRows(g, n) /\ Len(cut.cat[n].rows) = Len(g.cat[n].rows)
    BY <1>2, HistoryPast, MembersPast
  <2> HIDE DEF cut, seen
  <2>3. Sameness(cut, n, ColumnNames(cut, n)) = Sameness(g, n, ColumnNames(cut, n))
    BY <1>1, <2>2
  <2> QED
    BY <2>1, <2>2, <2>3 DEF cut
<1>3. ASSUME NEW k \in Kinds, n = RecordsOf(k)
      PROVE  /\ ColumnNames(cut, n) = {c \in ColumnNames(emit, n) :
                   n[1] = "records" => ~NonExemptSliceOnly(emit, n[2], c)}
             /\ Len(cut.cat[n].rows) = Len(g.cat[n].rows)
             /\ Sameness(cut, n, ColumnNames(cut, n)) = Sameness(g, n, ColumnNames(cut, n))
  <2> DEFINE old(i) == g.cat[n].rows[i]
             new(i) == CutRecord(emit, k, emit.cat[n].rows[i], t)
             m == Len(g.cat[n].rows)
  <2>1. n[1] = "records" /\ n[2] = k
    BY <1>3 DEF RecordsOf
  <2>2. ColumnNames(cut, n) = CutNames(emit, k)
    BY <1>3, CutNamesFacts
  <2>3. /\ Len(cut.cat[n].rows) = m
        /\ TableRows(cut, n) = {new(i) : i \in 1 .. m}
        /\ TableRows(g, n) = {old(i) : i \in 1 .. m}
    BY <1>3, RecordsPast
  <2>4. ASSUME NEW i \in 1 .. m PROVE seen(new(i)) = seen(old(i))
    <3>1. ASSUME NEW c \in ColumnNames(cut, n), ~lost(c) PROVE new(i)[c] = old(i)[c]
      <4>1. c \in CutNames(emit, k) /\ c # Mutated /\ ~ExemptDiscriminator(emit, k, c)
        BY <2>1, <2>2, <3>1
      <4>2. i \in 1 .. Len(g.cat[RecordsOf(k)].rows)
        BY <1>3
      <4>3. CutRecord(emit, k, emit.cat[RecordsOf(k)].rows[i], t)[c] = g.cat[RecordsOf(k)].rows[i][c]
        BY <4>1, <4>2, CellPast
      <4> QED
        BY <1>3, <4>3
    <3> HIDE DEF cut, lost, new, old
    <3> QED
      BY <3>1
  <2>5. /\ \A x : x \in Sameness(cut, n, ColumnNames(cut, n)) <=> \E i \in 1 .. m : x = seen(new(i))
        /\ \A x : x \in Sameness(g, n, ColumnNames(cut, n)) <=> \E i \in 1 .. m : x = seen(old(i))
    <3> HIDE DEF cut, seen, new, old
    <3> QED
      BY <1>1, <2>3
  <2>6. Sameness(cut, n, ColumnNames(cut, n)) = Sameness(g, n, ColumnNames(cut, n))
    <3> HIDE DEF cut, seen, new, old, m
    <3>1. \A x : x \in Sameness(cut, n, ColumnNames(cut, n)) <=> x \in Sameness(g, n, ColumnNames(cut, n))
      BY <2>4, <2>5
    <3> QED
      BY <3>1 DEF Sameness
  <2>7. ColumnNames(cut, n) = {c \in ColumnNames(emit, n) :
                   n[1] = "records" => ~NonExemptSliceOnly(emit, n[2], c)}
    <3> HIDE DEF cut
    <3> QED
      BY <1>3, <2>1, <2>2 DEF CutNames
  <2> HIDE DEF cut
  <2> QED
    BY <2>3, <2>6, <2>7
<1>4. n \in {RecordsOf(k) : k \in Kinds} \cup {History, MemberTable}
  BY DEF IsTape, TablesNamed
<1> QED
  BY <1>2, <1>3, <1>4

---------------------------------------------------------------------------
(* How the past is kept.                                                   *)

LEMMA EndsLaterTrans ==
    ASSUME NEW t \in Int, NEW u \in Int, t <= u, NEW c, NEW old, NEW mid, NEW new,
           EndsLater(old, mid, c, t), EndsLater(mid, new, c, u)
    PROVE  EndsLater(old, new, c, t)
<1>1. NULL \notin Int
  BY NullFacts
<1> QED
  BY <1>1 DEF EndsLater

\* What happened after t and what happened later still happened after t.
LEMMA GrownTrans ==
    ASSUME NEW g, NEW f, NEW e, NEW at \in Nat, IsTape(f, at), IsTape(e, at),
           \A n \in {History, MemberTable} \cup {RecordsOf(k) : k \in Kinds} : Len(g.cat[n].rows) \in Nat,
           NEW t \in Int, NEW u \in Int, t <= u, Grown(g, f, t), Grown(f, e, u)
    PROVE  Grown(g, e, t)
<1> DEFINE N == {History, MemberTable} \cup {RecordsOf(k) : k \in Kinds}
<1>0. ASSUME NEW x, IsTape(x, at), NEW n \in N
      PROVE  Len(x.cat[n].rows) \in Nat /\ DOMAIN x.cat[n].rows = 1 .. Len(x.cat[n].rows)
  <2>1. TablesNamed(x) /\ \A m \in Tables(x) : RowsShaped(x, m)
    BY <1>0, TapeShape
  <2>2. n \in Tables(x)
    BY <2>1 DEF TablesNamed
  <2> QED
    BY <2>1, <2>2, TrunkFacts
<1>1. \A n \in N :
         /\ Len(f.cat[n].rows) \in Nat /\ DOMAIN f.cat[n].rows = 1 .. Len(f.cat[n].rows)
         /\ Len(e.cat[n].rows) \in Nat /\ DOMAIN e.cat[n].rows = 1 .. Len(e.cat[n].rows)
         /\ Len(g.cat[n].rows) \in Nat
  BY <1>0
<1>2. HistoryGrown(g.cat[History].rows, e.cat[History].rows, t)
  <2> DEFINE old == g.cat[History].rows
             mid == f.cat[History].rows
             new == e.cat[History].rows
  <2>1. HistoryGrown(old, mid, t) /\ HistoryGrown(mid, new, u)
    BY DEF Grown
  <2>2. /\ Len(old) \in Nat /\ Len(mid) \in Nat /\ Len(new) \in Nat
        /\ DOMAIN mid = 1 .. Len(mid) /\ DOMAIN new = 1 .. Len(new)
    BY <1>1
  <2>3. \A i \in DOMAIN new : new[i][SimTime] \in Int
    <3>1. RowsShaped(e, History)
      BY TapeShape, CategoryFacts
    <3>2. \A i \in DOMAIN new : new[i] \in TableRows(e, History)
      BY <3>1, TrunkFacts
    <3> QED
      BY <3>2 DEF IsTape, HistoryKept
  <2> HIDE DEF old, mid, new
  <2>4. ASSUME NEW i \in DOMAIN new
        PROVE  /\ i <= Len(old) => new[i] = old[i]
               /\ i > Len(old) => new[i][SimTime] > t
    <3>1. i \in Nat /\ i >= 1
      BY <2>2
    <3>2. CASE i <= Len(mid)
      <4>1. i \in DOMAIN mid /\ new[i] = mid[i]
        BY <2>1, <2>2, <3>1, <3>2 DEF HistoryGrown
      <4> QED
        BY <2>1, <4>1 DEF HistoryGrown
    <3>3. CASE ~(i <= Len(mid))
      <4>1. new[i][SimTime] > u /\ ~(i <= Len(old))
        BY <2>1, <2>2, <3>1, <3>3 DEF HistoryGrown
      <4> QED
        BY <2>3, <4>1
    <3> QED
      BY <3>2, <3>3
  <2>5. Len(old) <= Len(new)
    BY <2>1, <2>2 DEF HistoryGrown
  <2> QED
    BY <2>4, <2>5 DEF HistoryGrown, old, new
<1>3. MembersGrown(g.cat[MemberTable].rows, e.cat[MemberTable].rows, t)
  <2> DEFINE old == g.cat[MemberTable].rows
             mid == f.cat[MemberTable].rows
             new == e.cat[MemberTable].rows
             C == ColumnNames(Blank, MemberTable)
  <2>1. MembersGrown(old, mid, t) /\ MembersGrown(mid, new, u)
    BY DEF Grown
  <2>2. /\ Len(old) \in Nat /\ Len(mid) \in Nat /\ Len(new) \in Nat
        /\ DOMAIN mid = 1 .. Len(mid) /\ DOMAIN new = 1 .. Len(new)
    BY <1>1
  <2>3. \A i \in DOMAIN new : new[i][Joined] \in Int
    BY DEF IsTape, MembersKept
  <2>4. Joined \in C \ {Left}
    BY TapeAssumption DEF IsTape, MembersKept, Joined, Left
  <2> HIDE DEF old, mid, new, C
  <2>5. /\ Len(old) <= Len(mid) /\ Len(mid) <= Len(new)
        /\ \A i \in DOMAIN mid :
              /\ i <= Len(old) => (\A c \in C \ {Left} : mid[i][c] = old[i][c]) /\ EndsLater(old[i], mid[i], Left, t)
              /\ i > Len(old) => mid[i][Joined] > t
        /\ \A i \in DOMAIN new :
              /\ i <= Len(mid) => (\A c \in C \ {Left} : new[i][c] = mid[i][c]) /\ EndsLater(mid[i], new[i], Left, u)
              /\ i > Len(mid) => new[i][Joined] > u
    BY <2>1 DEF MembersGrown, C
  <2>6. ASSUME NEW i \in DOMAIN new
        PROVE  /\ i <= Len(old) => (\A c \in C \ {Left} : new[i][c] = old[i][c]) /\ EndsLater(old[i], new[i], Left, t)
               /\ i > Len(old) => new[i][Joined] > t
    <3>1. i \in Nat /\ i >= 1
      BY <2>2
    <3>2. CASE i <= Len(mid)
      <4>1. i \in DOMAIN mid /\ (\A c \in C \ {Left} : new[i][c] = mid[i][c]) /\ EndsLater(mid[i], new[i], Left, u)
        BY <2>2, <2>5, <3>1, <3>2
      <4>2. CASE i <= Len(old)
        <5>1. (\A c \in C \ {Left} : mid[i][c] = old[i][c]) /\ EndsLater(old[i], mid[i], Left, t)
          BY <2>5, <4>1, <4>2
        <5>2. EndsLater(old[i], new[i], Left, t)
          BY <4>1, <5>1, EndsLaterTrans
        <5> QED
          BY <2>2, <3>1, <4>1, <4>2, <5>1, <5>2
      <4>3. CASE ~(i <= Len(old))
        BY <2>2, <2>4, <2>5, <3>1, <4>1, <4>3
      <4> QED
        BY <4>2, <4>3
    <3>3. CASE ~(i <= Len(mid))
      <4>1. new[i][Joined] > u /\ ~(i <= Len(old))
        BY <2>2, <2>5, <3>1, <3>3
      <4> QED
        BY <2>3, <4>1
    <3> QED
      BY <3>2, <3>3
  <2>7. Len(old) <= Len(new)
    BY <2>2, <2>5
  <2> QED
    BY <2>6, <2>7 DEF MembersGrown, old, new, C
<1>4. ASSUME NEW k \in Kinds
      PROVE  RecordsGrown(k, g.cat[RecordsOf(k)].rows, e.cat[RecordsOf(k)].rows, t)
  <2> DEFINE n == RecordsOf(k)
             old == g.cat[n].rows
             mid == f.cat[n].rows
             new == e.cat[n].rows
             C == {c \in ColumnNames(Blank, n) : Steady(k, c)}
  <2>1. RecordsGrown(k, old, mid, t) /\ RecordsGrown(k, mid, new, u)
    BY DEF Grown
  <2>2. /\ Len(old) \in Nat /\ Len(mid) \in Nat /\ Len(new) \in Nat
        /\ DOMAIN mid = 1 .. Len(mid) /\ DOMAIN new = 1 .. Len(new)
    BY <1>1
  <2>3. \A i \in DOMAIN new : new[i][Created] \in Int
    BY DEF IsTape, RecordsKept
  <2>4. Created \in C
    <3>1. Created \in ColumnNames(Blank, n)
      BY TapeAssumption DEF IsTape, RecordsKept
    <3>2. Created[1] # "ref_index"
      BY DEF Created
    <3> QED
      BY <3>1, <3>2, NameFacts DEF Steady
  <2> HIDE DEF old, mid, new, C, n
  <2>5. /\ Len(old) <= Len(mid) /\ Len(mid) <= Len(new)
        /\ \A i \in DOMAIN mid :
              /\ i <= Len(old) => (\A c \in C : mid[i][c] = old[i][c]) /\ EndsLater(old[i], mid[i], Deactivated, t)
              /\ i > Len(old) => mid[i][Created] > t
        /\ \A i \in DOMAIN new :
              /\ i <= Len(mid) => (\A c \in C : new[i][c] = mid[i][c]) /\ EndsLater(mid[i], new[i], Deactivated, u)
              /\ i > Len(mid) => new[i][Created] > u
    BY <2>1 DEF RecordsGrown, C, n
  <2>6. ASSUME NEW i \in DOMAIN new
        PROVE  /\ i <= Len(old) => (\A c \in C : new[i][c] = old[i][c]) /\ EndsLater(old[i], new[i], Deactivated, t)
               /\ i > Len(old) => new[i][Created] > t
    <3>1. i \in Nat /\ i >= 1
      BY <2>2
    <3>2. CASE i <= Len(mid)
      <4>1. i \in DOMAIN mid /\ (\A c \in C : new[i][c] = mid[i][c]) /\ EndsLater(mid[i], new[i], Deactivated, u)
        BY <2>2, <2>5, <3>1, <3>2
      <4>2. CASE i <= Len(old)
        <5>1. (\A c \in C : mid[i][c] = old[i][c]) /\ EndsLater(old[i], mid[i], Deactivated, t)
          BY <2>5, <4>1, <4>2
        <5>2. EndsLater(old[i], new[i], Deactivated, t)
          BY <4>1, <5>1, EndsLaterTrans
        <5> QED
          BY <2>2, <3>1, <4>1, <4>2, <5>1, <5>2
      <4>3. CASE ~(i <= Len(old))
        BY <2>2, <2>4, <2>5, <3>1, <4>1, <4>3
      <4> QED
        BY <4>2, <4>3
    <3>3. CASE ~(i <= Len(mid))
      <4>1. new[i][Created] > u /\ ~(i <= Len(old))
        BY <2>2, <2>5, <3>1, <3>3
      <4> QED
        BY <2>3, <4>1
    <3> QED
      BY <3>2, <3>3
  <2>7. Len(old) <= Len(new)
    BY <2>2, <2>5
  <2> QED
    BY <2>6, <2>7 DEF RecordsGrown, old, new, C, n
<1> QED
  BY <1>2, <1>3, <1>4 DEF Grown

LEMMA GrownSame ==
    ASSUME NEW old, Len(old) \in Nat, DOMAIN old = 1 .. Len(old), NEW t
    PROVE  /\ HistoryGrown(old, old, t) /\ MembersGrown(old, old, t)
           /\ \A k : RecordsGrown(k, old, old, t)
BY DEF HistoryGrown, MembersGrown, RecordsGrown, EndsLater

\* A table of one tape is there in every emit of it, and so are its rows.
LEMMA ShapedTable ==
    ASSUME NEW at, NEW e, IsTape(e, at), NEW n \in {History, MemberTable} \cup {RecordsOf(k) : k \in Kinds}
    PROVE  /\ n \in Tables(e) /\ RowsShaped(e, n)
           /\ Len(e.cat[n].rows) \in Nat /\ DOMAIN e.cat[n].rows = 1 .. Len(e.cat[n].rows)
           /\ TableRows(e, n) = {e.cat[n].rows[i] : i \in DOMAIN e.cat[n].rows}
<1>1. TablesNamed(e) /\ \A m \in Tables(e) : RowsShaped(e, m)
  BY TapeShape
<1>2. n \in Tables(e)
  BY <1>1 DEF TablesNamed
<1> QED
  BY <1>1, <1>2, TrunkFacts

\* Rows put behind others.
LEMMA BehindFacts ==
    ASSUME NEW old, old \in Seq(Range(old)), NEW more, more \in Seq(Range(more))
    PROVE  /\ Len(old) \in Nat /\ Len(more) \in Nat
           /\ DOMAIN old = 1 .. Len(old) /\ DOMAIN more = 1 .. Len(more)
           /\ Len(old \o more) = Len(old) + Len(more) /\ DOMAIN (old \o more) = 1 .. Len(old) + Len(more)
           /\ \A i \in 1 .. Len(old) : (old \o more)[i] = old[i]
           /\ \A i \in 1 .. Len(old) + Len(more) : i > Len(old) =>
                 i - Len(old) \in DOMAIN more /\ (old \o more)[i] = more[i - Len(old)]
<1> DEFINE S == Range(old) \cup Range(more)
<1>1. Len(old) \in Nat /\ Len(more) \in Nat /\ DOMAIN old = 1 .. Len(old) /\ DOMAIN more = 1 .. Len(more)
  OBVIOUS
<1>2. old \in Seq(S) /\ more \in Seq(S)
  OBVIOUS
<1> HIDE DEF S
<1>3. /\ Len(old \o more) = Len(old) + Len(more)
      /\ DOMAIN (old \o more) = 1 .. Len(old) + Len(more)
      /\ \A i \in 1 .. Len(old) : (old \o more)[i] = old[i]
  BY <1>1, <1>2
<1>4. \A i \in 1 .. Len(old) + Len(more) : i > Len(old) => (old \o more)[i] = more[i - Len(old)]
  BY <1>1, <1>2
<1> QED
  BY <1>1, <1>3, <1>4

\* What a step writes, it writes now.
LEMMA AfterGrown ==
    ASSUME now \in Nat, IsTape(emit, now), NEW n \in Tables(emit), n # History, NEW rows, NEW more,
           Shaped(emit, History, more), \A h \in Range(more) : h[SimTime] = now,
           n = MemberTable => MembersGrown(Rows(n), rows, now - 1),
           \A k \in Kinds : n = RecordsOf(k) => RecordsGrown(k, Rows(n), rows, now - 1)
    PROVE  Grown(emit, After(emit, n, rows, more), now - 1)
<1> DEFINE f == After(emit, n, rows, more)
<1>1. /\ TablesNamed(emit) /\ \A s \in emit.specs : ColumnsNamed(emit, s)
      /\ \A m \in {History, MemberTable} \cup {RecordsOf(k) : k \in Kinds} :
            m \in Tables(emit) /\ RowsShaped(emit, m) /\ Len(Rows(m)) \in Nat /\ DOMAIN Rows(m) = 1 .. Len(Rows(m))
  BY TapeShape, ShapedTable DEF Rows
<1>2. \A m \in Tables(emit) :
         f.cat[m].rows = IF m = n THEN rows
                         ELSE IF m = History THEN emit.cat[m].rows \o more ELSE emit.cat[m].rows
  BY <1>1, AfterFacts
<1>3. /\ History # MemberTable
      /\ \A k \in Kinds : RecordsOf(k) # History /\ RecordsOf(k) # MemberTable
  <2>1. History # MemberTable
    BY TapeAssumption DEF History, Membership
  <2> QED
    BY <1>1, <2>1, CategoryFacts
<1> HIDE DEF f
<1>4. HistoryGrown(Rows(History), f.cat[History].rows, now - 1)
  <2> DEFINE old == Rows(History)
  <2>1. f.cat[History].rows = old \o more
    BY <1>1, <1>2 DEF Rows
  <2>2. old \in Seq(Range(old)) /\ more \in Seq(Range(more))
    BY <1>1 DEF RowsShaped, Shaped, Rows
  <2> HIDE DEF old
  <2>3. /\ Len(old) \in Nat /\ Len(more) \in Nat /\ Len(old \o more) = Len(old) + Len(more)
        /\ DOMAIN (old \o more) = 1 .. Len(old) + Len(more)
        /\ \A i \in 1 .. Len(old) : (old \o more)[i] = old[i]
        /\ \A i \in 1 .. Len(old) + Len(more) : i > Len(old) =>
              i - Len(old) \in DOMAIN more /\ (old \o more)[i] = more[i - Len(old)]
    BY <2>2, BehindFacts
  <2>4. \A i \in DOMAIN more : more[i][SimTime] = now
    BY DEF Range
  <2>5. HistoryGrown(old, old \o more, now - 1)
    <3> DEFINE all == old \o more
    <3>1. /\ Len(all) = Len(old) + Len(more) /\ DOMAIN all = 1 .. Len(old) + Len(more)
          /\ \A i \in 1 .. Len(old) : all[i] = old[i]
          /\ \A i \in 1 .. Len(old) + Len(more) : i > Len(old) => all[i][SimTime] = now
      BY <2>3, <2>4
    <3> HIDE DEF all
    <3>2. HistoryGrown(old, all, now - 1)
      BY <2>3, <3>1 DEF HistoryGrown
    <3> QED
      BY <3>2 DEF all
  <2> QED
    BY <2>1, <2>5 DEF old
<1>5. MembersGrown(Rows(MemberTable), f.cat[MemberTable].rows, now - 1)
  <2>1. CASE n = MemberTable
    BY <1>2, <2>1
  <2>2. CASE n # MemberTable
    <3>1. f.cat[MemberTable].rows = Rows(MemberTable)
      BY <1>1, <1>2, <1>3, <2>2 DEF Rows
    <3> QED
      BY <1>1, <3>1, GrownSame
  <2> QED
    BY <2>1, <2>2
<1>6. ASSUME NEW k \in Kinds
      PROVE  RecordsGrown(k, Rows(RecordsOf(k)), f.cat[RecordsOf(k)].rows, now - 1)
  <2>1. CASE n = RecordsOf(k)
    BY <1>2, <2>1
  <2>2. CASE n # RecordsOf(k)
    <3>1. f.cat[RecordsOf(k)].rows = Rows(RecordsOf(k))
      BY <1>1, <1>2, <1>3, <2>2 DEF Rows
    <3> QED
      BY <1>1, <3>1, GrownSame
  <2> QED
    BY <2>1, <2>2
<1> QED
  BY <1>4, <1>5, <1>6 DEF Grown, Rows, f

LEMMA AfterForm ==
    ASSUME NEW at, IsTape(emit, at), SameForm(emit, Blank), NEW n \in Tables(emit), NEW rows, NEW more
    PROVE  SameForm(After(emit, n, rows, more), Blank)
<1> DEFINE f == After(emit, n, rows, more)
<1>1. /\ Trunk(f) = Trunk(emit) /\ (\A k : SubTypes(f, k) = SubTypes(emit, k)) /\ Tables(f) = Tables(emit)
      /\ \A m \in Tables(emit) :
            SpecFor(f, m).cols = SpecFor(emit, m).cols /\ ColumnNames(f, m) = ColumnNames(emit, m)
  BY TapeShape, AfterFacts
<1> HIDE DEF f
<1>2. SameForm(f, Blank)
  BY <1>1 DEF SameForm
<1> QED
  BY <1>2 DEF f

---------------------------------------------------------------------------
(* What an emit tells of its own past, it tells after the next step.       *)

\* No record goes away, and none changes its index.
Persisting(e, f) == \A k \in Kinds : \A r \in TableRows(e, RecordsOf(k)) :
    \E q \in TableRows(f, RecordsOf(k)) : q[RecordId] = r[RecordId] /\ q[RecordIndex] = r[RecordIndex]

LEMMA RecordsPersist ==
    ASSUME NEW at, NEW e, IsTape(e, at), NEW f, IsTape(f, at), NEW t, Grown(e, f, t)
    PROVE  Persisting(e, f)
<1> SUFFICES ASSUME NEW k \in Kinds, NEW r \in TableRows(e, RecordsOf(k))
             PROVE  \E q \in TableRows(f, RecordsOf(k)) :
                       q[RecordId] = r[RecordId] /\ q[RecordIndex] = r[RecordIndex]
  BY DEF Persisting
<1> DEFINE old == e.cat[RecordsOf(k)].rows
           new == f.cat[RecordsOf(k)].rows
<1>1. /\ Len(old) \in Nat /\ DOMAIN old = 1 .. Len(old)
      /\ TableRows(e, RecordsOf(k)) = {old[i] : i \in DOMAIN old}
  BY ShapedTable
<1>2. /\ Len(new) \in Nat /\ DOMAIN new = 1 .. Len(new)
      /\ TableRows(f, RecordsOf(k)) = {new[i] : i \in DOMAIN new}
  BY ShapedTable
<1>3. RecordsGrown(k, old, new, t)
  BY DEF Grown
<1>4. {RecordId, RecordIndex} \subseteq {c \in ColumnNames(Blank, RecordsOf(k)) : Steady(k, c)}
  <2>1. {RecordId, RecordIndex} \subseteq ColumnNames(Blank, RecordsOf(k))
    BY TapeAssumption DEF IsTape, RecordsKept
  <2>2. RecordId[1] # "ref_index" /\ RecordIndex[1] # "ref_index"
    BY DEF RecordId, RecordIndex
  <2> QED
    BY <2>1, <2>2, NameFacts DEF Steady
<1> HIDE DEF old, new
<1>5. PICK i \in DOMAIN old : r = old[i]
  BY <1>1
<1>6. i \in DOMAIN new /\ i <= Len(old)
  BY <1>1, <1>2, <1>3 DEF RecordsGrown
<1>7. new[i][RecordId] = old[i][RecordId] /\ new[i][RecordIndex] = old[i][RecordIndex]
  BY <1>3, <1>4, <1>6 DEF RecordsGrown
<1> QED
  BY <1>2, <1>5, <1>6, <1>7

\* The series of history after a step.
LEMMA AfterSeries ==
    ASSUME NEW at \in Nat, IsTape(emit, at), NEW n \in Tables(emit), n # History, NEW rows, NEW more,
           Shaped(emit, History, more), IsTape(After(emit, n, rows, more), at)
    PROVE  LET f == After(emit, n, rows, more) IN
           /\ TableRows(f, History) = TableRows(emit, History) \cup Range(more)
           /\ \A k, p, id : Series(f, k, p, id) = Series(emit, k, p, id) \cup
                 {h \in Range(more) : h[Kind] = k /\ h[Property] = p /\ h[RecordId] = id}
<1> DEFINE f == After(emit, n, rows, more)
           old == Rows(History)
           all == f.cat[History].rows
<1>1. /\ TablesNamed(emit) /\ (\A s \in emit.specs : ColumnsNamed(emit, s))
      /\ History \in Tables(emit) /\ RowsShaped(emit, History)
  BY TapeShape, CategoryFacts
<1>2. all = old \o more
  <2>1. \A m \in Tables(emit) :
           f.cat[m].rows = IF m = n THEN rows
                           ELSE IF m = History THEN emit.cat[m].rows \o more ELSE emit.cat[m].rows
    BY <1>1, AfterFacts
  <2> HIDE DEF f
  <2> QED
    BY <1>1, <2>1 DEF Rows
<1>3. old \in Seq(Range(old)) /\ more \in Seq(Range(more))
  BY <1>1 DEF RowsShaped, Shaped, Rows
<1>4. TableRows(f, History) = Range(all) /\ TableRows(emit, History) = Range(old)
  BY DEF TableRows, Rows
<1> HIDE DEF old, f, all
<1>5. /\ Len(old) \in Nat /\ Len(more) \in Nat
      /\ DOMAIN old = 1 .. Len(old) /\ DOMAIN more = 1 .. Len(more)
      /\ DOMAIN all = 1 .. Len(old) + Len(more)
      /\ \A i \in 1 .. Len(old) : all[i] = old[i]
      /\ \A i \in 1 .. Len(old) + Len(more) : i > Len(old) =>
            i - Len(old) \in DOMAIN more /\ all[i] = more[i - Len(old)]
  BY <1>2, <1>3, BehindFacts
<1>6. ASSUME NEW h \in Range(all) PROVE h \in Range(old) \cup Range(more)
  <2>1. PICK i \in DOMAIN all : h = all[i]
    BY DEF Range
  <2> QED
    BY <1>5, <2>1 DEF Range
<1>7. ASSUME NEW h \in Range(old) PROVE h \in Range(all)
  <2>1. PICK i \in DOMAIN old : h = old[i]
    BY DEF Range
  <2>2. i \in DOMAIN all /\ all[i] = h
    BY <1>5, <2>1
  <2> QED
    BY <2>2 DEF Range
<1>8. ASSUME NEW h \in Range(more) PROVE h \in Range(all)
  <2>1. PICK i \in DOMAIN more : h = more[i]
    BY DEF Range
  <2>2. Len(old) + i \in DOMAIN all /\ Len(old) + i > Len(old) /\ Len(old) + i - Len(old) = i
    BY <1>5
  <2>3. all[Len(old) + i] = h
    BY <1>5, <2>1, <2>2
  <2> QED
    BY <2>2, <2>3 DEF Range
<1>9. Range(all) = Range(old) \cup Range(more)
  BY <1>6, <1>7, <1>8
<1>10. ASSUME NEW k, NEW p, NEW id
       PROVE  Series(f, k, p, id) = Series(emit, k, p, id) \cup
                 {h \in Range(more) : h[Kind] = k /\ h[Property] = p /\ h[RecordId] = id}
  <2>1. Series(f, k, p, id) = {h \in TableRows(f, History) :
                 h[Kind] = k /\ h[Property] = p /\ h[RecordId] = id}
    BY SeriesFacts DEF f
  <2>2. Series(emit, k, p, id) = {h \in TableRows(emit, History) :
                 h[Kind] = k /\ h[Property] = p /\ h[RecordId] = id}
    BY SeriesFacts
  <2> QED
    BY <1>4, <1>9, <2>1, <2>2
<1> QED
  BY <1>4, <1>9, <1>10 DEF f

\* The last value is the latest.
LEMMA AsOfNewest ==
    ASSUME NEW e, NEW k, NEW p, NEW id, NEW at \in Nat, at <= LastTime, NEW old, NEW h,
           Series(e, k, p, id) = old \cup {h}, h[SimTime] = at,
           \A g \in old : g[SimTime] \in Int /\ g[SimTime] < at
    PROVE  AsOf(e, k, p, id, LastTime) = h[Value]
<1> DEFINE S == Series(e, k, p, id)
           L == {g \in S : g[SimTime] <= LastTime}
           T == {g[SimTime] : g \in L}
<1>1. LastTime \in Nat
  BY TapeAssumption
<1>2. L = S
  BY <1>1
<1>3. at \in T /\ \A u \in T : u \in Int /\ u <= at
  BY <1>2
<1>4. AsOf(e, k, p, id, LastTime) = ValueAt(S, Greatest(T))
  BY DEF AsOf
<1> HIDE DEF T, S, L
<1>5. T \ {NULL} = T
  BY <1>3, NullFacts
<1>6. Greatest(T) = at
  <2>1. Greatest(T) = CHOOSE t \in T : \A u \in T : u <= t
    BY <1>3, <1>5 DEF Greatest
  <2>2. \A t \in T : (\A u \in T : u <= t) => t = at
    BY <1>3
  <2> QED
    BY <1>3, <2>1, <2>2
<1>7. {g \in S : g[SimTime] = at} = {h}
  BY DEF S
<1>8. ValueAt(S, at) = h[Value]
  BY <1>7 DEF ValueAt, ValueOf
<1> QED
  BY <1>4, <1>6, <1>8

\* The text of what may be written is read back as it was.
LEMMA ReadsBack ==
    ASSUME NEW k \in Kinds, NEW c \in PropColumns(SpecFor(Blank, RecordsOf(k))), c.tracked = TRUE,
           NEW v, c.refs = NULL => v \in ValuesOf(k, c.name[2]) \cup SeedsOf(k, c.name[2])
    PROVE  TryCast(IF v = NULL THEN NULL ELSE ToText(v, c.type), c.type) = v
<1>1. CASE v = NULL
  BY <1>1 DEF TryCast
<1>2. CASE v # NULL /\ c.refs = NULL
  BY <1>2, TapeAssumption DEF ValuesReadBack
<1>3. CASE v # NULL /\ c.refs # NULL
  <2>1. c.type = "VARCHAR"
    BY <1>3, TapeAssumption DEF ReferencesLaid
  <2>2. ToText(v, "VARCHAR") = v
    BY DEF ToText
  <2>3. TryCast(v, "VARCHAR") = v
    BY <1>3 DEF TryCast
  <2> QED
    BY <1>3, <2>1, <2>2, <2>3
<1> QED
  BY <1>1, <1>2, <1>3

\* A record tells of a property what it told, where nothing of it has changed.
LEMMA StillTold ==
    ASSUME NEW at, NEW e, IsTape(e, at), SameForm(e, Blank), NEW f, SameForm(f, Blank), Persisting(e, f),
           NEW k \in Kinds, NEW c \in PropColumns(SpecFor(Blank, RecordsOf(k))),
           NEW r, NEW q, q[RecordId] = r[RecordId], q[c.name] = r[c.name],
           c.refs # NULL => q[RefIndex(c.name[2])] = r[RefIndex(c.name[2])],
           Series(f, k, c.name[2], r[RecordId]) = Series(e, k, c.name[2], r[RecordId]),
           ValueTold(e, k, r, c), ReferenceTold(e, r, c)
    PROVE  ValueTold(f, k, q, c) /\ ReferenceTold(f, q, c)
<1>1. AsOf(f, k, c.name[2], q[RecordId], LastTime) = AsOf(e, k, c.name[2], r[RecordId], LastTime)
  BY DEF AsOf
<1>2. ValueTold(f, k, q, c)
  BY <1>1 DEF ValueTold
<1>3. ReferenceTold(f, q, c)
  <2> SUFFICES ASSUME c.refs # NULL
               PROVE  \/ q[c.name] = NULL /\ q[RefIndex(c.name[2])] = NULL
                      \/ \E x \in TableRows(f, RecordsOf(c.refs)) :
                            x[RecordId] = q[c.name] /\ x[RecordIndex] = q[RefIndex(c.name[2])]
    BY DEF ReferenceTold
  <2>1. c.refs \in Kinds
    BY TapeAssumption DEF ReferencesLaid
  <2>2. CASE r[c.name] = NULL /\ r[RefIndex(c.name[2])] = NULL
    BY <2>2
  <2>3. ASSUME NEW x \in TableRows(e, RecordsOf(c.refs)),
               x[RecordId] = r[c.name] /\ x[RecordIndex] = r[RefIndex(c.name[2])]
        PROVE  \E y \in TableRows(f, RecordsOf(c.refs)) :
                  y[RecordId] = q[c.name] /\ y[RecordIndex] = q[RefIndex(c.name[2])]
    <3>1. PICK y \in TableRows(f, RecordsOf(c.refs)) : y[RecordId] = x[RecordId] /\ y[RecordIndex] = x[RecordIndex]
      BY <2>1 DEF Persisting
    <3> QED
      BY <2>3, <3>1
  <2> QED
    BY <2>2, <2>3 DEF ReferenceTold
<1> QED
  BY <1>2, <1>3

\* A reference that is written names a record there is, and so does its index.
LEMMA IndexTold ==
    ASSUME NEW f, Persisting(emit, f), NEW k \in Kinds, NEW v, v = NULL \/ v \in Existing(k)
    PROVE  \/ v = NULL /\ IndexOf(k, v) = NULL
           \/ \E q \in TableRows(f, RecordsOf(k)) : q[RecordId] = v /\ q[RecordIndex] = IndexOf(k, v)
<1>1. CASE v = NULL
  BY <1>1 DEF IndexOf
<1>2. CASE v # NULL /\ v \in Existing(k)
  <2> DEFINE r == CHOOSE r \in Records(k) : r[RecordId] = v
  <2>1. r \in Records(k) /\ r[RecordId] = v
    BY <1>2 DEF Existing
  <2>2. IndexOf(k, v) = r[RecordIndex]
    BY <1>2 DEF IndexOf
  <2> HIDE DEF r
  <2>3. r \in TableRows(emit, RecordsOf(k))
    BY <2>1 DEF Records, TableRows
  <2> QED
    BY <2>1, <2>2, <2>3 DEF Persisting
<1> QED
  BY <1>1, <1>2

\* What is added to history is of a record, and in an instant without a row of its own.
LEMMA HistoryStays ==
    ASSUME HistoryTold(emit), NEW f, Persisting(emit, f), NEW more,
           TableRows(f, History) = TableRows(emit, History) \cup more,
           \A h \in more :
              /\ h[Kind] \in Kinds
              /\ \E r \in TableRows(f, RecordsOf(h[Kind])) : r[RecordId] = h[RecordId]
              /\ \A g \in TableRows(emit, History) \cup more :
                    (\A x \in {Kind, Property, RecordId, SimTime} : g[x] = h[x]) => g = h
    PROVE  HistoryTold(f)
<1> SUFFICES ASSUME NEW h \in TableRows(f, History)
             PROVE  /\ h[Kind] \in Kinds
                    /\ \E r \in TableRows(f, RecordsOf(h[Kind])) : r[RecordId] = h[RecordId]
                    /\ \A g \in TableRows(f, History) :
                          (\A x \in {Kind, Property, RecordId, SimTime} : g[x] = h[x]) => g = h
  BY DEF HistoryTold
<1>1. CASE h \in more
  BY <1>1
<1>2. CASE h \in TableRows(emit, History)
  <2>1. h[Kind] \in Kinds
    BY <1>2 DEF HistoryTold
  <2>2. PICK r \in TableRows(emit, RecordsOf(h[Kind])) : r[RecordId] = h[RecordId]
    BY <1>2 DEF HistoryTold
  <2>3. \E q \in TableRows(f, RecordsOf(h[Kind])) : q[RecordId] = h[RecordId]
    BY <2>1, <2>2 DEF Persisting
  <2>4. ASSUME NEW g \in TableRows(f, History), \A x \in {Kind, Property, RecordId, SimTime} : g[x] = h[x]
        PROVE  g = h
    <3>1. CASE g \in TableRows(emit, History)
      BY <1>2, <2>4, <3>1 DEF HistoryTold
    <3>2. CASE g \in more
      <4>1. \A x \in {Kind, Property, RecordId, SimTime} : h[x] = g[x]
        BY <2>4
      <4> QED
        BY <1>2, <3>2, <4>1
    <3> QED
      BY <3>1, <3>2
  <2> QED
    BY <2>1, <2>3, <2>4
<1> QED
  BY <1>1, <1>2

\* Records that no step touched tell what they told.
LEMMA KindUntouched ==
    ASSUME PastTold(emit), NEW at, IsTape(emit, at), SameForm(emit, Blank),
           NEW f, IsTape(f, at), SameForm(f, Blank), Persisting(emit, f), NEW k \in Kinds,
           f.cat[RecordsOf(k)].rows = emit.cat[RecordsOf(k)].rows,
           \A p, id : Series(f, k, p, id) = Series(emit, k, p, id),
           NEW q \in TableRows(f, RecordsOf(k))
    PROVE  RecordTold(f, k, q)
<1>1. q \in TableRows(emit, RecordsOf(k))
  BY DEF TableRows
<1>2. RecordTold(emit, k, q)
  BY <1>1 DEF PastTold
<1>3. /\ PropColumns(SpecFor(f, RecordsOf(k))) = PropColumns(SpecFor(Blank, RecordsOf(k)))
      /\ PropColumns(SpecFor(emit, RecordsOf(k))) = PropColumns(SpecFor(Blank, RecordsOf(k)))
  BY FormFacts
<1>4. ASSUME NEW c \in PropColumns(SpecFor(Blank, RecordsOf(k)))
      PROVE  ValueTold(f, k, q, c) /\ ReferenceTold(f, q, c)
  <2>1. ValueTold(emit, k, q, c) /\ ReferenceTold(emit, q, c)
    BY <1>2, <1>3 DEF RecordTold
  <2> QED
    BY <2>1, StillTold
<1> QED
  BY <1>2, <1>3, <1>4 DEF RecordTold

LEMMA UpdatedFacts ==
    ASSUME now \in Nat, IsTape(emit, now), NEW k \in Kinds, NEW id, NEW cells
    PROVE  LET rows == Rows(RecordsOf(k))
               all  == Updated(k, id, cells)
           IN  /\ Len(rows) \in Nat /\ DOMAIN rows = 1 .. Len(rows)
               /\ DOMAIN all = 1 .. Len(rows) /\ Len(all) = Len(rows)
               /\ \A i \in DOMAIN rows :
                     /\ rows[i][RecordId] # id => all[i] = rows[i]
                     /\ rows[i][RecordId] = id => \A x \in ColumnNames(emit, RecordsOf(k)) :
                           all[i][x] = IF x = Mutated THEN now
                                       ELSE IF x \in DOMAIN cells THEN cells[x] ELSE rows[i][x]
<1> DEFINE rows == Rows(RecordsOf(k))
           all == Updated(k, id, cells)
           C == ColumnNames(emit, RecordsOf(k))
           written(i) == [x \in DOMAIN rows[i] |->
                            IF x = Mutated THEN now ELSE IF x \in DOMAIN cells THEN cells[x] ELSE rows[i][x]]
<1>1. Len(rows) \in Nat /\ DOMAIN rows = 1 .. Len(rows) /\ RowsShaped(emit, RecordsOf(k))
  BY ShapedTable DEF Rows
<1>2. all = [i \in DOMAIN rows |-> IF rows[i][RecordId] # id THEN rows[i] ELSE written(i)]
  BY DEF Updated
<1>3. \A i \in DOMAIN rows : DOMAIN rows[i] = C
  <2>1. \A r \in Range(rows) : r = [c \in C |-> r[c]]
    BY <1>1 DEF RowsShaped, Rows
  <2> HIDE DEF rows, C
  <2>2. \A i \in DOMAIN rows : rows[i] = [c \in C |-> rows[i][c]]
    BY <2>1 DEF Range
  <2> QED
    BY <2>2
<1> HIDE DEF rows, all, C
<1>4. DOMAIN all = 1 .. Len(rows) /\ Len(all) = Len(rows)
  BY <1>1, <1>2
<1>5. ASSUME NEW i \in DOMAIN rows, rows[i][RecordId] = id, NEW x \in C
      PROVE  all[i][x] = IF x = Mutated THEN now ELSE IF x \in DOMAIN cells THEN cells[x] ELSE rows[i][x]
  <2>1. all[i] = written(i)
    BY <1>2, <1>5
  <2> QED
    BY <1>3, <1>5, <2>1
<1>6. \A i \in DOMAIN rows : rows[i][RecordId] # id => all[i] = rows[i]
  BY <1>2
<1> QED
  BY <1>1, <1>4, <1>5, <1>6 DEF rows, all, C

LEMMA UpdatedGrown ==
    ASSUME now \in Nat, IsTape(emit, now), SameForm(emit, Blank), NEW k \in Kinds, NEW id, NEW cells,
           \A x \in DOMAIN cells : ~Steady(k, x),
           Deactivated \in DOMAIN cells =>
              /\ cells[Deactivated] = now
              /\ \A i \in DOMAIN Rows(RecordsOf(k)) :
                    Rows(RecordsOf(k))[i][RecordId] = id => Rows(RecordsOf(k))[i][Deactivated] = NULL
    PROVE  RecordsGrown(k, Rows(RecordsOf(k)), Updated(k, id, cells), now - 1)
<1> DEFINE rows == Rows(RecordsOf(k))
           all == Updated(k, id, cells)
           C == ColumnNames(emit, RecordsOf(k))
<1>1. /\ Len(rows) \in Nat /\ DOMAIN rows = 1 .. Len(rows)
      /\ DOMAIN all = 1 .. Len(rows) /\ Len(all) = Len(rows)
      /\ \A i \in DOMAIN rows :
            /\ rows[i][RecordId] # id => all[i] = rows[i]
            /\ rows[i][RecordId] = id => \A x \in C :
                  all[i][x] = IF x = Mutated THEN now
                              ELSE IF x \in DOMAIN cells THEN cells[x] ELSE rows[i][x]
  BY UpdatedFacts
<1>2. C = ColumnNames(Blank, RecordsOf(k))
  BY FormFacts
<1>3. Deactivated \in C /\ Deactivated # Mutated /\ ~Steady(k, Mutated)
  BY NameFacts DEF IsTape, RecordsKept, Steady
<1>4. \A i \in DOMAIN rows :
         Deactivated \in DOMAIN cells /\ rows[i][RecordId] = id => rows[i][Deactivated] = NULL
  OBVIOUS
<1> HIDE DEF rows, all, C
<1>5. ASSUME NEW i \in DOMAIN rows
      PROVE  /\ \A c \in C : Steady(k, c) => all[i][c] = rows[i][c]
             /\ EndsLater(rows[i], all[i], Deactivated, now - 1)
  <2>1. CASE rows[i][RecordId] # id
    BY <1>1, <2>1 DEF EndsLater
  <2>2. CASE rows[i][RecordId] = id
    <3>1. \A x \in C : all[i][x] = IF x = Mutated THEN now
                                    ELSE IF x \in DOMAIN cells THEN cells[x] ELSE rows[i][x]
      BY <1>1, <2>2
    <3>2. \A c \in C : Steady(k, c) => all[i][c] = rows[i][c]
      BY <1>3, <3>1
    <3>3. CASE Deactivated \in DOMAIN cells
      <4>1. rows[i][Deactivated] = NULL /\ all[i][Deactivated] = now
        BY <1>3, <1>4, <2>2, <3>1, <3>3
      <4> QED
        BY <3>2, <4>1 DEF EndsLater
    <3>4. CASE Deactivated \notin DOMAIN cells
      BY <1>3, <3>1, <3>2, <3>4 DEF EndsLater
    <3> QED
      BY <3>3, <3>4
  <2> QED
    BY <2>1, <2>2
<1>6. RecordsGrown(k, rows, all, now - 1)
  BY <1>1, <1>2, <1>5 DEF RecordsGrown
<1> QED
  BY <1>6 DEF rows, all

\* What every step leaves as it was.
LEMMA StepFacts ==
    ASSUME now \in Nat, IsTape(emit, now), SameForm(emit, Blank),
           NEW n \in Tables(emit), n # History, NEW rows, NEW more,
           Shaped(emit, History, more), \A h \in Range(more) : h[SimTime] = now,
           n = MemberTable => MembersGrown(Rows(n), rows, now - 1),
           \A k \in Kinds : n = RecordsOf(k) => RecordsGrown(k, Rows(n), rows, now - 1),
           NEW f, f = After(emit, n, rows, more), IsTape(f, now)
    PROVE  /\ Grown(emit, f, now - 1) /\ SameForm(f, Blank) /\ Persisting(emit, f)
           /\ TableRows(f, History) = TableRows(emit, History) \cup Range(more)
           /\ \A k, p, id : Series(f, k, p, id) = Series(emit, k, p, id) \cup
                 {h \in Range(more) : h[Kind] = k /\ h[Property] = p /\ h[RecordId] = id}
           /\ \A k \in Kinds :
                 /\ n = RecordsOf(k) => f.cat[RecordsOf(k)].rows = rows
                 /\ n # RecordsOf(k) => f.cat[RecordsOf(k)].rows = emit.cat[RecordsOf(k)].rows
<1>1. Grown(emit, f, now - 1)
  BY AfterGrown
<1>2. SameForm(f, Blank)
  BY AfterForm
<1>3. Persisting(emit, f)
  BY <1>1, RecordsPersist
<1>4. /\ TableRows(f, History) = TableRows(emit, History) \cup Range(more)
      /\ \A k, p, id : Series(f, k, p, id) = Series(emit, k, p, id) \cup
            {h \in Range(more) : h[Kind] = k /\ h[Property] = p /\ h[RecordId] = id}
  <2> DEFINE g == After(emit, n, rows, more)
  <2>1. f = g /\ IsTape(g, now)
    OBVIOUS
  <2>2. TableRows(g, History) = TableRows(emit, History) \cup Range(more)
    BY <2>1, AfterSeries
  <2>3. \A k, p, id : Series(g, k, p, id) = Series(emit, k, p, id) \cup
            {h \in Range(more) : h[Kind] = k /\ h[Property] = p /\ h[RecordId] = id}
    BY <2>1, AfterSeries
  <2> HIDE DEF g
  <2> QED
    BY <2>1, <2>2, <2>3
<1>5. \A m \in Tables(emit) :
         f.cat[m].rows = IF m = n THEN rows
                         ELSE IF m = History THEN emit.cat[m].rows \o more ELSE emit.cat[m].rows
  BY TapeShape, AfterFacts
<1>6. \A k \in Kinds : RecordsOf(k) \in Tables(emit) /\ RecordsOf(k) # History
  BY TapeShape, KindFacts
<1> QED
  BY <1>1, <1>2, <1>3, <1>4, <1>5, <1>6

\* Whom a step finds alive has no end yet.
LEMMA AliveFacts ==
    ASSUME now \in Nat, IsTape(emit, now), PastTold(emit), NEW k \in Kinds, NEW id \in Alive(k),
           NEW i \in DOMAIN Rows(RecordsOf(k)), Rows(RecordsOf(k))[i][RecordId] = id
    PROVE  Rows(RecordsOf(k))[i][Deactivated] = NULL
<1> DEFINE rows == Rows(RecordsOf(k))
<1>1. TableRows(emit, RecordsOf(k)) = {rows[j] : j \in DOMAIN rows}
  BY ShapedTable DEF Rows
<1>2. Records(k) = TableRows(emit, RecordsOf(k))
  BY DEF Records, TableRows
<1>3. \A j, l \in DOMAIN rows : rows[j][RecordId] = rows[l][RecordId] => j = l
  BY DEF IsTape, RecordsKept, Rows
<1>4. PICK r \in Records(k) : r[RecordId] = id /\ r[Active]
  BY DEF Alive
<1>5. \A q \in TableRows(emit, RecordsOf(k)) : q[Active] = (q[Deactivated] = NULL)
  BY DEF PastTold, RecordTold
<1> HIDE DEF rows
<1>6. r = rows[i]
  BY <1>1, <1>2, <1>3, <1>4 DEF rows
<1> QED
  BY <1>2, <1>4, <1>5, <1>6 DEF rows

LEMMA NothingMore ==
    ASSUME NEW none, none = {}, NEW e, NEW f,
           TableRows(f, History) = TableRows(e, History) \cup none,
           \A j, p, x : Series(f, j, p, x) = Series(e, j, p, x) \cup
                {h \in none : h[Kind] = j /\ h[Property] = p /\ h[RecordId] = x}
    PROVE  /\ TableRows(f, History) = TableRows(e, History)
           /\ \A j, p, x : Series(f, j, p, x) = Series(e, j, p, x)
<1>1. ASSUME NEW j, NEW p, NEW x PROVE Series(f, j, p, x) = Series(e, j, p, x)
  <2>1. {h \in none : h[Kind] = j /\ h[Property] = p /\ h[RecordId] = x} = {}
    OBVIOUS
  <2>2. Series(f, j, p, x) = Series(e, j, p, x) \cup
                {h \in none : h[Kind] = j /\ h[Property] = p /\ h[RecordId] = x}
    OBVIOUS
  <2> QED
    BY <2>1, <2>2
<1> QED
  BY <1>1

LEMMA SameHistory ==
    ASSUME HistoryTold(emit), NEW f, Persisting(emit, f), TableRows(f, History) = TableRows(emit, History)
    PROVE  HistoryTold(f)
<1>1. ASSUME NEW h \in TableRows(f, History)
      PROVE  h[Kind] \in Kinds /\ \E q \in TableRows(f, RecordsOf(h[Kind])) : q[RecordId] = h[RecordId]
  <2>1. PICK r \in TableRows(emit, RecordsOf(h[Kind])) : r[RecordId] = h[RecordId]
    BY DEF HistoryTold
  <2> QED
    BY <2>1 DEF HistoryTold, Persisting
<1> QED
  BY <1>1 DEF HistoryTold

LEMMA DeactivatePast ==
    ASSUME now \in Nat, IsTape(emit, now), SameForm(emit, Blank), PastTold(emit),
           NEW k \in Kinds, Deactivate(k)
    PROVE  PastTold(emit') /\ SameForm(emit', Blank) /\ Grown(emit, emit', now - 1)
<1> DEFINE n == RecordsOf(k)
           rows == Rows(n)
           C == ColumnNames(emit, n)
<1>1. PICK id \in Alive(k) : emit' = After(emit, n, Updated(k, id, Gone), <<>>)
  BY WrittenAfter DEF Deactivate
<1> DEFINE all == Updated(k, id, Gone)
<1>2. IsTape(emit', now)
  BY DeactivateKeeps
<1>3. /\ DOMAIN Gone = {Active, Deactivated} /\ Gone[Deactivated] = now /\ Gone[Active] = FALSE
      /\ \A x \in DOMAIN Gone : ~Steady(k, x)
  BY NameFacts DEF Gone, Steady
<1>4. \A i \in DOMAIN rows : rows[i][RecordId] = id => rows[i][Deactivated] = NULL
  BY AliveFacts
<1>5. RecordsGrown(k, rows, all, now - 1)
  BY <1>3, <1>4, UpdatedGrown
<1>6. /\ n \in Tables(emit) /\ n # History /\ n # MemberTable /\ \A j : n = RecordsOf(j) => j = k
  BY TapeShape, KindFacts
<1>7. Range(<<>>) = {} /\ Shaped(emit, History, <<>>)
  BY NoMore DEF Range
<1> HIDE DEF n, rows, all, C
<1>8. /\ Grown(emit, emit', now - 1) /\ SameForm(emit', Blank) /\ Persisting(emit, emit')
      /\ TableRows(emit', History) = TableRows(emit, History) \cup Range(<<>>)
      /\ \A j, p, x : Series(emit', j, p, x) = Series(emit, j, p, x) \cup
            {h \in Range(<<>>) : h[Kind] = j /\ h[Property] = p /\ h[RecordId] = x}
      /\ \A j \in Kinds :
            /\ n = RecordsOf(j) => emit'.cat[RecordsOf(j)].rows = all
            /\ n # RecordsOf(j) => emit'.cat[RecordsOf(j)].rows = emit.cat[RecordsOf(j)].rows
  <2>1. \A h \in Range(<<>>) : h[SimTime] = now
    BY <1>7
  <2>2. \A j \in Kinds : n = RecordsOf(j) => RecordsGrown(j, Rows(n), all, now - 1)
    BY <1>5, <1>6 DEF rows
  <2>3. emit' = After(emit, n, all, <<>>)
    BY <1>1 DEF n, all
  <2> QED
    BY <1>2, <1>6, <1>7, <2>1, <2>2, <2>3, StepFacts
<1>9. /\ TableRows(emit', History) = TableRows(emit, History)
      /\ \A j, p, x : Series(emit', j, p, x) = Series(emit, j, p, x)
  <2> DEFINE none == Range(<<>>)
  <2>1. /\ TableRows(emit', History) = TableRows(emit, History) \cup none
        /\ \A j, p, x : Series(emit', j, p, x) = Series(emit, j, p, x) \cup
              {h \in none : h[Kind] = j /\ h[Property] = p /\ h[RecordId] = x}
    BY <1>8
  <2>2. none = {}
    BY <1>7
  <2> HIDE DEF none
  <2> QED
    BY ONLY <2>1, <2>2, NothingMore
<1>10. HistoryTold(emit')
  BY <1>8, <1>9, SameHistory DEF PastTold
<1>11. ASSUME NEW q \in TableRows(emit', n) PROVE RecordTold(emit', k, q)
  <2>1. /\ Len(rows) \in Nat /\ DOMAIN rows = 1 .. Len(rows) /\ DOMAIN all = 1 .. Len(rows)
        /\ \A i \in DOMAIN rows :
              /\ rows[i][RecordId] # id => all[i] = rows[i]
              /\ rows[i][RecordId] = id => \A x \in C :
                    all[i][x] = IF x = Mutated THEN now
                                ELSE IF x \in DOMAIN Gone THEN Gone[x] ELSE rows[i][x]
    BY UpdatedFacts DEF rows, all, C, n
  <2>2. PICK i \in DOMAIN rows : q = all[i]
    <3>1. emit'.cat[n].rows = all
      BY <1>8 DEF n
    <3> QED
      BY <2>1, <3>1 DEF TableRows, Range
  <2> DEFINE r == rows[i]
  <2>3. r \in TableRows(emit, n) /\ RecordTold(emit, k, r)
    <3>1. r \in TableRows(emit, n)
      BY DEF rows, Rows, TableRows, Range
    <3> QED
      BY <3>1 DEF PastTold, n
  <2>4. /\ PropColumns(SpecFor(emit', n)) = PropColumns(SpecFor(Blank, n))
        /\ PropColumns(SpecFor(emit, n)) = PropColumns(SpecFor(Blank, n))
    BY <1>2, <1>8, FormFacts DEF n
  <2>5. {RecordId, Active, Deactivated} \subseteq C
    BY DEF IsTape, RecordsKept, C, n
  <2>6. q[RecordId] = r[RecordId] /\ q[Active] = (q[Deactivated] = NULL)
    <3>1. CASE r[RecordId] # id
      BY <2>1, <2>2, <2>3, <3>1 DEF RecordTold
    <3>2. CASE r[RecordId] = id
      <4>1. q[Active] = FALSE
        BY <1>3, <2>1, <2>2, <2>5, <3>2, NameFacts
      <4>2. q[Deactivated] = now
        BY <1>3, <2>1, <2>2, <2>5, <3>2, NameFacts
      <4>3. q[RecordId] = r[RecordId]
        BY <1>3, <2>1, <2>2, <2>5, <3>2, NameFacts
      <4>4. now # NULL
        BY NullFacts
      <4> QED
        BY <4>1, <4>2, <4>3, <4>4
    <3> QED
      BY <3>1, <3>2
  <2>7. ASSUME NEW c \in PropColumns(SpecFor(Blank, n))
        PROVE  ValueTold(emit', k, q, c) /\ ReferenceTold(emit', q, c)
    <3>1. c.name \in C /\ c.name = PropOf(c.name[2]) /\ (c.refs # NULL => RefIndex(c.name[2]) \in C)
      <4>1. c.name \in C /\ c.name = PropOf(c.name[2]) /\ C = ColumnNames(Blank, n)
        BY FormFacts DEF C, n
      <4>2. c.refs # NULL => RefIndex(c.name[2]) \in ColumnNames(Blank, n)
        BY TapeAssumption DEF ReferencesLaid, n
      <4> QED
        BY <4>1, <4>2
    <3>2. /\ c.name \notin DOMAIN Gone /\ c.name # Mutated
          /\ RefIndex(c.name[2]) \notin DOMAIN Gone /\ RefIndex(c.name[2]) # Mutated
      BY <1>3, <3>1 DEF PropOf, RefIndex, Active, Deactivated, Mutated
    <3>3. \A x \in C : x \notin DOMAIN Gone /\ x # Mutated => q[x] = r[x]
      BY <2>1, <2>2
    <3>4. q[c.name] = r[c.name] /\ (c.refs # NULL => q[RefIndex(c.name[2])] = r[RefIndex(c.name[2])])
      BY <3>1, <3>2, <3>3
    <3>5. ValueTold(emit, k, r, c) /\ ReferenceTold(emit, r, c)
      BY <2>3, <2>4 DEF RecordTold, n
    <3>6. c \in PropColumns(SpecFor(Blank, RecordsOf(k)))
      BY DEF n
    <3> HIDE DEF r
    <3> QED
      BY <1>8, <1>9, <2>6, <3>4, <3>5, <3>6, StillTold
  <2> HIDE DEF r
  <2> QED
    BY <2>4, <2>6, <2>7 DEF RecordTold, n
<1>12. ASSUME NEW j \in Kinds, NEW q \in TableRows(emit', RecordsOf(j)) PROVE RecordTold(emit', j, q)
  <2>1. CASE j = k
    BY <1>11, <2>1 DEF n
  <2>2. CASE j # k
    <3>1. emit'.cat[RecordsOf(j)].rows = emit.cat[RecordsOf(j)].rows
      BY <1>6, <1>8, <2>2
    <3> QED
      BY <1>2, <1>8, <1>9, <3>1, KindUntouched
  <2> QED
    BY <2>1, <2>2
<1> QED
  BY <1>8, <1>10, <1>12 DEF PastTold

\* A step of the memberships leaves the records and their history.
LEMMA MembershipPast ==
    ASSUME now \in Nat, IsTape(emit, now), SameForm(emit, Blank), PastTold(emit), NEW rows,
           MembersGrown(Rows(MemberTable), rows, now - 1),
           emit' = After(emit, MemberTable, rows, <<>>), IsTape(emit', now)
    PROVE  PastTold(emit') /\ SameForm(emit', Blank) /\ Grown(emit, emit', now - 1)
<1> DEFINE n == MemberTable
<1>1. n \in Tables(emit) /\ n # History /\ \A j \in Kinds : n # RecordsOf(j)
  <2>1. n # History
    BY TapeAssumption DEF History, Membership
  <2> QED
    BY <2>1, TapeShape, CategoryFacts
<1>2. Range(<<>>) = {} /\ Shaped(emit, History, <<>>)
  BY NoMore DEF Range
<1> HIDE DEF n
<1>3. /\ Grown(emit, emit', now - 1) /\ SameForm(emit', Blank) /\ Persisting(emit, emit')
      /\ TableRows(emit', History) = TableRows(emit, History) \cup Range(<<>>)
      /\ \A j, p, x : Series(emit', j, p, x) = Series(emit, j, p, x) \cup
            {h \in Range(<<>>) : h[Kind] = j /\ h[Property] = p /\ h[RecordId] = x}
      /\ \A j \in Kinds :
            /\ n = RecordsOf(j) => emit'.cat[RecordsOf(j)].rows = rows
            /\ n # RecordsOf(j) => emit'.cat[RecordsOf(j)].rows = emit.cat[RecordsOf(j)].rows
  <2>1. \A h \in Range(<<>>) : h[SimTime] = now
    BY <1>2
  <2>2. \A j \in Kinds : n = RecordsOf(j) => RecordsGrown(j, Rows(n), rows, now - 1)
    BY <1>1
  <2>3. emit' = After(emit, n, rows, <<>>) /\ (n = MemberTable => MembersGrown(Rows(n), rows, now - 1))
    BY DEF n
  <2> QED
    BY <1>1, <1>2, <2>1, <2>2, <2>3, StepFacts
<1>4. /\ TableRows(emit', History) = TableRows(emit, History)
      /\ \A j, p, x : Series(emit', j, p, x) = Series(emit, j, p, x)
  <2> DEFINE none == Range(<<>>)
  <2>1. /\ TableRows(emit', History) = TableRows(emit, History) \cup none
        /\ \A j, p, x : Series(emit', j, p, x) = Series(emit, j, p, x) \cup
              {h \in none : h[Kind] = j /\ h[Property] = p /\ h[RecordId] = x}
    BY <1>3
  <2>2. none = {}
    BY <1>2
  <2> HIDE DEF none
  <2> QED
    BY ONLY <2>1, <2>2, NothingMore
<1>5. HistoryTold(emit')
  BY <1>3, <1>4, SameHistory DEF PastTold
<1>6. ASSUME NEW j \in Kinds, NEW q \in TableRows(emit', RecordsOf(j)) PROVE RecordTold(emit', j, q)
  <2>1. emit'.cat[RecordsOf(j)].rows = emit.cat[RecordsOf(j)].rows
    BY <1>1, <1>3
  <2> QED
    BY <1>3, <1>4, <2>1, KindUntouched
<1> QED
  BY <1>3, <1>5, <1>6 DEF PastTold

LEMMA EnterPast ==
    ASSUME now \in Nat, IsTape(emit, now), SameForm(emit, Blank), PastTold(emit), Enter
    PROVE  PastTold(emit') /\ SameForm(emit', Blank) /\ Grown(emit, emit', now - 1)
<1> DEFINE rows == Rows(MemberTable)
<1>1. PICK owner, k, id : emit' = After(emit, MemberTable, Append(rows, NewMember(owner, k, id)), <<>>)
  BY WrittenAfter DEF Enter
<1> DEFINE new == NewMember(owner, k, id)
           all == Append(rows, new)
<1>2. new[Joined] = now
  <2>1. Field[1] = "member_kind"
    BY TapeAssumption
  <2>2. /\ Fork # RecordId /\ Fork # Joined /\ Fork # Left /\ Fork # Field
        /\ Joined # RecordId /\ Joined # Left /\ Joined # Field /\ Left # RecordId /\ Left # Field
    BY <2>1 DEF Fork, RecordId, Joined, Left
  <2> QED
    BY <2>2 DEF NewMember
<1>3. rows \in Seq(Range(rows))
  BY ShapedTable DEF RowsShaped, Rows
<1>4. IsTape(emit', now)
  BY EnterKeeps
<1> HIDE DEF rows, new
<1>5. /\ Len(rows) \in Nat /\ DOMAIN rows = 1 .. Len(rows)
      /\ DOMAIN all = 1 .. Len(rows) + 1 /\ Len(all) = Len(rows) + 1
      /\ \A i \in DOMAIN all : IF i = Len(rows) + 1 THEN all[i] = new
                               ELSE i \in DOMAIN rows /\ all[i] = rows[i]
  BY <1>3, AppendFacts
<1> HIDE DEF all
<1>6. MembersGrown(rows, all, now - 1)
  BY <1>2, <1>5 DEF MembersGrown, EndsLater
<1>7. emit' = After(emit, MemberTable, all, <<>>) /\ MembersGrown(Rows(MemberTable), all, now - 1)
  BY <1>1, <1>6 DEF all, new, rows
<1> QED
  BY <1>4, <1>7, MembershipPast

LEMMA ExitPast ==
    ASSUME now \in Nat, IsTape(emit, now), SameForm(emit, Blank), PastTold(emit), Exit
    PROVE  PastTold(emit') /\ SameForm(emit', Blank) /\ Grown(emit, emit', now - 1)
<1> DEFINE rows == Rows(MemberTable)
           C == ColumnNames(Blank, MemberTable)
<1>1. PICK x \in DOMAIN rows :
         rows[x][Left] = NULL /\ emit' = After(emit, MemberTable, [rows EXCEPT ![x][Left] = now], <<>>)
  BY WrittenAfter DEF Exit
<1> DEFINE all == [rows EXCEPT ![x][Left] = now]
<1>2. /\ rows \in Seq(Range(rows)) /\ \A r \in Range(rows) : r = [c \in ColumnNames(emit, MemberTable) |-> r[c]]
      /\ Len(rows) \in Nat /\ DOMAIN rows = 1 .. Len(rows)
  BY ShapedTable DEF RowsShaped, Rows
<1>3. C = ColumnNames(emit, MemberTable) /\ Left \in C
  BY BlankForm, ShapedTable DEF SameForm, IsTape, MembersKept
<1>4. IsTape(emit', now)
  BY ExitKeeps
<1> HIDE DEF rows, C
<1>5. \A i \in DOMAIN rows : rows[i] = [c \in C |-> rows[i][c]]
  BY <1>2, <1>3 DEF Range
<1>6. DOMAIN all = 1 .. Len(rows) /\ Len(all) = Len(rows)
  BY <1>2
<1>7. /\ \A i \in DOMAIN rows : i # x => all[i] = rows[i]
      /\ \A c \in C \ {Left} : all[x][c] = rows[x][c]
      /\ all[x][Left] = now
  <2>1. all[x] = [rows[x] EXCEPT ![Left] = now]
    BY <1>1
  <2>2. DOMAIN rows[x] = C
    BY <1>1, <1>5
  <2>3. \A i \in DOMAIN rows : i # x => all[i] = rows[i]
    OBVIOUS
  <2> HIDE DEF all
  <2> QED
    BY <1>3, <2>1, <2>2, <2>3
<1> HIDE DEF all
<1>8. MembersGrown(rows, all, now - 1)
  <2>1. ASSUME NEW i \in DOMAIN all
        PROVE  /\ \A c \in C \ {Left} : all[i][c] = rows[i][c]
               /\ EndsLater(rows[i], all[i], Left, now - 1)
    <3>1. CASE i = x
      BY <1>1, <1>7, <3>1 DEF EndsLater
    <3>2. CASE i # x
      BY <1>2, <1>6, <1>7, <3>2 DEF EndsLater
    <3> QED
      BY <3>1, <3>2
  <2> QED
    BY <1>2, <1>6, <2>1 DEF MembersGrown, C
<1>9. emit' = After(emit, MemberTable, all, <<>>) /\ MembersGrown(Rows(MemberTable), all, now - 1)
  BY <1>1, <1>8 DEF all, rows
<1> QED
  BY <1>4, <1>9, MembershipPast

\* What a write puts into history: nothing, or the row of its value.
WrittenHistory(k, id, c, v) == IF c.tracked = TRUE THEN <<HistoryRow(k, id, c, v)>> ELSE <<>>

LEMMA WrittenHistoryFacts ==
    ASSUME now \in Nat, IsTape(emit, now), NEW k, NEW id, NEW c, NEW v
    PROVE  LET more == WrittenHistory(k, id, c, v) IN
           /\ Shaped(emit, History, more) /\ \A h \in Range(more) : h[SimTime] = now
           /\ Range(more) = IF c.tracked = TRUE THEN {HistoryRow(k, id, c, v)} ELSE {}
<1>1. CASE c.tracked = TRUE
  <2> DEFINE row == HistoryRow(k, id, c, v)
  <2>1. WrittenHistory(k, id, c, v) = <<row>>
    BY <1>1 DEF WrittenHistory
  <2>2. Shaped(emit, History, <<row>>) /\ row[SimTime] = now
    BY OneMore, HistoryRowFacts
  <2> HIDE DEF row
  <2>3. Range(<<row>>) = {row}
    BY DEF Range
  <2>4. Shaped(emit, History, <<row>>) /\ (\A h \in Range(<<row>>) : h[SimTime] = now)
    BY <2>2, <2>3
  <2> QED
    BY <1>1, <2>1, <2>3, <2>4 DEF row
<1>2. CASE ~(c.tracked = TRUE)
  <2>1. WrittenHistory(k, id, c, v) = <<>>
    BY <1>2 DEF WrittenHistory
  <2>2. Shaped(emit, History, <<>>) /\ Range(<<>>) = {}
    BY NoMore DEF Range
  <2> QED
    BY <1>2, <2>1, <2>2
<1> QED
  BY <1>1, <1>2

\* What a row of history says of its value.
LEMMA HistoryRowValue ==
    ASSUME NEW k, NEW id, NEW c, NEW v
    PROVE  HistoryRow(k, id, c, v)[Value] = IF v = NULL THEN NULL ELSE ToText(v, c.type)
<1>1. /\ Kind # Fork /\ RecordId # Fork /\ RecordId # Kind /\ Property # Fork /\ Property # Kind
      /\ Property # RecordId /\ SimTime # Fork /\ SimTime # Kind /\ SimTime # RecordId
      /\ SimTime # Property /\ Value # Fork /\ Value # Kind /\ Value # RecordId /\ Value # Property
      /\ Value # SimTime
  BY DEF Kind, Fork, RecordId, Property, SimTime, Value
<1> QED
  BY <1>1 DEF HistoryRow

\* A tracked cell that says what the newest row of its series says.
LEMMA NewestTold ==
    ASSUME now \in Nat, now <= LastTime, NEW f, NEW k \in Kinds, NEW c \in PropColumns(SpecFor(Blank, RecordsOf(k))),
           NEW v, c.refs = NULL => v \in ValuesOf(k, c.name[2]) \cup SeedsOf(k, c.name[2]),
           NEW q, q[c.name] = v, NEW old,
           c.tracked = TRUE =>
              /\ Series(f, k, c.name[2], q[RecordId]) = old \cup {HistoryRow(k, q[RecordId], c, v)}
              /\ \A g \in old : g[SimTime] \in Int /\ g[SimTime] < now
    PROVE  ValueTold(f, k, q, c)
<1> SUFFICES ASSUME c.tracked = TRUE
             PROVE  q[c.name] = TryCast(AsOf(f, k, c.name[2], q[RecordId], LastTime), c.type)
  BY DEF ValueTold
<1> DEFINE h == HistoryRow(k, q[RecordId], c, v)
<1>1. h[SimTime] = now /\ h[Value] = IF v = NULL THEN NULL ELSE ToText(v, c.type)
  BY HistoryRowFacts, HistoryRowValue
<1>2. Series(f, k, c.name[2], q[RecordId]) = old \cup {h} /\ \A g \in old : g[SimTime] \in Int /\ g[SimTime] < now
  OBVIOUS
<1> HIDE DEF h
<1>3. AsOf(f, k, c.name[2], q[RecordId], LastTime) = h[Value]
  BY <1>1, <1>2, AsOfNewest
<1>4. TryCast(IF v = NULL THEN NULL ELSE ToText(v, c.type), c.type) = v
  BY ReadsBack
<1> QED
  BY <1>1, <1>3, <1>4

\* Columns of one name are one, and so are their indexes.
LEMMA NamedApart ==
    ASSUME NEW at, IsTape(emit, at), SameForm(emit, Blank), NEW k \in Kinds,
           NEW c \in PropColumns(SpecFor(Blank, RecordsOf(k))), NEW d \in PropColumns(SpecFor(Blank, RecordsOf(k)))
    PROVE  /\ c # d => c.name # d.name /\ c.name[2] # d.name[2] /\ RefIndex(c.name[2]) # RefIndex(d.name[2])
           /\ c.name # RefIndex(d.name[2])
           /\ \A x \in {c.name, RefIndex(c.name[2])} :
                 x \notin {Fork, RecordId, Created, Active, Deactivated, Mutated, RecordIndex}
           /\ c.name \in ColumnNames(emit, RecordsOf(k))
           /\ c.refs # NULL => c.refs \in Kinds /\ RefIndex(c.name[2]) \in ColumnNames(emit, RecordsOf(k))
<1>1. /\ c.name = PropOf(c.name[2]) /\ d.name = PropOf(d.name[2])
      /\ ColumnFor(emit, RecordsOf(k), c.name) = c /\ ColumnFor(emit, RecordsOf(k), d.name) = d
      /\ c.name \in ColumnNames(emit, RecordsOf(k))
      /\ ColumnNames(emit, RecordsOf(k)) = ColumnNames(Blank, RecordsOf(k))
  BY FormFacts
<1>2. c # d => c.name # d.name /\ c.name[2] # d.name[2]
  BY <1>1
<1>3. c.name[2] # d.name[2] => RefIndex(c.name[2]) # RefIndex(d.name[2])
  BY DEF RefIndex
<1>4. c.name # RefIndex(d.name[2])
  <2> DEFINE a == c.name[2]
             b == d.name[2]
  <2>1. PropOf(a) # RefIndex(b)
    BY DEF PropOf, RefIndex
  <2> QED
    BY <1>1, <2>1
<1>5. \A x \in {c.name, RefIndex(c.name[2])} :
         x \notin {Fork, RecordId, Created, Active, Deactivated, Mutated, RecordIndex}
  <2> DEFINE a == c.name[2]
  <2>1. \A x \in {PropOf(a), RefIndex(a)} :
           x \notin {Fork, RecordId, Created, Active, Deactivated, Mutated, RecordIndex}
    BY DEF PropOf, RefIndex, Fork, RecordId, Created, Active, Deactivated, Mutated, RecordIndex
  <2> QED
    BY <1>1, <2>1
<1>6. c.refs # NULL => c.refs \in Kinds /\ RefIndex(c.name[2]) \in ColumnNames(Blank, RecordsOf(k))
  BY TapeAssumption DEF ReferencesLaid
<1> QED
  BY <1>1, <1>2, <1>3, <1>4, <1>5, <1>6

LEMMA CellsFacts ==
    ASSUME NEW at, IsTape(emit, at), SameForm(emit, Blank), NEW k \in Kinds,
           NEW c \in PropColumns(SpecFor(Blank, RecordsOf(k))), NEW v
    PROVE  LET cells == Cells(c, v) IN
           /\ DOMAIN cells = {c.name} \cup (IF c.refs = NULL THEN {} ELSE {RefIndex(c.name[2])})
           /\ cells[c.name] = v
           /\ c.refs # NULL => cells[RefIndex(c.name[2])] = IndexOf(c.refs, v)
<1> DEFINE p == c.name[2]
<1>1. c.name # RefIndex(p)
  BY NamedApart
<1> HIDE DEF p
<1>2. CASE c.refs = NULL
  BY <1>2 DEF Cells
<1>3. CASE c.refs # NULL
  <2>1. Cells(c, v) = [x \in {c.name, RefIndex(p)} |-> IF x = c.name THEN v ELSE IndexOf(c.refs, v)]
    BY <1>3 DEF Cells, p
  <2>2. /\ DOMAIN Cells(c, v) = {c.name} \cup {RefIndex(p)} /\ Cells(c, v)[c.name] = v
        /\ Cells(c, v)[RefIndex(p)] = IndexOf(c.refs, v)
    BY <1>1, <2>1
  <2> QED
    BY <1>3, <2>2 DEF p
<1> QED
  BY <1>2, <1>3

\* A value that is written leaves the row that tells of it, and its index.
LEMMA WritePast ==
    ASSUME now \in Nat, now <= LastTime, IsTape(emit, now), SameForm(emit, Blank), PastTold(emit),
           NEW k \in Kinds, Write(k)
    PROVE  PastTold(emit') /\ SameForm(emit', Blank) /\ Grown(emit, emit', now - 1)
<1> DEFINE n == RecordsOf(k)
           rows == Rows(n)
           C == ColumnNames(emit, n)
           props == PropColumns(SpecFor(Blank, n))
<1>0. ColumnsOf(k) = props
  BY FormFacts DEF ColumnsOf
<1>1. PICK id \in Alive(k), c \in props : \E v :
         /\ c.temporal # "constant" /\ v \in Domain(k, c)
         /\ c.tracked = TRUE => \A h \in Series(emit, k, c.name[2], id) : h[SimTime] < now
         /\ emit' = After(emit, n, Updated(k, id, Cells(c, v)), WrittenHistory(k, id, c, v))
  BY <1>0, WrittenAfter DEF Write, WrittenHistory
<1>1a. PICK v :
         /\ c.temporal # "constant" /\ v \in Domain(k, c)
         /\ c.tracked = TRUE => \A h \in Series(emit, k, c.name[2], id) : h[SimTime] < now
         /\ emit' = After(emit, n, Updated(k, id, Cells(c, v)), WrittenHistory(k, id, c, v))
  BY <1>1
<1> DEFINE p == c.name[2]
           cells == Cells(c, v)
           all == Updated(k, id, cells)
           more == WrittenHistory(k, id, c, v)
           row == HistoryRow(k, id, c, v)
<1>2. IsTape(emit', now)
  BY WriteKeeps
<1>3. /\ DOMAIN cells = {c.name} \cup (IF c.refs = NULL THEN {} ELSE {RefIndex(p)})
      /\ cells[c.name] = v
      /\ c.refs # NULL => cells[RefIndex(p)] = IndexOf(c.refs, v)
  BY CellsFacts
<1>4. /\ n \in Tables(emit) /\ n # History /\ n # MemberTable /\ \A j : n = RecordsOf(j) => j = k
  BY TapeShape, KindFacts
<1>5. RecordsGrown(k, rows, all, now - 1)
  <2>1. ~Steady(k, c.name) /\ ~Steady(k, RefIndex(p))
    <3>1. c.name[1] = "prop" /\ ColumnFor(Blank, n, c.name) = c
      BY BlankForm, FormFacts
    <3>2. RefIndex(p)[1] = "ref_index"
      BY DEF RefIndex
    <3> QED
      BY <1>1a, <3>1, <3>2 DEF Steady
  <2>2. (\A x \in DOMAIN cells : ~Steady(k, x)) /\ Deactivated \notin DOMAIN cells
    BY <1>3, <2>1, NamedApart
  <2> HIDE DEF cells
  <2> QED
    BY <2>2, UpdatedGrown
<1>6. /\ Shaped(emit, History, more) /\ (\A h \in Range(more) : h[SimTime] = now)
      /\ Range(more) = IF c.tracked = TRUE THEN {row} ELSE {}
  BY WrittenHistoryFacts
<1>7. /\ row[Kind] = k /\ row[RecordId] = id /\ row[Property] = p /\ row[SimTime] = now
  BY HistoryRowFacts
<1>8. /\ Len(rows) \in Nat /\ DOMAIN rows = 1 .. Len(rows) /\ DOMAIN all = 1 .. Len(rows)
      /\ \A i \in DOMAIN rows :
            /\ rows[i][RecordId] # id => all[i] = rows[i]
            /\ rows[i][RecordId] = id => \A x \in C :
                  all[i][x] = IF x = Mutated THEN now
                              ELSE IF x \in DOMAIN cells THEN cells[x] ELSE rows[i][x]
  BY UpdatedFacts
<1> DEFINE new == Range(more)
<1>9. /\ Grown(emit, emit', now - 1) /\ SameForm(emit', Blank) /\ Persisting(emit, emit')
      /\ TableRows(emit', History) = TableRows(emit, History) \cup new
      /\ \A j, b, x : Series(emit', j, b, x) = Series(emit, j, b, x) \cup
            {h \in new : h[Kind] = j /\ h[Property] = b /\ h[RecordId] = x}
      /\ \A j \in Kinds :
            /\ n = RecordsOf(j) => emit'.cat[RecordsOf(j)].rows = all
            /\ n # RecordsOf(j) => emit'.cat[RecordsOf(j)].rows = emit.cat[RecordsOf(j)].rows
  <2>1. \A j \in Kinds : n = RecordsOf(j) => RecordsGrown(j, Rows(n), all, now - 1)
    BY <1>4, <1>5
  <2>2. emit' = After(emit, n, all, more)
    BY <1>1a
  <2> HIDE DEF n, all, more, rows
  <2> QED
    BY <1>2, <1>4, <1>6, <2>1, <2>2, StepFacts
<1> HIDE DEF n, rows, C, props, cells, all, more, row, new
<1>10. ASSUME NEW j, NEW b, NEW x, ~(c.tracked = TRUE /\ j = k /\ b = p /\ x = id)
       PROVE  Series(emit', j, b, x) = Series(emit, j, b, x)
  <2>1. {h \in new : h[Kind] = j /\ h[Property] = b /\ h[RecordId] = x} = {}
    BY <1>6, <1>7, <1>10 DEF new
  <2>2. Series(emit', j, b, x) = Series(emit, j, b, x) \cup
            {h \in new : h[Kind] = j /\ h[Property] = b /\ h[RecordId] = x}
    BY <1>9
  <2> QED
    BY <2>1, <2>2
<1>11. HistoryTold(emit')
  <2>1. ASSUME NEW h \in new
        PROVE  /\ h[Kind] \in Kinds
               /\ \E r \in TableRows(emit', RecordsOf(h[Kind])) : r[RecordId] = h[RecordId]
               /\ \A g \in TableRows(emit, History) \cup new :
                     (\A x \in {Kind, Property, RecordId, SimTime} : g[x] = h[x]) => g = h
    <3>1. h = row /\ c.tracked = TRUE /\ new = {row}
      BY <1>6 DEF new
    <3>2. PICK q \in Records(k) : q[RecordId] = id
      BY DEF Alive
    <3>3. \E r \in TableRows(emit', RecordsOf(k)) : r[RecordId] = id
      <4>1. q \in TableRows(emit, RecordsOf(k))
        BY <3>2 DEF Records, TableRows
      <4> QED
        BY <1>9, <3>2, <4>1 DEF Persisting
    <3>4. ASSUME NEW g \in TableRows(emit, History),
                 g[Kind] = k /\ g[Property] = p /\ g[RecordId] = id /\ g[SimTime] = now
          PROVE  FALSE
      <4>1. g \in Series(emit, k, p, id)
        BY <3>4, SeriesFacts
      <4>2. g[SimTime] < now
        BY <1>1a, <3>1, <4>1
      <4> QED
        BY <3>4, <4>2
    <3> QED
      BY <1>7, <3>1, <3>3, <3>4
  <2> HIDE DEF new
  <2> QED
    BY <1>9, <2>1, HistoryStays DEF PastTold
<1>12. ASSUME NEW i \in DOMAIN rows PROVE RecordTold(emit', k, all[i])
  <2> DEFINE q == all[i]
             r == rows[i]
  <2>1. r \in TableRows(emit, n) /\ RecordTold(emit, k, r)
    <3>1. r \in TableRows(emit, n)
      BY DEF rows, Rows, TableRows, Range
    <3> QED
      BY <3>1 DEF PastTold, n
  <2>2. PropColumns(SpecFor(emit', n)) = props /\ PropColumns(SpecFor(emit, n)) = props
    BY <1>2, <1>9, FormFacts DEF n, props
  <2>3. {RecordId, Active, Deactivated} \subseteq C
    BY DEF IsTape, RecordsKept, C, n
  <2>4. \A x \in C : x \notin DOMAIN cells /\ x # Mutated => q[x] = r[x]
    BY <1>8
  <2>5. {RecordId, Active, Deactivated} \cap DOMAIN cells = {} /\ Mutated \notin {RecordId, Active, Deactivated}
    BY <1>3, NamedApart, NameFacts DEF props, n
  <2>6. q[RecordId] = r[RecordId] /\ q[Active] = r[Active] /\ q[Deactivated] = r[Deactivated]
    BY <2>3, <2>4, <2>5
  <2>7. ASSUME NEW d \in props PROVE ValueTold(emit', k, q, d) /\ ReferenceTold(emit', q, d)
    <3>0. c \in PropColumns(SpecFor(Blank, RecordsOf(k))) /\ d \in PropColumns(SpecFor(Blank, RecordsOf(k)))
      BY DEF props, n
    <3>1. /\ c # d => c.name # d.name /\ p # d.name[2] /\ RefIndex(p) # RefIndex(d.name[2])
          /\ c.name # RefIndex(d.name[2]) /\ d.name # RefIndex(p)
          /\ d.name # Mutated /\ RefIndex(d.name[2]) # Mutated /\ d.name \in C
          /\ d.refs # NULL => d.refs \in Kinds /\ RefIndex(d.name[2]) \in C
      BY <3>0, NamedApart DEF C, n
    <3>2. ValueTold(emit, k, r, d) /\ ReferenceTold(emit, r, d)
      BY <2>1, <2>2 DEF RecordTold, n
    <3>3. CASE r[RecordId] = id /\ d = c
      <4>1. q[c.name] = v /\ (c.refs # NULL => q[RefIndex(p)] = IndexOf(c.refs, v))
        <5>1. \A x \in C : x \in DOMAIN cells /\ x # Mutated => q[x] = cells[x]
          BY <1>8, <3>3
        <5> QED
          BY <1>3, <3>1, <3>3, <5>1
      <4>2. c.refs = NULL => v \in ValuesOf(k, p) \cup SeedsOf(k, p)
        BY <1>1a DEF Domain
      <4>3. c.tracked = TRUE =>
              /\ Series(emit', k, p, id) = Series(emit, k, p, id) \cup {row}
              /\ \A g \in Series(emit, k, p, id) : g[SimTime] \in Int /\ g[SimTime] < now
        <5> SUFFICES ASSUME c.tracked = TRUE
                     PROVE  /\ Series(emit', k, p, id) = Series(emit, k, p, id) \cup {row}
                            /\ \A g \in Series(emit, k, p, id) : g[SimTime] \in Int /\ g[SimTime] < now
          OBVIOUS
        <5>1. {h \in new : h[Kind] = k /\ h[Property] = p /\ h[RecordId] = id} = {row}
          BY <1>6, <1>7 DEF new
        <5>2. \A g \in Series(emit, k, p, id) : g[SimTime] \in 0 .. now
          BY SeriesFacts
        <5>3. Series(emit', k, p, id) = Series(emit, k, p, id) \cup
                {h \in new : h[Kind] = k /\ h[Property] = p /\ h[RecordId] = id}
          BY <1>9
        <5> QED
          BY <1>1a, <5>1, <5>2, <5>3
      <4>4. ValueTold(emit', k, q, c)
        <5> DEFINE before == Series(emit, k, p, id)
        <5>1. q[RecordId] = id
          BY <2>6, <3>3
        <5>2. c.tracked = TRUE =>
                /\ Series(emit', k, c.name[2], q[RecordId]) = before \cup {HistoryRow(k, q[RecordId], c, v)}
                /\ \A g \in before : g[SimTime] \in Int /\ g[SimTime] < now
          BY <4>3, <5>1 DEF row
        <5>3. c.refs = NULL => v \in ValuesOf(k, c.name[2]) \cup SeedsOf(k, c.name[2])
          BY <4>2
        <5> HIDE DEF before, q
        <5> QED
          BY <3>0, <4>1, <5>2, <5>3, NewestTold
      <4>5. ReferenceTold(emit', q, c)
        <5> SUFFICES ASSUME c.refs # NULL
                     PROVE  \/ q[c.name] = NULL /\ q[RefIndex(p)] = NULL
                            \/ \E y \in TableRows(emit', RecordsOf(c.refs)) :
                                  y[RecordId] = q[c.name] /\ y[RecordIndex] = q[RefIndex(p)]
          BY DEF ReferenceTold
        <5>1. v = NULL \/ v \in Existing(c.refs)
          BY <1>1a DEF Domain, Referable
        <5>2. c.refs \in Kinds
          BY <3>1, <3>3
        <5>3. \/ v = NULL /\ IndexOf(c.refs, v) = NULL
              \/ \E y \in TableRows(emit', RecordsOf(c.refs)) :
                    y[RecordId] = v /\ y[RecordIndex] = IndexOf(c.refs, v)
          BY <1>9, <5>1, <5>2, IndexTold
        <5> QED
          BY <4>1, <5>3
      <4> QED
        BY <3>3, <4>4, <4>5
    <3>4. CASE ~(r[RecordId] = id /\ d = c)
      <4>1. q[d.name] = r[d.name] /\ (d.refs # NULL => q[RefIndex(d.name[2])] = r[RefIndex(d.name[2])])
        <5>1. CASE r[RecordId] # id
          BY <1>8, <5>1
        <5>2. CASE d # c
          <6>1. d.name \notin DOMAIN cells /\ RefIndex(d.name[2]) \notin DOMAIN cells
            BY <1>3, <3>1, <5>2
          <6> QED
            BY <2>4, <3>1, <6>1
        <5> QED
          BY <3>4, <5>1, <5>2
      <4>2. Series(emit', k, d.name[2], r[RecordId]) = Series(emit, k, d.name[2], r[RecordId])
        BY <1>10, <3>1, <3>4
      <4> HIDE DEF q, r
      <4> QED
        BY <1>9, <2>6, <3>0, <3>2, <4>1, <4>2, StillTold
    <3> QED
      BY <3>3, <3>4
  <2> HIDE DEF q, r
  <2>8. RecordTold(emit', k, q)
    BY <2>1, <2>2, <2>6, <2>7 DEF RecordTold, n
  <2> QED
    BY <2>8 DEF q
<1>13. ASSUME NEW j \in Kinds, NEW q \in TableRows(emit', RecordsOf(j)) PROVE RecordTold(emit', j, q)
  <2>1. CASE j = k
    <3>1. emit'.cat[RecordsOf(k)].rows = all
      BY <1>9 DEF n
    <3>2. PICK i \in DOMAIN rows : q = all[i]
      BY <1>8, <2>1, <3>1 DEF TableRows, Range
    <3> QED
      BY <1>12, <2>1, <3>2
  <2>2. CASE j # k
    <3>1. emit'.cat[RecordsOf(j)].rows = emit.cat[RecordsOf(j)].rows
      BY <1>4, <1>9, <2>2
    <3>2. \A b, x : Series(emit', j, b, x) = Series(emit, j, b, x)
      BY <1>10, <2>2
    <3> QED
      BY <1>2, <1>9, <3>1, <3>2, KindUntouched
  <2> QED
    BY <2>1, <2>2
<1> QED
  BY <1>9, <1>11, <1>13 DEF PastTold

\* The history a record begins with: a row for every tracked property.
SeedRow(k, id, values, h) == \E c \in PropColumns(SpecFor(Blank, RecordsOf(k))) :
    c.tracked = TRUE /\ h = HistoryRow(k, id, c, values[c.name])

LEMMA SeededRows ==
    ASSUME IsTape(emit, now), SameForm(emit, Blank), NEW k \in Kinds, NEW id, NEW values, NEW h
    PROVE  h \in Range(Seeded(k, id, values)) <=> SeedRow(k, id, values, h)
<1> DEFINE n == RecordsOf(k)
           props == PropColumns(SpecFor(Blank, n))
           more == Seeded(k, id, values)
           s == SpecFor(emit, n)
           S == {i \in DOMAIN s.cols : s.cols[i] \in ColumnsOf(k) /\ s.cols[i].tracked = TRUE}
           seeds == Only(s.cols, S)
<1>1. s.cols \in Seq(Range(s.cols)) /\ ColumnsOf(k) = PropColumns(s) /\ PropColumns(s) = props
  <2>1. s \in emit.specs
    BY TapeShape, KindFacts, SpecFacts
  <2> QED
    BY <2>1, TapeShape, FormFacts DEF ColumnsNamed, ColumnsOf
<1>2. seeds \in Seq(Range(seeds)) /\ Range(seeds) = {s.cols[i] : i \in S}
  <2>1. S \in SUBSET DOMAIN s.cols
    OBVIOUS
  <2> HIDE DEF S, s
  <2> QED
    BY <1>1, <2>1, OnlyFacts
<1>3. more = [i \in DOMAIN seeds |-> HistoryRow(k, id, seeds[i], values[seeds[i].name])]
  BY DEF Seeded
<1>4. \A c : c \in Range(seeds) <=> c \in props /\ c.tracked = TRUE
  <2>1. \A c \in props : c \in Range(s.cols)
    BY <1>1 DEF PropColumns
  <2>2. \A c \in Range(s.cols) : \E i \in DOMAIN s.cols : c = s.cols[i]
    BY DEF Range
  <2> HIDE DEF s, props, seeds
  <2> QED
    BY <1>1, <1>2, <2>1, <2>2
<1> HIDE DEF seeds, more, s, props
<1>5. ASSUME NEW c \in props, c.tracked = TRUE PROVE HistoryRow(k, id, c, values[c.name]) \in Range(more)
  <2>1. PICK i \in DOMAIN seeds : c = seeds[i]
    BY <1>4, <1>5 DEF Range
  <2>2. i \in DOMAIN more /\ more[i] = HistoryRow(k, id, c, values[c.name])
    BY <1>3, <2>1
  <2> QED
    BY <2>2 DEF Range
<1>6. ASSUME h \in Range(more)
      PROVE  \E c \in props : c.tracked = TRUE /\ h = HistoryRow(k, id, c, values[c.name])
  <2>1. PICK i \in DOMAIN seeds : h = HistoryRow(k, id, seeds[i], values[seeds[i].name])
    BY <1>3, <1>6 DEF Range
  <2>2. seeds[i] \in Range(seeds)
    BY DEF Range
  <2> QED
    BY <1>4, <2>1, <2>2
<1>7. h \in Range(more) <=> \E c \in props : c.tracked = TRUE /\ h = HistoryRow(k, id, c, values[c.name])
  BY <1>5, <1>6
<1> QED
  BY <1>7 DEF more, props, n, SeedRow

LEMMA SeededFacts ==
    ASSUME IsTape(emit, now), SameForm(emit, Blank), NEW k \in Kinds, NEW id, NEW values
    PROVE  /\ Shaped(emit, History, Seeded(k, id, values))
           /\ \A h \in Range(Seeded(k, id, values)) : h[SimTime] = now
<1> DEFINE s == SpecFor(emit, RecordsOf(k))
           S == {i \in DOMAIN s.cols : s.cols[i] \in ColumnsOf(k) /\ s.cols[i].tracked = TRUE}
           seeds == Only(s.cols, S)
           more == Seeded(k, id, values)
<1>1. more = [i \in DOMAIN seeds |-> HistoryRow(k, id, seeds[i], values[seeds[i].name])]
  BY DEF Seeded
<1>2. seeds \in Seq(Range(seeds))
  <2>1. s.cols \in Seq(Range(s.cols))
    BY TapeShape, KindFacts, SpecFacts DEF ColumnsNamed
  <2>2. S \in SUBSET DOMAIN s.cols
    OBVIOUS
  <2> HIDE DEF S, s
  <2> QED
    BY <2>1, <2>2, OnlyFacts
<1> HIDE DEF seeds, more
<1>3. more \in Seq(Range(more))
  <2>1. Len(seeds) \in Nat /\ DOMAIN seeds = 1 .. Len(seeds)
    BY <1>2
  <2>2. DOMAIN more = 1 .. Len(seeds) /\ more = [i \in 1 .. Len(seeds) |-> more[i]]
    BY <1>1, <2>1
  <2>3. \A i \in 1 .. Len(seeds) : more[i] \in Range(more)
    BY <2>2 DEF Range
  <2> QED
    BY <2>1, <2>2, <2>3
<1>4. ASSUME NEW h \in Range(more)
      PROVE  h = [x \in ColumnNames(emit, History) |-> h[x]] /\ h[Fork] = Trunk(emit) /\ h[SimTime] = now
  <2>0. SeedRow(k, id, values, h)
    BY SeededRows DEF more
  <2>1. PICK c : h = HistoryRow(k, id, c, values[c.name])
    BY <2>0 DEF SeedRow
  <2> QED
    BY <2>1, HistoryRowShaped, HistoryRowFacts
<1>5. Shaped(emit, History, more) /\ \A h \in Range(more) : h[SimTime] = now
  BY <1>3, <1>4 DEF Shaped
<1> QED
  BY <1>5 DEF more

\* The cells of a new record that tell of its past.
LEMMA NewRecordTold ==
    ASSUME now \in Nat, IsTape(emit, now), SameForm(emit, Blank), NEW k \in Kinds, NEW id, NEW values
    PROVE  LET new == NewRecord(k, id, values) IN
           /\ new[RecordId] = id /\ new[Created] = now /\ new[Deactivated] = NULL
           /\ \A c \in PropColumns(SpecFor(Blank, RecordsOf(k))) :
                 /\ new[c.name] = values[c.name]
                 /\ c.refs # NULL => new[RefIndex(c.name[2])] = IndexOf(c.refs, values[c.name])
<1> DEFINE n == RecordsOf(k)
           new == NewRecord(k, id, values)
           C == ColumnNames(emit, n)
<1>1. \A x \in C : new[x] = NewCell(k, id, values, x)
  BY DEF NewRecord
<1>2. {RecordId, Created, Deactivated} \subseteq C
  BY DEF IsTape, RecordsKept
<1>4. new[RecordId] = id /\ new[Created] = now /\ new[Deactivated] = NULL
  <2> HIDE DEF new, C
  <2> QED
    BY <1>1, <1>2, NewCellFacts
<1>5. ASSUME NEW c \in PropColumns(SpecFor(Blank, n))
      PROVE  /\ new[c.name] = values[c.name]
             /\ c.refs # NULL => new[RefIndex(c.name[2])] = IndexOf(c.refs, values[c.name])
  <2> DEFINE p == c.name[2]
             x == RefIndex(p)
  <2>1. c.name \in C /\ c.name[1] = "prop" /\ c.name = PropOf(p) /\ ColumnFor(emit, n, c.name) = c
    BY FormFacts
  <2>2. NewCell(k, id, values, c.name) = values[c.name]
    <3>1. c.name \notin {Fork, RecordId, Presented, Created, Active, Deactivated, Mutated, RecordIndex}
      BY <2>1, NameFacts
    <3> QED
      BY <2>1, <3>1 DEF NewCell
  <2>3. /\ x \notin {Fork, RecordId, Presented, Created, Active, Deactivated, Mutated, RecordIndex}
        /\ x[1] # "prop" /\ x[2] = p
    BY DEF RefIndex, Fork, RecordId, Presented, Created, Active, Deactivated, Mutated, RecordIndex
  <2>4. NewCell(k, id, values, x) = IndexOf(c.refs, values[c.name])
    <3>1. ColumnFor(emit, RecordsOf(k), PropOf(x[2])) = c
      BY <2>1, <2>3
    <3> HIDE DEF x
    <3> QED
      BY <2>3, <3>1 DEF NewCell
  <2>5. c.refs # NULL => x \in C
    BY NamedApart
  <2> HIDE DEF new, C, x
  <2>6. new[c.name] = values[c.name] /\ (c.refs # NULL => new[x] = IndexOf(c.refs, values[c.name]))
    BY <1>1, <2>1, <2>2, <2>4, <2>5
  <2> QED
    BY <2>6 DEF x
<1> QED
  BY <1>4, <1>5

LEMMA NewRecordActive ==
    ASSUME IsTape(emit, now), NEW k \in Kinds, NEW id, NEW values
    PROVE  NewRecord(k, id, values)[Active] = TRUE
<1>1. Active \in ColumnNames(emit, RecordsOf(k))
  BY DEF IsTape, RecordsKept
<1>2. NewCell(k, id, values, Active) = TRUE
  BY NameFacts DEF NewCell
<1> QED
  BY <1>1, <1>2 DEF NewRecord

\* A record that is born tells of itself from its first row on.
LEMMA BornPast ==
    ASSUME now \in Nat, now <= LastTime, IsTape(emit, now), SameForm(emit, Blank), PastTold(emit),
           NEW k \in Kinds, Born(k)
    PROVE  PastTold(emit') /\ SameForm(emit', Blank) /\ Grown(emit, emit', now - 1)
<1> DEFINE n == RecordsOf(k)
           rows == Rows(n)
           props == PropColumns(SpecFor(Blank, n))
<1>0. ColumnsOf(k) = props
  BY FormFacts DEF ColumnsOf
<1>1. PICK id \in IdsOf(k) \ Existing(k) : \E values :
         /\ \A c \in props : values[c.name] \in Seeds(k, c)
         /\ emit' = After(emit, n, Append(rows, NewRecord(k, id, values)), Seeded(k, id, values))
  BY <1>0, WrittenAfter DEF Born
<1>1a. PICK values :
         /\ \A c \in props : values[c.name] \in Seeds(k, c)
         /\ emit' = After(emit, n, Append(rows, NewRecord(k, id, values)), Seeded(k, id, values))
  BY <1>1
<1> DEFINE born == NewRecord(k, id, values)
           all == Append(rows, born)
           more == Seeded(k, id, values)
           row(c) == HistoryRow(k, id, c, values[c.name])
<1>2. IsTape(emit', now)
  BY BornKeeps
<1>3. /\ Shaped(emit, History, more) /\ (\A h \in Range(more) : h[SimTime] = now)
      /\ \A h : h \in Range(more) <=> \E c \in props : c.tracked = TRUE /\ h = row(c)
  <2>1. Shaped(emit, History, more) /\ \A h \in Range(more) : h[SimTime] = now
    BY SeededFacts
  <2>2. \A h : h \in Range(more) <=> SeedRow(k, id, values, h)
    BY SeededRows
  <2>3. \A h : h \in Range(more) <=> \E c \in props : c.tracked = TRUE /\ h = row(c)
    BY <2>2 DEF SeedRow
  <2> QED
    BY <2>1, <2>3
<1>4. /\ n \in Tables(emit) /\ n # History /\ n # MemberTable /\ \A j : n = RecordsOf(j) => j = k
  BY TapeShape, KindFacts
<1>5. \A c : /\ row(c)[Kind] = k /\ row(c)[RecordId] = id
             /\ row(c)[Property] = c.name[2] /\ row(c)[SimTime] = now
  BY HistoryRowFacts
<1>6. /\ born[RecordId] = id /\ born[Created] = now /\ born[Active] = TRUE /\ born[Deactivated] = NULL
      /\ \A c \in props :
            /\ born[c.name] = values[c.name]
            /\ c.refs # NULL => born[RefIndex(c.name[2])] = IndexOf(c.refs, values[c.name])
  <2>1. born[RecordId] = id /\ born[Created] = now /\ born[Deactivated] = NULL
    BY NewRecordTold
  <2>3. born[Active] = TRUE
    BY NewRecordActive
  <2>2. \A c \in PropColumns(SpecFor(Blank, RecordsOf(k))) :
            /\ born[c.name] = values[c.name]
            /\ c.refs # NULL => born[RefIndex(c.name[2])] = IndexOf(c.refs, values[c.name])
    BY NewRecordTold
  <2> HIDE DEF born
  <2> QED
    BY <2>1, <2>2, <2>3
<1>7. rows \in Seq(Range(rows))
  BY ShapedTable DEF RowsShaped, Rows
<1> HIDE DEF rows, born
<1>8. /\ Len(rows) \in Nat /\ DOMAIN rows = 1 .. Len(rows)
      /\ DOMAIN all = 1 .. Len(rows) + 1 /\ Len(all) = Len(rows) + 1
      /\ \A i \in DOMAIN all : IF i = Len(rows) + 1 THEN all[i] = born
                               ELSE i \in DOMAIN rows /\ all[i] = rows[i]
  BY <1>7, AppendFacts
<1> DEFINE new == Range(more)
<1> HIDE DEF n, props, all, more, row, new
<1>9. RecordsGrown(k, rows, all, now - 1)
  BY <1>6, <1>8 DEF RecordsGrown, EndsLater
<1>10. /\ Grown(emit, emit', now - 1) /\ SameForm(emit', Blank) /\ Persisting(emit, emit')
       /\ TableRows(emit', History) = TableRows(emit, History) \cup new
       /\ \A j, b, x : Series(emit', j, b, x) = Series(emit, j, b, x) \cup
             {h \in new : h[Kind] = j /\ h[Property] = b /\ h[RecordId] = x}
       /\ \A j \in Kinds :
             /\ n = RecordsOf(j) => emit'.cat[RecordsOf(j)].rows = all
             /\ n # RecordsOf(j) => emit'.cat[RecordsOf(j)].rows = emit.cat[RecordsOf(j)].rows
  <2>1. \A j \in Kinds : n = RecordsOf(j) => RecordsGrown(j, Rows(n), all, now - 1)
    BY <1>4, <1>9 DEF rows
  <2>2. emit' = After(emit, n, all, more)
    BY <1>1a DEF all, more, n, born
  <2>3. new = Range(more)
    BY DEF new
  <2> QED
    BY <1>2, <1>3, <1>4, <2>1, <2>2, <2>3, StepFacts
<1>11. \A h : h \in new <=> \E c \in props : c.tracked = TRUE /\ h = row(c)
  BY <1>3 DEF new
<1>12. ASSUME NEW j, NEW b, NEW x, ~(j = k /\ x = id)
       PROVE  Series(emit', j, b, x) = Series(emit, j, b, x)
  <2>1. {h \in new : h[Kind] = j /\ h[Property] = b /\ h[RecordId] = x} = {}
    BY <1>5, <1>11, <1>12
  <2>2. Series(emit', j, b, x) = Series(emit, j, b, x) \cup
            {h \in new : h[Kind] = j /\ h[Property] = b /\ h[RecordId] = x}
    BY <1>10
  <2> QED
    BY <2>1, <2>2
<1>13. \A h \in TableRows(emit, History) : ~(h[Kind] = k /\ h[RecordId] = id)
  <2>1. \A r \in TableRows(emit, RecordsOf(k)) : r[RecordId] # id
    BY DEF Existing, Records, TableRows
  <2> QED
    BY <2>1 DEF PastTold, HistoryTold
<1>14. \A c, d \in props : c.name[2] = d.name[2] => c = d
  BY NamedApart DEF props, n
<1>15. emit'.cat[n].rows = all /\ born \in TableRows(emit', n)
  <2>1. emit'.cat[n].rows = all
    BY <1>10 DEF n
  <2>2. Len(rows) + 1 \in DOMAIN all /\ all[Len(rows) + 1] = born
    BY <1>8
  <2> QED
    BY <2>1, <2>2 DEF TableRows, Range
<1>16. HistoryTold(emit')
  <2>1. ASSUME NEW h \in new
        PROVE  /\ h[Kind] \in Kinds
               /\ \E r \in TableRows(emit', RecordsOf(h[Kind])) : r[RecordId] = h[RecordId]
               /\ \A g \in TableRows(emit, History) \cup new :
                     (\A x \in {Kind, Property, RecordId, SimTime} : g[x] = h[x]) => g = h
    <3>1. PICK c \in props : h = row(c)
      BY <1>11
    <3>2. h[Kind] = k /\ h[RecordId] = id /\ h[Property] = c.name[2]
      BY <1>5, <3>1
    <3>3. ASSUME NEW g \in TableRows(emit, History) \cup new,
                 \A x \in {Kind, Property, RecordId, SimTime} : g[x] = h[x]
          PROVE  g = h
      <4>1. g[Kind] = k /\ g[RecordId] = id /\ g[Property] = c.name[2]
        BY <3>2, <3>3
      <4>2. g \in new
        BY <1>13, <3>3, <4>1
      <4>3. PICK d \in props : g = row(d)
        BY <1>11, <4>2
      <4>4. d.name[2] = c.name[2]
        BY <1>5, <4>1, <4>3
      <4> QED
        BY <1>14, <3>1, <4>3, <4>4
    <3>4. \E r \in TableRows(emit', RecordsOf(h[Kind])) : r[RecordId] = h[RecordId]
      BY <1>6, <1>15, <3>2 DEF n
    <3> QED
      BY <3>2, <3>3, <3>4
  <2> QED
    BY <1>10, <2>1, HistoryStays DEF PastTold
<1>17. RecordTold(emit', k, born)
  <2>1. PropColumns(SpecFor(emit', n)) = props
    BY <1>2, <1>10, FormFacts DEF n, props
  <2>2. ASSUME NEW c \in props PROVE ValueTold(emit', k, born, c) /\ ReferenceTold(emit', born, c)
    <3> DEFINE p == c.name[2]
               v == values[c.name]
    <3>0. c \in PropColumns(SpecFor(Blank, RecordsOf(k))) /\ v \in Seeds(k, c)
      BY <1>1a DEF props, n
    <3>1. c.refs = NULL => v \in ValuesOf(k, c.name[2]) \cup SeedsOf(k, c.name[2])
      BY <3>0 DEF Seeds
    <3> DEFINE before == Series(emit, k, p, id)
    <3>2. c.tracked = TRUE =>
            /\ Series(emit', k, c.name[2], born[RecordId]) = before \cup {HistoryRow(k, born[RecordId], c, v)}
            /\ \A g \in before : g[SimTime] \in Int /\ g[SimTime] < now
      <4> SUFFICES ASSUME c.tracked = TRUE
                   PROVE  before = {} /\ Series(emit', k, p, id) = before \cup {row(c)}
        BY <1>6 DEF row
      <4>1. Series(emit, k, p, id) = {}
        BY <1>13, SeriesFacts
      <4>2. {h \in new : h[Kind] = k /\ h[Property] = p /\ h[RecordId] = id} = {row(c)}
        <5>1. row(c) \in new
          BY <1>11
        <5>2. ASSUME NEW h \in new, h[Property] = p PROVE h = row(c)
          <6>1. PICK d \in props : h = row(d)
            BY <1>11
          <6> QED
            BY <1>5, <1>14, <5>2, <6>1
        <5> QED
          BY <1>5, <5>1, <5>2
      <4>3. Series(emit', k, p, id) = Series(emit, k, p, id) \cup
              {h \in new : h[Kind] = k /\ h[Property] = p /\ h[RecordId] = id}
        BY <1>10
      <4> QED
        BY <4>1, <4>2, <4>3
    <3>3. born[c.name] = v /\ (c.refs # NULL => born[RefIndex(p)] = IndexOf(c.refs, v))
      BY <1>6
    <3>4. ValueTold(emit', k, born, c)
      <4> HIDE DEF v, before
      <4> QED
        BY <3>0, <3>1, <3>2, <3>3, NewestTold
    <3>5. ReferenceTold(emit', born, c)
      <4> SUFFICES ASSUME c.refs # NULL
                   PROVE  \/ born[c.name] = NULL /\ born[RefIndex(p)] = NULL
                          \/ \E y \in TableRows(emit', RecordsOf(c.refs)) :
                                y[RecordId] = born[c.name] /\ y[RecordIndex] = born[RefIndex(p)]
        BY DEF ReferenceTold
      <4>1. v = NULL \/ v \in Existing(c.refs)
        BY <3>0 DEF Seeds, Domain, Referable
      <4>2. c.refs \in Kinds
        BY <3>0, NamedApart
      <4> HIDE DEF v
      <4>3. \/ v = NULL /\ IndexOf(c.refs, v) = NULL
            \/ \E y \in TableRows(emit', RecordsOf(c.refs)) :
                  y[RecordId] = v /\ y[RecordIndex] = IndexOf(c.refs, v)
        BY <1>10, <4>1, <4>2, IndexTold
      <4> QED
        BY <3>3, <4>3
    <3> QED
      BY <3>4, <3>5
  <2> QED
    BY <1>6, <2>1, <2>2 DEF RecordTold, n
<1>18. ASSUME NEW r \in TableRows(emit, n) PROVE RecordTold(emit', k, r)
  <2>1. RecordTold(emit, k, r) /\ r[RecordId] # id
    BY DEF PastTold, n, Existing, Records, TableRows
  <2>2. PropColumns(SpecFor(emit', n)) = props /\ PropColumns(SpecFor(emit, n)) = props
    BY <1>2, <1>10, FormFacts DEF n, props
  <2>3. ASSUME NEW c \in props PROVE ValueTold(emit', k, r, c) /\ ReferenceTold(emit', r, c)
    <3>1. ValueTold(emit, k, r, c) /\ ReferenceTold(emit, r, c)
      BY <2>1, <2>2 DEF RecordTold, n
    <3>2. Series(emit', k, c.name[2], r[RecordId]) = Series(emit, k, c.name[2], r[RecordId])
      BY <1>12, <2>1
    <3>3. c \in PropColumns(SpecFor(Blank, RecordsOf(k)))
      BY DEF props, n
    <3> QED
      BY <1>10, <3>1, <3>2, <3>3, StillTold
  <2> QED
    BY <2>1, <2>2, <2>3 DEF RecordTold, n
<1>19. ASSUME NEW j \in Kinds, NEW q \in TableRows(emit', RecordsOf(j)) PROVE RecordTold(emit', j, q)
  <2>1. CASE j = k
    <3>1. PICK i \in DOMAIN all : q = all[i]
      BY <1>15, <2>1 DEF TableRows, Range, n
    <3>2. q = born \/ \E r \in TableRows(emit, n) : q = r
      <4>1. \A l \in DOMAIN rows : rows[l] \in TableRows(emit, n)
        BY DEF rows, Rows, TableRows, Range
      <4> QED
        BY <1>8, <3>1, <4>1
    <3> QED
      BY <1>17, <1>18, <2>1, <3>2
  <2>2. CASE j # k
    <3>1. emit'.cat[RecordsOf(j)].rows = emit.cat[RecordsOf(j)].rows
      BY <1>4, <1>10, <2>2
    <3>2. \A b, x : Series(emit', j, b, x) = Series(emit, j, b, x)
      BY <1>12, <2>2
    <3> QED
      BY <1>2, <1>10, <3>1, <3>2, KindUntouched
  <2> QED
    BY <2>1, <2>2
<1> QED
  BY <1>10, <1>16, <1>19 DEF PastTold

\* The emit of every instant is the one of now without what happened since.
PastKept ==
    /\ Conforming /\ PastTold(emit) /\ SameForm(emit, Blank)
    /\ past \in Seq(Range(past)) /\ Len(past) = now
    /\ \A t \in Past : /\ IsTape(At(t), t) /\ PastTold(At(t)) /\ SameForm(At(t), Blank)
                       /\ Grown(At(t), emit, t)

LEMMA ChangePast ==
    ASSUME PastKept, Next, ~Tick
    PROVE  /\ PastTold(emit') /\ SameForm(emit', Blank) /\ Grown(emit, emit', now - 1)
           /\ IsTape(emit', now) /\ now' = now /\ past' = past
<1>1. now \in Nat /\ now <= LastTime /\ IsTape(emit, now) /\ PastTold(emit) /\ SameForm(emit, Blank)
  BY TapeAssumption DEF PastKept, Conforming
<1>2. now' = now /\ past' = past
  BY DEF Next, Born, Write, Deactivate, Enter, Exit, Change
<1>3. CASE \E k \in Kinds : Born(k)
  BY <1>1, <1>2, <1>3, BornPast, BornKeeps
<1>4. CASE \E k \in Kinds : Write(k)
  BY <1>1, <1>2, <1>4, WritePast, WriteKeeps
<1>5. CASE \E k \in Kinds : Deactivate(k)
  BY <1>1, <1>2, <1>5, DeactivatePast, DeactivateKeeps
<1>6. CASE Enter
  BY <1>1, <1>2, <1>6, EnterPast, EnterKeeps
<1>7. CASE Exit
  BY <1>1, <1>2, <1>7, ExitPast, ExitKeeps
<1> QED
  BY <1>3, <1>4, <1>5, <1>6, <1>7 DEF Next

LEMMA NextPast ==
    ASSUME PastKept, [Next]_vars
    PROVE  PastKept'
<1>1. CASE UNCHANGED vars
  BY <1>1 DEF vars, PastKept, Conforming, Past, At
<1>2. CASE Next /\ ~Tick
  <2>1. /\ PastTold(emit') /\ SameForm(emit', Blank) /\ Grown(emit, emit', now - 1)
        /\ IsTape(emit', now) /\ now' = now /\ past' = past
    BY <1>2, ChangePast
  <2>2. now \in Nat /\ IsTape(emit, now) /\ now \in 0 .. LastTime
    BY TapeAssumption DEF PastKept, Conforming
  <2>3. ASSUME NEW t \in Past PROVE Grown(At(t), emit', t)
    <3>1. t \in Int /\ t <= now - 1 /\ now - 1 \in Int
      BY <2>2 DEF Past
    <3>2. IsTape(At(t), t) /\ Grown(At(t), emit, t)
      BY DEF PastKept
    <3>3. \A n \in {History, MemberTable} \cup {RecordsOf(k) : k \in Kinds} : Len(At(t).cat[n].rows) \in Nat
      BY <3>2, ShapedTable
    <3> QED
      BY <2>1, <2>2, <3>1, <3>2, <3>3, GrownTrans
  <2>4. Past' = Past /\ \A t \in Past : At(t)' = At(t)
    BY <2>1 DEF Past, At
  <2>5. Conforming'
    BY <2>1, <2>2 DEF Conforming
  <2>6. \A t \in Past' : /\ IsTape(At(t)', t) /\ PastTold(At(t)') /\ SameForm(At(t)', Blank)
                          /\ Grown(At(t)', emit', t)
    BY <2>3, <2>4 DEF PastKept
  <2>7. past' \in Seq(Range(past')) /\ Len(past') = now'
    BY <2>1 DEF PastKept
  <2> QED
    BY <2>1, <2>5, <2>6, <2>7 DEF PastKept
<1>3. CASE Tick
  <2>1. now \in Nat /\ now' = now + 1 /\ past' = Append(past, emit) /\ emit' = emit /\ now < LastTime
    BY <1>3, TapeAssumption DEF Tick, PastKept, Conforming
  <2>2. IsTape(emit, now) /\ PastTold(emit) /\ SameForm(emit, Blank) /\ past \in Seq(Range(past)) /\ Len(past) = now
    BY DEF PastKept, Conforming
  <2> DEFINE all == Append(past, emit)
  <2>3. /\ DOMAIN all = 1 .. now + 1 /\ all \in Seq(Range(all)) /\ Len(all) = now + 1
        /\ \A i \in DOMAIN all : IF i = now + 1 THEN all[i] = emit ELSE i \in DOMAIN past /\ all[i] = past[i]
    BY <2>2, AppendFacts
  <2> HIDE DEF all
  <2>4. IsTape(emit, now + 1) /\ Conforming'
    <3>1. IsTape(emit, now + 1)
      BY <2>1, <2>2, LaterTape
    <3>2. now + 1 \in 0 .. LastTime
      BY <2>1, TapeAssumption
    <3> QED
      BY <2>1, <3>1, <3>2 DEF Conforming
  <2>5. Grown(emit, emit, now)
    <3>1. \A n \in {History, MemberTable} \cup {RecordsOf(k) : k \in Kinds} :
             Len(emit.cat[n].rows) \in Nat /\ DOMAIN emit.cat[n].rows = 1 .. Len(emit.cat[n].rows)
      BY <2>2, ShapedTable
    <3> QED
      BY <3>1, GrownSame DEF Grown
  <2>6. ASSUME NEW t \in 0 .. now
        PROVE  IsTape(all[t + 1], t) /\ PastTold(all[t + 1]) /\ SameForm(all[t + 1], Blank) /\ Grown(all[t + 1], emit, t)
    <3>1. t + 1 \in DOMAIN all
      BY <2>1, <2>3
    <3>2. CASE t = now
      BY <2>2, <2>3, <2>5, <3>1, <3>2
    <3>3. CASE t # now
      <4>1. all[t + 1] = past[t + 1] /\ t \in Past
        BY <2>1, <2>3, <3>1, <3>3 DEF Past
      <4> QED
        BY <4>1 DEF PastKept, At
    <3> QED
      BY <3>2, <3>3
  <2>7. Past' = 0 .. now /\ past' = all
    BY <2>1 DEF Past, all
  <2>8. \A t \in Past' : /\ IsTape(At(t)', t) /\ PastTold(At(t)') /\ SameForm(At(t)', Blank)
                          /\ Grown(At(t)', emit', t)
    BY <2>1, <2>6, <2>7 DEF At
  <2>9. past' \in Seq(Range(past')) /\ Len(past') = now'
    BY <2>1, <2>3, <2>7
  <2> QED
    BY <2>1, <2>2, <2>4, <2>8, <2>9 DEF PastKept
<1> QED
  BY <1>1, <1>2, <1>3

\* PastKept is kept in every behaviour of the producer.
LEMMA TapeKeepsPast == Spec => []PastKept
<1>1. Init => PastKept
  <2> SUFFICES ASSUME Init PROVE PastKept
    OBVIOUS
  <2>1. emit = Blank /\ now = 0 /\ past = <<>>
    BY DEF Init
  <2>2. IsTape(Blank, 0) /\ PastTold(Blank) /\ SameForm(Blank, Blank) /\ LastTime \in Nat
    BY TapeAssumption, BlankForm
  <2>3. Past = {} /\ past \in Seq(Range(past)) /\ Len(past) = now
    BY <2>1 DEF Past
  <2> QED
    BY <2>1, <2>2, <2>3 DEF PastKept, Conforming
<1>2. PastKept /\ [Next]_vars => PastKept'
  BY NextPast
<1> QED
  BY <1>1, <1>2, PTL DEF Spec

\* Where the past of every reference is known, the truncated tape at an instant holds
\* the rows, the columns and the cells the producer would have handed over then
\* (truncated_tape.py, open_truncated_tape; derivations.md, "The truncated-tape
\* surface").
THEOREM TruncationKeepsPast ==
    ASSUME ReferencesKnown
    PROVE  Spec => []TruncationIsPast
<1>1. ASSUME PastKept PROVE TruncationIsPast
  <2> SUFFICES ASSUME NEW t \in Past, NEW n \in Tables(emit)
               PROVE  LET cut == Truncated(emit, t) IN
                      /\ ColumnNames(cut, n) = {c \in ColumnNames(emit, n) :
                            n[1] = "records" => ~NonExemptSliceOnly(emit, n[2], c)}
                      /\ Len(cut.cat[n].rows) = Len(At(t).cat[n].rows)
                      /\ Sameness(cut, n, ColumnNames(cut, n)) = Sameness(At(t), n, ColumnNames(cut, n))
    BY DEF TruncationIsPast
  <2>1. /\ IsTape(At(t), t) /\ PastTold(At(t)) /\ SameForm(At(t), Blank) /\ Grown(At(t), emit, t)
        /\ IsTape(emit, now) /\ SameForm(emit, Blank)
    BY <1>1 DEF PastKept, Conforming
  <2>2. t \in Nat /\ now \in Nat /\ t <= now /\ now <= LastTime
    BY <1>1, TapeAssumption DEF PastKept, Conforming, Past
  <2> QED
    BY <2>1, <2>2, TapePast
<1>2. PastKept => TruncationIsPast
  BY <1>1
<1> QED
  BY <1>2, TapeKeepsPast, PTL
=============================================================================
