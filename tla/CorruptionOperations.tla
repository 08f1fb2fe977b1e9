------------------------ MODULE CorruptionOperations ------------------------
(***************************************************************************)
(* corrupters/operations/: the twelve operations of a corrupt run, each as *)
(* the function its handler computes from the working state.               *)
(*                                                                         *)
(* A working state S is [tabs, deleted, marks]: the working set, the       *)
(* (kind, record_id) tombstones and the record_index high-water marks. An  *)
(* outcome is [state, defects, error]: the defects planted, each           *)
(* [class, impact], and whether the handler raised. Which units an         *)
(* operation draws (amount, where, placement, the seeded generator) is the *)
(* caller's choice: the handlers take the drawn units. Cell units are      *)
(* [table, row, column], row units [table, row], row a physical index.     *)
(***************************************************************************)
EXTENDS CorruptionImpact

Outcome(S, defects, error) == [state |-> S, defects |-> defects, error |-> error]
Defect(class, impact)      == [class |-> class, impact |-> impact]
OrBeyond(codes)            == IF codes = {} THEN {Beyond} ELSE codes

\* The rows of a table without those at the given physical indices.
Without(rows, gone) == Only(rows, DOMAIN rows \ gone)

\* The table rewritten in the cells of value (cell unit -> value); the sibling
\* of a reference, a column that exists beside a reference only, takes index.
Rewritten(T, n, value, index) ==
    LET at(i, c) == [table |-> n, row |-> i, column |-> c]
    IN  [T[n] EXCEPT !.rows =
           [i \in DOMAIN @ |-> [c \in DOMAIN @[i] |->
              IF at(i, c) \in DOMAIN value THEN value[at(i, c)]
              ELSE IF c[1] = "ref_index" /\ at(i, PropOf(c[2])) \in DOMAIN value
              THEN index[at(i, PropOf(c[2]))] ELSE @[i][c]]]]

RewrittenAll(T, value, index) == [n \in DOMAIN T |-> Rewritten(T, n, value, index)]

\* `columns` maps a table to the columns the operation matches.
CellUnits(T, columns) ==
    UNION {{[table |-> n, row |-> i, column |-> c] : i \in DOMAIN T[n].rows, c \in columns[n]} :
              n \in DOMAIN T}

RowUnits(T, names) ==
    UNION {{[table |-> n, row |-> i] : i \in DOMAIN T[n].rows} : n \in names \cap DOMAIN T}

\* The physical rows of table n among the drawn row units.
DrawnOf(units, n) == {u.row : u \in {w \in units : w.table = n}}

CellOf(T, u) == T[u.table].rows[u.row][u.column]

\* The series a records cell is compared with.
CellSeries(T, u) == <<T[u.table].kind, u.column[2], T[u.table].rows[u.row][RecordId]>>

---------------------------------------------------------------------------
(* null_cells *)

Nullable(c) ==
    \/ c \in {Presented, Deactivated, Left}
    \/ c[1] \in {"prop", "elem", "member_kind", "member_id"}

\* Mutant: half a member reference is not a NULL group.
NullImpact_NoPair(T, n, r, d) ==
    IF d.name[1] = "prop" /\ d.tracked = TRUE /\ d.type \in RoundTrippable
       /\ SeriesExists(T, <<T[n].kind, d.name[2], r[RecordId]>>)
    THEN {"C6"} ELSE IF d.name = Deactivated THEN {"C7"} ELSE {Beyond}

NullImpact(T, n, r, d) ==
    LET c == d.name
    IN  IF \/ c[1] = "prop" /\ d.tracked = TRUE /\ d.type \in RoundTrippable
              /\ T[n].kind # NULL /\ SeriesExists(T, <<T[n].kind, c[2], r[RecordId]>>)
        THEN {"C6"}
        ELSE IF c = Deactivated \/ (IsMemberRef(c) /\ r[Partner(c)] # NULL)
        THEN {"C7"} ELSE {Beyond}

\* The drawn cells in their pooled order: an already NULL one is no defect, and
\* the impact of a later one is read with the earlier ones cleared.
NullCells(S, units) ==
    LET T          == S.tabs
        present    == {i \in DOMAIN units : CellOf(T, units[i]) # NULL}
        cleared(k) == LET nulls == [u \in {units[i] : i \in present \cap 1..k} |-> NULL]
                      IN  RewrittenAll(T, nulls, nulls)
        impact(i)  == LET before == cleared(i - 1)
                          t      == before[units[i].table]
                      IN  NullImpact(before, units[i].table, t.rows[units[i].row],
                                     SpecOf(t, units[i].column))
    IN  Outcome([S EXCEPT !.tabs = cleared(Len(units))],
                {Defect("missing_value", impact(i)) : i \in present}, FALSE)

---------------------------------------------------------------------------
(* dangle_reference and mispoint_reference *)

ReferenceColumn(n, d) == d.name[1] = "member_id" \/ IsReference(d)

\* The kind a reference cell points at; NULL when the cell or its kind is.
TargetKind(T, u) ==
    LET r == T[u.table].rows[u.row]
    IN  IF r[u.column] = NULL THEN NULL
        ELSE IF u.column[1] = "member_id" THEN r[Partner(u.column)]
        ELSE SpecOf(T[u.table], u.column).refs

ReferenceUnits(T) ==
    {u \in CellUnits(T, [n \in DOMAIN T |-> {d.name : d \in {c \in Range(T[n].cols) : ReferenceColumn(n, c)}}]) :
       TargetKind(T, u) # NULL /\ RecordsOf(TargetKind(T, u)) \in DOMAIN T}

RecordIds(T, k) == {r[RecordId] : r \in Range(RowsOf(T, RecordsOf(k)))}

\* __dangling__n for the smallest n absent from the kind; its ref_index is
\* -(n + 1), the number this model gives the id too.
Sentinel(T, k) == -1 - (CHOOSE n \in 0..Cardinality(RecordIds(T, k)) :
                          /\ (-1 - n) \notin RecordIds(T, k)
                          /\ \A m \in 0..(n - 1) : (-1 - m) \in RecordIds(T, k))

DangleImpact(T, u) ==
    LET t == T[u.table]
        r == t.rows[u.row]
        d == SpecOf(t, u.column)
    IN  IF u.column[1] = "member_id" THEN {"C10"}
        ELSE IF d.tracked = TRUE /\ t.kind # NULL
                /\ SeriesExists(T, <<t.kind, u.column[2], r[RecordId]>>)
        THEN {"C6"} ELSE {Beyond}

DangleReference(S, units) ==
    LET T == S.tabs
        sentinel == [u \in units |-> Sentinel(T, TargetKind(T, u))]
    IN  Outcome([S EXCEPT !.tabs = RewrittenAll(T, sentinel, sentinel)],
                {Defect("dangling_reference", DangleImpact(T, u)) : u \in units}, FALSE)

\* resolve_reference_write_anchor: when the reference was last written.
WriteAnchor(T, sc, u) ==
    LET t == T[u.table]
        r == t.rows[u.row]
        a == Anchor(T, sc, <<t.kind, u.column[2], r[RecordId]>>)
    IN  IF u.column[1] = "member_id" THEN r[Joined]
        ELSE IF t.kind # NULL /\ SpecOf(t, u.column).tracked = TRUE /\ a.found
        THEN a.time ELSE r[Mutated]

\* resolve_donor_pool: another live record, created after the anchor when the
\* operation is constrained to a point in time.
DonorPool(T, sc, u, constrained) ==
    LET rows == Range(RowsOf(T, RecordsOf(TargetKind(T, u))))
        ids  == {r[RecordId] : r \in rows} \ {CellOf(T, u)}
    IN  {id \in ids : constrained =>
           \A r \in rows : r[RecordId] = id => r[Created] > WriteAnchor(T, sc, u)}

\* donor_record_index: the first physical row of the donor.
DonorIndex(T, k, id) ==
    Head(SelectSeq(RowsOf(T, RecordsOf(k)), LAMBDA r : r[RecordId] = id))[RecordIndex]

MispointImpact(T, sc, u) ==
    LET t == T[u.table]
    IN  IF u.column[1] # "member_id" /\ SpecOf(t, u.column).tracked = TRUE
           /\ t.kind # NULL /\ RoundTripFails(T, sc, CellSeries(T, u))
        THEN {"C6"} ELSE {Beyond}

\* donor maps each drawn unit to the record drawn from its pool.
MispointReference(S, sc, units, donor, constrained) ==
    LET T        == S.tabs
        index    == [u \in units |-> DonorIndex(T, TargetKind(T, u), donor[u])]
        T2       == RewrittenAll(T, donor, index)
        class    == IF constrained THEN "point_in_time_dangling_reference"
                                   ELSE "mispointed_reference"
        asked    == IF constrained THEN ReferenceUnits(T) ELSE units
    IN  Outcome([S EXCEPT !.tabs = T2],
                {Defect(class, MispointImpact(T2, sc, u)) : u \in units},
                \E u \in asked : /\ u.column[1] = "prop" /\ SpecOf(T[u.table], u.column).tracked = TRUE
                                 /\ Anchor(T, sc, CellSeries(T, u)).error)

---------------------------------------------------------------------------
(* delete_rows and insert_rows *)

\* _delete_wake_impact, read from the state after the removal.
DeleteImpact(T, sc, n, id) ==
    LET k    == T[n].kind
        gone == \A r \in Range(T[n].rows) : r[RecordId] # id
    IN  IF T[n].category # "records" \/ ~gone THEN {Beyond}
        ELSE OrBeyond(
               (IF T[n].rows # <<>> /\ Pinned(sc, k, id) THEN {"C9"} ELSE {})
          \cup (IF \E h \in Range(RowsOf(T, History)) :
                     h[Kind] = k /\ h[RecordId] = id /\ RoundTripFails(T, sc, SeriesOf(h))
                THEN {"C6"} ELSE {})
          \cup (IF <<k, id>> \in MemberReferences(T) THEN {"C10"} ELSE {}))

DeleteRows(S, sc, units) ==
    LET T == S.tabs
        id(u) == T[u.table].rows[u.row][RecordId]
        T2 == [n \in DOMAIN T |-> [T[n] EXCEPT !.rows =
                 Without(@, DrawnOf(units, n))]]
        removed == {<<T[u.table].kind, id(u)>> :
                      u \in {w \in units : T[w.table].category = "records"}}
        orphans == {h \in Range(RowsOf(T, History)) :
                      <<h[Kind], h[RecordId]>> \in removed /\ h[RecordId] \notin RecordIds(T2, h[Kind])}
    IN  Outcome([S EXCEPT !.tabs = T2, !.deleted = @ \cup removed],
                {Defect("deleted_row", DeleteImpact(T2, sc, u.table, id(u))) : u \in units},
                \E h \in orphans : Anchor(T2, sc, SeriesOf(h)).error)

\* Mutant: a deleted record's id is free again.
IdUniverse_NoTombstones(S, sc, k) == RecordIds(S.tabs, k)

\* _kind_id_universe: every id the kind has had, wherever it is mentioned.
IdUniverse(S, sc, k) ==
    LET T == S.tabs
        referencing(n) == {d \in Range(T[n].cols) : d.name[1] = "prop" /\ d.refs = k}
        records == {n \in DOMAIN T : T[n].category = "records"}
    IN       RecordIds(T, k)
        \cup {r[RecordId] : r \in {h \in Range(RowsOf(T, History)) : h[Kind] = k}}
        \cup {pr[2] : pr \in {q \in MemberReferences(T) : q[1] = k}}
        \cup (UNION {{r[d.name] : d \in referencing(n), r \in Range(T[n].rows)} : n \in records}
                 \ {NULL})
        \cup (IF k \in DOMAIN sc.pinned THEN Range(sc.pinned[k]) ELSE {})
        \cup {d[2] : d \in {e \in S.deleted : e[1] = k}}

\* resample_donor_pool: the column's values; of history, of the same series class.
Donors(T, n, i, c) ==
    LET like(r) == n # History \/ (r[Kind] = T[n].rows[i][Kind] /\ r[Property] = T[n].rows[i][Property])
    IN  {r[c] : r \in {q \in Range(T[n].rows) : like(q)}} \ {NULL}

\* Clone row u under the fresh id and the next record_index, taking a column's
\* value from another row when resample maps it to one.
InsertRow(S, sc, u, id, resample) ==
    LET n       == u.table
        donor   == S.tabs[n].rows[u.row]
        phantom == [c \in DOMAIN donor |->
                      IF c = RecordId THEN id
                      ELSE IF c = RecordIndex THEN S.marks[n] + 1
                      ELSE IF c \in DOMAIN resample /\ donor[c] # NULL THEN resample[c]
                      ELSE donor[c]]
    IN  Outcome([S EXCEPT !.tabs[n].rows = Append(@, phantom), !.marks[n] = @ + 1],
                {Defect("phantom_row", WithC13({Beyond}, KindHasTracked(S.tabs[n])))}, FALSE)

---------------------------------------------------------------------------
(* mutate_cells and duplicate_rows *)

Mutable(T, n, d) ==
    CASE T[n].category = "records" ->
           d.name = Presented \/ (d.name[1] = "prop" /\ d.refs = NULL)
      [] T[n].category = "membership" -> d.name[1] = "elem"
      [] T[n].category = "fixed" -> d.name = Value

\* mutation_eligible_columns.
MutableColumns(T, n) == {d.name : d \in {c \in Range(T[n].cols) : Mutable(T, n, c)}}

\* mutate_cells' _cell_impact, read after the write.
MutatedCellImpact(T, sc, u) ==
    LET t == T[u.table]
        r == t.rows[u.row]
        v == r[u.column]
        d == SpecOf(t, u.column)
    IN  IF u.column[1] # "prop" THEN {Beyond}
        ELSE OrBeyond(
               (IF RoundTripFails(T, sc, CellSeries(T, u)) THEN {"C6"} ELSE {})
          \cup (IF d.type = "VARCHAR" /\ ActorUndeclared(sc, u.table, u.column, v)
                THEN {"C12"} ELSE {})
          \cup (IF EnumUndeclared(sc, t.kind, u.column, v, d.type) THEN {"C16"} ELSE {}))

\* _history_value_impact: the rewritten row was or becomes the anchor.
MutatedHistoryImpact(T, T2, sc, i) ==
    LET before == T[History].rows[i]
        after  == T2[History].rows[i]
        s      == SeriesOf(before)
    IN  IF RoundTripFails(T2, sc, s)
           /\ (IsAnchor(before, Anchor(T, sc, s)) \/ IsAnchor(after, Anchor(T2, sc, s)))
        THEN {"C6"} ELSE {Beyond}

\* value maps the drawn unit to the transform's result; an unchanged or NULL
\* cell is no defect.
MutateCells(S, sc, units, value) ==
    LET T       == S.tabs
        changed == {u \in units : CellOf(T, u) # NULL /\ value[u] # CellOf(T, u)}
        new     == [u \in changed |-> value[u]]
        T2      == RewrittenAll(T, new, new)
        series  == {IF u.table = History THEN SeriesOf(T[History].rows[u.row]) ELSE CellSeries(T, u) :
                      u \in {w \in changed : w.table = History \/ w.column[1] = "prop"}}
    IN  Outcome([S EXCEPT !.tabs = T2],
                {Defect("mutated_value",
                        IF u.table = History THEN MutatedHistoryImpact(T, T2, sc, u.row)
                        ELSE MutatedCellImpact(T2, sc, u)) : u \in changed},
                \E s \in series : Anchor(T, sc, s).error \/ Anchor(T2, sc, s).error)

\* Mutant: every record counts as pinned.
PinImpact_Unpinned(T, sc, n, id) == IF T[n].category = "records" THEN {"C9"} ELSE {}

PinImpact(T, sc, n, id) ==
    IF T[n].category = "records" /\ Pinned(sc, T[n].kind, id) THEN {"C9"} ELSE {}

\* An exact clone of every drawn row, appended to its table in their order.
DuplicateExact(S, sc, units) ==
    LET T == S.tabs
        id(u) == T[u.table].rows[u.row][RecordId]
    IN  Outcome([S EXCEPT !.tabs = [n \in DOMAIN T |->
                   [T[n] EXCEPT !.rows = @ \o Only(@, DrawnOf(units, n))]]],
                {Defect("duplicate_row", OrBeyond(PinImpact(T, sc, u.table, id(u)))) : u \in units},
                FALSE)

JitterColumn(n, d) ==
    d.name[1] \in {"prop", "elem"} /\ ~IsReference(d) /\ d.type \in {"BIGINT", "DOUBLE"}

\* _near_duplicate_impact and _conflict_duplicate_impact: the pin, and for
\* each changed property the series it now disagrees with.
CloneImpact(T, sc, n, r, changed, conflict, new) ==
    LET k == T[n].kind
        compared(c) ==
           IF conflict
           THEN /\ SpecOf(T[n], c).tracked = TRUE /\ SpecOf(T[n], c).type \in RoundTrippable
                /\ Anchor(T, sc, <<k, c[2], r[RecordId]>>).found
           ELSE SeriesExists(T, <<k, c[2], r[RecordId]>>)
        text(c) == SpecOf(T[n], c).type
    IN  OrBeyond(PinImpact(T, sc, n, r[RecordId])
          \cup (IF \E c \in changed : c[1] = "prop" /\ k # NULL /\ compared(c) THEN {"C6"} ELSE {})
          \cup (IF conflict /\ \E c \in changed : c[1] = "prop" /\ text(c) = "VARCHAR"
                                  /\ ActorUndeclared(sc, n, c, new[c])
                THEN {"C12"} ELSE {})
          \cup (IF conflict /\ \E c \in changed : c[1] = "prop" /\ k # NULL
                                  /\ EnumUndeclared(sc, k, c, new[c], text(c))
                THEN {"C16"} ELSE {}))

\* A clone of row u with the columns of new rewritten (jitter or a mutation).
DuplicateChanged(S, sc, u, new, conflict) ==
    LET T       == S.tabs
        r       == T[u.table].rows[u.row]
        changed == {c \in DOMAIN new : r[c] # NULL /\ new[c] # r[c]}
        clone   == [c \in DOMAIN r |-> IF c \in changed THEN new[c] ELSE r[c]]
        series  == {<<T[u.table].kind, c[2], r[RecordId]>> : c \in {d \in changed : d[1] = "prop"}}
    IN  Outcome([S EXCEPT !.tabs[u.table].rows = Append(@, clone)],
                {Defect(IF conflict THEN "conflicting_duplicate_row" ELSE "near_duplicate_row",
                        CloneImpact(T, sc, u.table, r, changed, conflict, new))},
                conflict /\ \E s \in series : Anchor(T, sc, s).error)

---------------------------------------------------------------------------
(* drop_events, freeze_series, shift_sim_time: history alone *)

SeriesAt(T, i) == SeriesOf(T[History].rows[i])

DropEvents(S, sc, gone) ==
    LET T  == S.tabs
        T2 == [T EXCEPT ![History].rows = Without(@, gone)]
        impact(i) ==
           LET r == T[History].rows[i]
               s == SeriesOf(r)
           IN  WithC13(IF ConverseBroken(T2, s[1], s[2]) THEN {"C11"}
                       ELSE AnchorImpact(r, Anchor(T, sc, s), RoundTripFails(T2, sc, s)),
                       MissingGenesis(T2, s))
    IN  Outcome([S EXCEPT !.tabs = T2], {Defect("dropped_event", impact(i)) : i \in gone},
                \E i \in gone : \/ Anchor(T, sc, SeriesAt(T, i)).error
                                \/ Anchor(T2, sc, SeriesAt(T, i)).error)

\* The canonical position of row i in its series: by time, value (NULL first),
\* and physically between equal rows.
Precedes(T, i, j) ==
    LET a == T[History].rows[i]
        b == T[History].rows[j]
    IN  \/ a[SimTime] < b[SimTime]
        \/ a[SimTime] = b[SimTime] /\ a[Value] = NULL /\ b[Value] # NULL
        \/ a[SimTime] = b[SimTime] /\ a[Value] # NULL /\ b[Value] # NULL /\ a[Value] < b[Value]
        \/ a[SimTime] = b[SimTime] /\ a[Value] = b[Value] /\ i < j

Position(T, i) ==
    Cardinality({j \in DOMAIN T[History].rows : SeriesAt(T, j) = SeriesAt(T, i) /\ Precedes(T, j, i)})

\* Keep the first cut[s] events of each drawn series.
FreezeSeries(S, sc, cut) ==
    LET T    == S.tabs
        gone == {i \in DOMAIN T[History].rows :
                   SeriesAt(T, i) \in DOMAIN cut /\ Position(T, i) >= cut[SeriesAt(T, i)]}
        T2   == [T EXCEPT ![History].rows = Without(@, gone)]
    IN  Outcome([S EXCEPT !.tabs = T2],
                {Defect("frozen_series_event",
                        AnchorImpact(T[History].rows[i], Anchor(T, sc, SeriesAt(T, i)),
                                     RoundTripFails(T2, sc, SeriesAt(T, i)))) : i \in gone},
                \E s \in DOMAIN cut : Anchor(T, sc, s).error \/ Anchor(T2, sc, s).error)

\* _predecessor_tick: the latest earlier time of the row's series, if any.
Earlier(T, i) == {r[SimTime] : r \in {q \in Range(Timeline(T, SeriesAt(T, i))) :
                                        q[SimTime] < T[History].rows[i][SimTime]}}
Predecessor(T, i) == CHOOSE t \in Earlier(T, i) : \A w \in Earlier(T, i) : w <= t

\* Move the rows of to (physical index -> new time) and declare the impacts.
ShiftSimTime(S, sc, to, class) ==
    LET T  == S.tabs
        T2 == [T EXCEPT ![History].rows =
                 [i \in DOMAIN @ |-> IF i \in DOMAIN to THEN [@[i] EXCEPT ![SimTime] = to[i]] ELSE @[i]]]
        impact(i) ==
           LET s == SeriesAt(T, i)
               moved == \/ IsAnchor(T[History].rows[i], Anchor(T, sc, s))
                        \/ IsAnchor(T2[History].rows[i], Anchor(T2, sc, s))
           IN  WithC13(IF moved /\ RoundTripFails(T2, sc, s) THEN {"C6"} ELSE {Beyond},
                       MissingGenesis(T2, s))
    IN  Outcome([S EXCEPT !.tabs = T2], {Defect(class, impact(i)) : i \in DOMAIN to},
                \E i \in DOMAIN to : \/ Anchor(T, sc, SeriesAt(T, i)).error
                                     \/ Anchor(T2, sc, SeriesAt(T, i)).error)

\* shift: collide moves an event onto its predecessor's time.
Collide(T, drawn) == [i \in drawn |-> Predecessor(T, i)]

\* shift: swap trades times with the first event at the predecessor's time;
\* a row already used, or an equal value, is skipped.
PartnerOf(T, i) ==
    CHOOSE j \in DOMAIN T[History].rows :
       /\ SeriesAt(T, j) = SeriesAt(T, i) /\ T[History].rows[j][SimTime] = Predecessor(T, i)
       /\ \A m \in DOMAIN T[History].rows :
             SeriesAt(T, m) = SeriesAt(T, i) /\ T[History].rows[m][SimTime] = Predecessor(T, i)
               => m = j \/ Precedes(T, j, m)

SwapOne(T, to, i) ==
    LET j == PartnerOf(T, i)
    IN  IF {i, j} \cap DOMAIN to # {} \/ T[History].rows[i][Value] = T[History].rows[j][Value]
        THEN to
        ELSE [m \in DOMAIN to \cup {i, j} |->
                IF m = i THEN T[History].rows[j][SimTime]
                ELSE IF m = j THEN T[History].rows[i][SimTime] ELSE to[m]]

Swap(T, drawn) == FoldLeft(LAMBDA to, i : SwapOne(T, to, i), <<>>, drawn)

---------------------------------------------------------------------------
(* distort_intervals: membership intervals *)

Timed == {Fork, RecordId, Joined, Left}

\* enumerate_member_timelines: one owner, one member, ordered by join.
SameMember(t, i, j) ==
    /\ t.rows[i][RecordId] = t.rows[j][RecordId]
    /\ \A c \in ColumnsOf(t) \ Timed : t.rows[i][c] = t.rows[j][c]

\* The row that follows i in its timeline; equal joins by leave, NULL first,
\* then in physical order.
Follows(t, i, j) ==
    LET left(a) == IF t.rows[a][Left] = NULL THEN -1 ELSE t.rows[a][Left]
        before(a, b) == \/ t.rows[a][Joined] < t.rows[b][Joined]
                        \/ t.rows[a][Joined] = t.rows[b][Joined] /\ left(a) < left(b)
                        \/ t.rows[a][Joined] = t.rows[b][Joined] /\ left(a) = left(b) /\ a < b
    IN  /\ SameMember(t, i, j) /\ before(i, j)
        /\ ~\E m \in DOMAIN t.rows : SameMember(t, i, m) /\ before(i, m) /\ before(m, j)

BoundaryOf(sc, r) == IF r[Left] = NULL THEN sc.slice ELSE r[Left]

Distortable(T, sc, mode, u) ==
    LET t == T[u.table]
        r == t.rows[u.row]
    IN  /\ r[Left] # NULL
        /\ CASE mode = "overlap" -> \E j \in DOMAIN t.rows : Follows(t, u.row, j)
                                      /\ BoundaryOf(sc, t.rows[j]) - t.rows[j][Joined] >= 2
             [] mode = "gap" -> r[Left] - r[Joined] >= 2
             [] mode = "left_before_join" -> r[Left] > r[Joined]

Distorted(T, sc, mode, u) ==
    LET t == T[u.table]
        r == t.rows[u.row]
        b == t.rows[CHOOSE j \in DOMAIN t.rows : Follows(t, u.row, j)]
    IN  CASE mode = "overlap" -> [r EXCEPT ![Left] = b[Joined] + ((BoundaryOf(sc, b) - b[Joined]) \div 2)]
          [] mode = "gap" -> [r EXCEPT ![Left] = r[Joined] + ((r[Left] - r[Joined]) \div 2)]
          [] mode = "left_before_join" -> [r EXCEPT ![Joined] = r[Left], ![Left] = r[Joined]]

IntervalClass(mode) ==
    CASE mode = "overlap" -> "overlapping_interval"
      [] mode = "gap" -> "interval_gap"
      [] mode = "left_before_join" -> "inverted_interval"

\* Every mutation is resolved from the state before the operation; an overlap
\* that changes nothing is no defect.
DistortIntervals(S, sc, mode, units) ==
    LET T       == S.tabs
        changed == {u \in units : Distorted(T, sc, mode, u) # T[u.table].rows[u.row]}
        at(n, i) == [table |-> n, row |-> i]
        T2 == [n \in DOMAIN T |-> [T[n] EXCEPT !.rows = [i \in DOMAIN @ |->
                 IF at(n, i) \in changed THEN Distorted(T, sc, mode, at(n, i)) ELSE @[i]]]]
    IN  Outcome([S EXCEPT !.tabs = T2],
                {Defect(IntervalClass(mode),
                        IF mode = "left_before_join" THEN {"C10"} ELSE {Beyond}) : u \in changed},
                FALSE)

---------------------------------------------------------------------------
(* schema_drift: rename [old -> new], retype [column -> type], drop {column} *)

\* _is_drift_eligible: a payload column, not a reference, not the discriminator.
DriftEligible(T, sc, n, d) ==
    \/ d.name[1] = "elem"
    \/ /\ d.name[1] = "prop" /\ d.refs = NULL
       /\ ~(/\ T[n].kind # NULL /\ d.name = PropOf(TypeProp(T[n].kind))
            /\ T[n].kind \in DOMAIN sc.enums /\ TypeProp(T[n].kind) \in DOMAIN sc.enums[T[n].kind])

NewName(drift, c) == IF c \in DOMAIN drift.rename THEN drift.rename[c] ELSE c

\* _apply_drift_to_spec.
EvolvedColumns(t, drift) ==
    LET kept == Only(t.cols, {i \in DOMAIN t.cols : t.cols[i].name \notin drift.drop})
    IN  [i \in DOMAIN kept |-> LET d == kept[i] IN
           [d EXCEPT !.name = NewName(drift, @),
                     !.type = IF d.name \in DOMAIN drift.retype THEN drift.retype[d.name] ELSE @]]

\* validate_corrupt_config's rules for one drift of table n.
DriftValid(T, sc, n, drift) ==
    LET touched == DOMAIN drift.rename \cup DOMAIN drift.retype \cup drift.drop
        kept    == ColumnsOf(T[n]) \ drift.drop
    IN  /\ touched \subseteq ColumnsOf(T[n])
        /\ \A c \in touched : DriftEligible(T, sc, n, SpecOf(T[n], c))
        /\ \A c \in DOMAIN drift.rename : drift.rename[c][1] = c[1]
        /\ \A c, d \in kept : NewName(drift, c) = NewName(drift, d) => c = d

\* CAST(v AS to) between the modelled types.
Cast(v, from, to) ==
    IF v = NULL \/ from = to THEN v
    ELSE IF to = "VARCHAR" THEN CastText(v, from)
    ELSE IF from = "VARCHAR" THEN v \div 2 ELSE v

\* _latest_history_value: not bounded by the slice, a NULL read as "None".
NoneText == 1000000
LatestText(T, s) ==
    LET rows == Range(Timeline(T, s))
        text(r) == IF r[Value] = NULL THEN NoneText ELSE r[Value]
        last == {r \in rows : \A q \in rows : q[SimTime] <= r[SimTime]}
    IN  CHOOSE v \in {text(r) : r \in last} : \A w \in {text(r) : r \in last} : w <= v

RetypeTripsC6(T, n, d, to) ==
    /\ d.tracked = TRUE /\ to \in RoundTrippable /\ T[n].kind # NULL
    /\ \E r \in Range(T[n].rows) :
          LET s == <<T[n].kind, d.name[2], r[RecordId]>>
              v == Cast(r[d.name], d.type, to)
          IN  v # NULL /\ Timeline(T, s) # <<>> /\ ToText(v, to) # LatestText(T, s)

RenameImpact(T, n, d, new) ==
    WithC13(IF d.tracked = TRUE THEN {"C11"} ELSE {Beyond},
            /\ d.tracked = TRUE /\ d.type \in RoundTrippable /\ T[n].kind # NULL
            /\ AnyMissingGenesis(T, T[n].kind, new[2]))

DriftedRow(t, drift, r) ==
    LET cols == Range(t.cols)
        old(c) == CHOOSE d \in cols : d.name \notin drift.drop /\ c = NewName(drift, d.name)
        cast(d) == IF d.name \in DOMAIN drift.retype
                   THEN Cast(r[d.name], d.type, drift.retype[d.name]) ELSE r[d.name]
    IN  [c \in {NewName(drift, d) : d \in ColumnsOf(t) \ drift.drop} |-> cast(old(c))]

SchemaDrift(S, n, drift) ==
    LET T == S.tabs
        t == T[n]
        spec(c) == SpecOf(t, c)
    IN  Outcome([S EXCEPT !.tabs[n] = [t EXCEPT !.cols = EvolvedColumns(t, drift),
                    !.rows = [i \in DOMAIN t.rows |-> DriftedRow(t, drift, t.rows[i])]]],
                {Defect("column_retype", IF RetypeTripsC6(T, n, spec(c), drift.retype[c])
                                         THEN {"C6"} ELSE {Beyond}) : c \in DOMAIN drift.retype}
                  \cup {Defect("column_rename", RenameImpact(T, n, spec(c), drift.rename[c])) :
                          c \in DOMAIN drift.rename}
                  \cup {Defect("column_drop", IF spec(c).tracked = TRUE THEN {"C11"} ELSE {Beyond}) :
                          c \in drift.drop},
                FALSE)
=============================================================================
