---------------------------- MODULE Conformance ----------------------------
(***************************************************************************)
(* reader/conformance.py: the sixteen checks C1..C16 that decide whether a *)
(* base emit (run.duckdb plus base.json) honours the producer's contract.  *)
(* The corrupters declare the defects they plant in terms of these checks. *)
(*                                                                         *)
(* An emit is a record                                                     *)
(*   cat       table name -> [cols: <<[name, type]>>, rows: <<row>>]       *)
(*   specs     the sidecar's table entries [name, category, kind,          *)
(*             property, rows (a count), cols: <<column spec>>]            *)
(*   branches  {[fork, slice]}, pinned, enums, roles, partition, surface,  *)
(*   schema    does base.json satisfy the vendored JSON schema?            *)
(* A column name is a tuple, its family and the property it is of:         *)
(* <<"record_id">>, <<"prop", p>>, <<"ref_index", p>>, <<"elem", e>>,      *)
(* <<"member_kind", f>>, <<"member_id", f>>. A row maps names to values.   *)
(*                                                                         *)
(* A numeric cell holds an integer n. A text is an integer as well: 2n is  *)
(* the text "n" and 2n+1 the text "n.0", in lexicographic order, so that   *)
(* the two renderings of one number differ as they do in the code.         *)
(***************************************************************************)
EXTENDS Integers, Sequences, FiniteSets, Functions

CONSTANT NULL   \* SQL's NULL and Python's None

Fork        == <<"fork_path">>
RecordId    == <<"record_id">>
Presented   == <<"presentation_id">>
Created     == <<"created_sim_time">>
Active      == <<"active">>
Deactivated == <<"deactivated_at">>
Mutated     == <<"last_mutation_sim_time">>
RecordIndex == <<"record_index">>
Kind        == <<"kind">>
Property    == <<"property">>
SimTime     == <<"sim_time">>
Value       == <<"value">>
Joined      == <<"joined_sim_time">>
Left        == <<"left_sim_time">>

History       == <<"history">>
RecordsOf(k)  == <<"records", k>>
PropOf(p)     == <<"prop", p>>
RefIndex(p)   == <<"ref_index", p>>   \* ref_index_sibling(prop__p)
TypeProp(k)   == k \o "_type"         \* the discriminator of a sub-typed kind

HistoryColumns ==
    << [name |-> Fork, type |-> "VARCHAR"], [name |-> Kind, type |-> "VARCHAR"],
       [name |-> RecordId, type |-> "VARCHAR"], [name |-> Property, type |-> "VARCHAR"],
       [name |-> SimTime, type |-> "BIGINT"], [name |-> Value, type |-> "VARCHAR"] >>

IdentityColumns ==
    << [name |-> Fork, type |-> "VARCHAR"], [name |-> RecordId, type |-> "VARCHAR"] >>

LifecycleColumns ==
    << [name |-> Created, type |-> "BIGINT"], [name |-> Active, type |-> "BOOLEAN"],
       [name |-> Deactivated, type |-> "BIGINT"], [name |-> Mutated, type |-> "BIGINT"] >>

IndexColumn == << [name |-> RecordIndex, type |-> "BIGINT"] >>

\* The positions of S in ascending order, and the elements of a sequence there: a
\* filter leaves the rows it keeps in their physical order.
Ascending(S) ==
    [i \in 1..Cardinality(S) |-> CHOOSE k \in S : Cardinality({j \in S : j <= k}) = i]
Only(rows, S) == LET at == Ascending(S) IN [i \in DOMAIN at |-> rows[at[i]]]

---------------------------------------------------------------------------
(* Text rendering. *)

RoundTrippable == {"BIGINT", "DOUBLE", "BOOLEAN", "VARCHAR"}

\* str(int(v)), repr(float(v)), "true"/"false", str(v).
ToText(v, type) ==
    CASE type = "BIGINT"  -> 2 * v
      [] type = "DOUBLE"  -> 2 * v + 1
      [] type = "BOOLEAN" -> IF v THEN -1 ELSE -2
      [] type = "VARCHAR" -> v

\* CAST(v AS VARCHAR), which renders every type.
CastText(v, type) == IF type \in RoundTrippable THEN ToText(v, type) ELSE 2 * v

---------------------------------------------------------------------------
(* What the checks read. *)

Tables(e)         == DOMAIN e.cat
TableRows(e, n)   == Range(e.cat[n].rows)
ColumnNames(e, n) == {c.name : c \in Range(e.cat[n].cols)}
TypeIn(cols, c)   == (CHOOSE d \in Range(cols) : d.name = c).type
Has(e, n, cs)     == n \in Tables(e) /\ cs \subseteq ColumnNames(e, n)
Shape(cols)       == [i \in DOMAIN cols |-> [name |-> cols[i].name, type |-> cols[i].type]]
SpecsOf(e, cat)   == {s \in e.specs : s.category = cat}
PropColumns(s)    == {c \in Range(s.cols) : c.name[1] = "prop"}

\* Does any record property carry history_tracked at all? C11 and C13 are
\* skipped for a producer older than the attribute.
AnyTracked(e) == \E s \in SpecsOf(e, "records") : \E c \in PropColumns(s) : c.tracked # NULL

\* The columns whose cells a history series can be compared with.
TrackedColumns(s) == {c \in PropColumns(s) : c.tracked = TRUE /\ c.type \in RoundTrippable}

HistoryPairs(e) == {<<r[Kind], r[Property]>> : r \in TableRows(e, History)}

---------------------------------------------------------------------------
(* C1..C5: the sidecar against its schema, the catalog and the pinned names. *)

C1(e) == e.schema

C2(e) ==
    /\ Tables(e) = {s.name : s \in e.specs}
    /\ \A s \in e.specs : s.name \in Tables(e) =>
          /\ Shape(s.cols) = e.cat[s.name].cols
          /\ s.rows = Len(e.cat[s.name].rows)

C3(e) ==
    /\ \E s \in e.specs : s.name = History
    /\ \A s \in SpecsOf(e, "records") : s.kind # NULL /\ s.name = RecordsOf(s.kind)
    /\ \A s \in SpecsOf(e, "membership") :
          s.kind # NULL /\ s.property # NULL /\ s.name = <<"membership", s.kind, s.property>>

StartsWith(cols, pinned) ==
    Len(cols) >= Len(pinned) /\ SubSeq(cols, 1, Len(pinned)) = pinned

C4(e) == \A s \in e.specs : s.name = History => StartsWith(Shape(s.cols), HistoryColumns)

\* The property block: prop__ columns, each reference followed by its BIGINT
\* ref_index__ sibling, and nothing else.
PropertyBlock(block) ==
    \A i \in DOMAIN block :
       \/ /\ block[i].name[1] = "prop"
          /\ block[i].refs # NULL =>
                /\ i < Len(block)
                /\ block[i + 1].name = RefIndex(block[i].name[2])
                /\ block[i + 1].type = "BIGINT"
       \/ /\ i > 1
          /\ block[i - 1].name[1] = "prop" /\ block[i - 1].refs # NULL
          /\ block[i].name = RefIndex(block[i - 1].name[2])

RecordsLayout(cols) ==
    LET named == Len(cols) > 2 /\ cols[3].name = Presented
        from  == IF named THEN 4 ELSE 3
        shape == Shape(cols)
    IN  /\ StartsWith(shape, IdentityColumns)
        /\ StartsWith(SubSeq(shape, from, Len(shape)), LifecycleColumns \o IndexColumn)
        /\ PropertyBlock(SubSeq(cols, from + 5, Len(cols)))

C5(e) == \A s \in SpecsOf(e, "records") : RecordsLayout(s.cols)

---------------------------------------------------------------------------
(* C6: the latest history value of a series, at or before the slice, is the *)
(* text of the record's cell. *)

BoundedSeries(e, b, k, p, id) ==
    {r \in TableRows(e, History) :
       r[Fork] = b.fork /\ r[Kind] = k /\ r[Property] = p /\ r[RecordId] = id
       /\ r[SimTime] <= b.slice}

\* ORDER BY sim_time DESC, value DESC: DuckDB puts NULL last.
LatestValue(rows) ==
    LET newest == {r \in rows : \A q \in rows : q[SimTime] <= r[SimTime]}
        texts  == {r[Value] : r \in newest} \ {NULL}
    IN  IF texts = {} THEN NULL ELSE CHOOSE v \in texts : \A w \in texts : w <= v

CellAgrees(text, cell, type) ==
    IF text = NULL \/ cell = NULL THEN text = cell ELSE text = ToText(cell, type)

\* Whether the pair (k, p) is compared at all; otherwise it is a skip.
SeriesComparable(e, k, p) ==
    /\ Has(e, RecordsOf(k), {RecordId, Fork, PropOf(p)})
    /\ TypeIn(e.cat[RecordsOf(k)].cols, PropOf(p)) \in RoundTrippable

SeriesRoundTrips(e, b, k, p, id) ==
    LET rows  == BoundedSeries(e, b, k, p, id)
        cells == {r \in TableRows(e, RecordsOf(k)) : r[Fork] = b.fork /\ r[RecordId] = id}
    IN  rows # {} =>
          /\ cells # {}
          /\ \A r \in cells : CellAgrees(LatestValue(rows), r[PropOf(p)],
                                         TypeIn(e.cat[RecordsOf(k)].cols, PropOf(p)))

C6Applies(e) ==
    /\ Has(e, History, {Fork, Kind, RecordId, Property, SimTime, Value})
    /\ e.branches # {}

C6(e) == C6Applies(e) =>
    \A h \in TableRows(e, History), b \in e.branches :
       SeriesComparable(e, h[Kind], h[Property])
         => SeriesRoundTrips(e, b, h[Kind], h[Property], h[RecordId])

---------------------------------------------------------------------------
(* C7..C10: NULL groups, branches, pins, membership intervals. *)

NullGroup(e, n, cs) ==
    LET present == cs \cap ColumnNames(e, n)
    IN  \A r \in TableRows(e, n) :
           (\A c \in present : r[c] = NULL) \/ (\A c \in present : r[c] # NULL)

DeactivatedIffInactive(e, n) == Has(e, n, {Active, Deactivated}) =>
    \A r \in TableRows(e, n) :
       (r[Active] = TRUE /\ r[Deactivated] = NULL) \/ (r[Active] = FALSE /\ r[Deactivated] # NULL)

MemberFields(e, n) == {c[2] : c \in {d \in ColumnNames(e, n) : d[1] = "member_kind"}}

ReferencePairsWhole(e, n) == n \in Tables(e) =>
    \A f \in MemberFields(e, n) : NullGroup(e, n, {<<"member_kind", f>>, <<"member_id", f>>})

C7(e) ==
    /\ \A s \in SpecsOf(e, "records") : DeactivatedIffInactive(e, s.name)
    /\ \A s \in SpecsOf(e, "membership") : ReferencePairsWhole(e, s.name)

DataForks(e) ==
    UNION {{r[Fork] : r \in TableRows(e, n)} \ {NULL} :
             n \in {s.name : s \in {t \in e.specs : Has(e, t.name, {Fork})}}}

C8(e) ==
    /\ Cardinality(e.branches) = 1
    /\ DataForks(e) = {b.fork : b \in e.branches}

\* One row for the pin in every fork the table has rows of; an absent table
\* cannot resolve it.
PinResolves(e, k, id) ==
    /\ RecordsOf(k) \in Tables(e)
    /\ Has(e, RecordsOf(k), {RecordId, Fork}) =>
          \A f \in {r[Fork] : r \in TableRows(e, RecordsOf(k))} \ {NULL} :
             Cardinality({i \in DOMAIN e.cat[RecordsOf(k)].rows :
                LET r == e.cat[RecordsOf(k)].rows[i] IN r[RecordId] = id /\ r[Fork] = f}) = 1

C9(e) == \A k \in DOMAIN e.pinned : \A label \in DOMAIN e.pinned[k] :
            PinResolves(e, k, e.pinned[k][label])

IntervalsOrdered(e, n) == Has(e, n, {Joined, Left}) =>
    \A r \in TableRows(e, n) :
       r[Left] # NULL /\ r[Joined] # NULL => r[Left] >= r[Joined]

MemberResolves(e, n, f) == Has(e, n, {<<"member_id", f>>}) =>
    \A r \in TableRows(e, n) :
       LET k == r[<<"member_kind", f>>]
           i == r[<<"member_id", f>>]
       IN  k # NULL /\ i # NULL /\ Has(e, RecordsOf(k), {RecordId, Fork}) =>
             \E q \in TableRows(e, RecordsOf(k)) : q[Fork] = r[Fork] /\ q[RecordId] = i

C10(e) == \A s \in SpecsOf(e, "membership") : s.name \in Tables(e) =>
    /\ IntervalsOrdered(e, s.name)
    /\ \A f \in MemberFields(e, s.name) : MemberResolves(e, s.name, f)

---------------------------------------------------------------------------
(* C11 and C13: which properties have history, and the genesis row. *)

\* Every (kind, property) of history is a declared, tracked column; a kind the
\* sidecar does not declare is skipped.
HistoryIsTracked(e) ==
    \A h \in HistoryPairs(e) : \A s \in SpecsOf(e, "records") : s.kind = h[1] =>
       \E c \in PropColumns(s) : c.name = PropOf(h[2]) /\ c.tracked = TRUE

TrackedHasHistory(e, s) ==
    s.kind # NULL /\ s.name \in Tables(e) /\ Len(e.cat[s.name].rows) > 0 =>
       \A c \in TrackedColumns(s) : <<s.kind, c.name[2]>> \in HistoryPairs(e)

C11(e) == AnyTracked(e) /\ Has(e, History, {Kind, Property}) =>
    /\ HistoryIsTracked(e)
    /\ \A s \in SpecsOf(e, "records") : TrackedHasHistory(e, s)

TemporalClassAgrees(c) ==
    /\ (c.tracked # NULL) <=> (c.temporal # NULL)
    /\ c.temporal # NULL => c.temporal \in {"constant", "tracked", "slice_only"}
    /\ c.temporal = "tracked" => c.tracked = TRUE
    /\ c.temporal = "slice_only" => c.tracked = FALSE

HasGenesis(e, s, p) == Has(e, s.name, {RecordId, Created}) =>
    \A r \in TableRows(e, s.name) : \E h \in TableRows(e, History) :
       h[Kind] = s.kind /\ h[Property] = p /\ h[RecordId] = r[RecordId]
       /\ h[SimTime] = r[Created] /\ h[SimTime] # NULL

C13Structural(e) == AnyTracked(e) =>
    \A s \in SpecsOf(e, "records") : \A c \in PropColumns(s) : TemporalClassAgrees(c)

C13Genesis(e) == AnyTracked(e) /\ Has(e, History, {Kind, Property, RecordId, SimTime}) =>
    \A s \in SpecsOf(e, "records") : s.kind # NULL =>
       \A c \in TrackedColumns(s) : HasGenesis(e, s, c.name[2])

C13(e) == C13Structural(e) /\ C13Genesis(e)

---------------------------------------------------------------------------
(* C12, C14..C16: the registries of the sidecar. *)

RoleNames(r) == IF r.flat # NULL THEN {r.flat} ELSE Range(r.subs)

\* The actor kind's sub-types are the declared domain and cover the data.
ActorSubtypes(e) == LET r == e.roles["actor"] IN r.flat = NULL =>
    /\ "actor" \in DOMAIN e.enums /\ "actor_type" \in DOMAIN e.enums["actor"]
         => DOMAIN r.subs = e.enums["actor"]["actor_type"]
    /\ Has(e, RecordsOf("actor"), {PropOf("actor_type")}) =>
         \A q \in TableRows(e, RecordsOf("actor")) :
            q[PropOf("actor_type")] \in DOMAIN r.subs \cup {NULL}

C12(e) == e.roles # NULL =>
    /\ \A s \in SpecsOf(e, "records") : s.kind # NULL => s.kind \in DOMAIN e.roles
    /\ \A k \in DOMAIN e.roles : RoleNames(e.roles[k]) \subseteq {"dimension", "fact"}
    /\ "actor" \in DOMAIN e.roles => ActorSubtypes(e)

SubTypes(e, k) ==
    IF k \in DOMAIN e.enums /\ TypeProp(k) \in DOMAIN e.enums[k]
    THEN e.enums[k][TypeProp(k)] ELSE {}

\* The columns a partition must cover, and the reference pairs among them.
ValueColumns(s) ==
    ({c.name : c \in {d \in Range(s.cols) : d.tracked # NULL}} \ {PropOf(TypeProp(s.kind))})
      \cup ({Presented} \cap {c.name : c \in Range(s.cols)})

ReferenceColumns(s) ==
    {c.name : c \in {d \in Range(s.cols) : d.refs # NULL /\ d.name \in ValueColumns(s)}}

PartitionOfKind(e, s) ==
    LET part == e.partition[s.kind]
        refs == ReferenceColumns(s)
    IN  /\ DOMAIN part = SubTypes(e, s.kind)
        /\ UNION Range(part) = ValueColumns(s) \cup {RefIndex(c[2]) : c \in refs}
        /\ \A t \in DOMAIN part, c \in refs : c \in part[t] <=> RefIndex(c[2]) \in part[t]

C14(e) == e.partition # NULL =>
    /\ DOMAIN e.enums # {}
    /\ DOMAIN e.partition = {s.kind : s \in {t \in SpecsOf(e, "records") :
          t.kind \in DOMAIN e.enums /\ TypeProp(t.kind) \in DOMAIN e.enums[t.kind]}}
    /\ \A s \in SpecsOf(e, "records") : s.kind \in DOMAIN e.partition => PartitionOfKind(e, s)

C15(e) == e.surface = "published" /\ ~e.projection /\ ~e.ruleDocs

ValuesDeclared(e, k, p) == Has(e, RecordsOf(k), {PropOf(p)}) =>
    \A r \in TableRows(e, RecordsOf(k)) : r[PropOf(p)] # NULL =>
       CastText(r[PropOf(p)], TypeIn(e.cat[RecordsOf(k)].cols, PropOf(p))) \in e.enums[k][p]

C16(e) == \A k \in DOMAIN e.enums : \A p \in DOMAIN e.enums[k] : ValuesDeclared(e, k, p)

---------------------------------------------------------------------------
\* validate: one result per check; run_check is membership in it.
Failing(e) ==
    LET failed(id, ok) == IF ok THEN {} ELSE {id}
    IN  failed("C1", C1(e)) \cup failed("C2", C2(e)) \cup failed("C3", C3(e))
          \cup failed("C4", C4(e)) \cup failed("C5", C5(e)) \cup failed("C6", C6(e))
          \cup failed("C7", C7(e)) \cup failed("C8", C8(e)) \cup failed("C9", C9(e))
          \cup failed("C10", C10(e)) \cup failed("C11", C11(e)) \cup failed("C12", C12(e))
          \cup failed("C13", C13(e)) \cup failed("C14", C14(e)) \cup failed("C15", C15(e))
          \cup failed("C16", C16(e))

Conformant(e) == Failing(e) = {}
=============================================================================
