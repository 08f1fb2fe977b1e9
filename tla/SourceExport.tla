---------------------------- MODULE SourceExport ----------------------------
(***************************************************************************)
(* exporters/source: the tables and the event log an accepted plan renders *)
(* from an emit, and the windowed export, which compiles the same plan on  *)
(* the tape truncated at both ends of a window.                            *)
(*                                                                         *)
(* A rendered value is compared as text where the code compares it so; the *)
(* pinned text of a rendered value is not told apart from the value.       *)
(***************************************************************************)
EXTENDS SourcePlan, Tape

CONSTANTS
    RenderAs(_, _), \* form, value: what _sql and the anchor make of a value
    Configs,        \* the configurations considered
    Corruptible     \* the kinds whose surrogates a corruption duplicates

Surfaces == {RecordId, RecordIndex, Presented}

\* A flat kind counts its surrogates for itself (bundle.md, "presentation_id"),
\* and a kind is in the registry iff it has them (base-format.md, "presentation_keys").
SurrogatesKept(e, k) ==
    LET rows == e.cat[RecordsOf(k)].rows
    IN  SubTypes(e, k) = {} /\ HasPresentationId(e, k) => \A i \in DOMAIN rows :
           /\ rows[i][Presented] # NULL
           /\ \A j \in DOMAIN rows : rows[i][Presented] = rows[j][Presented] => i = j

\* The identities of a kind have the types whose texts can be cast back, and every
\* record is of a sub-type the sidecar lists (base-format.md, "Sub-typed kind").
IdentitiesTyped(e, k) ==
    LET type(c) == ColumnFor(e, RecordsOf(k), c).type
    IN  /\ type(RecordId) = "VARCHAR" /\ type(RecordIndex) = "BIGINT"
        /\ HasPresentationId(e, k) => type(Presented) \in {"BIGINT", "DOUBLE", "VARCHAR"}
        /\ \A r \in TableRows(e, RecordsOf(k)) :
              /\ PopulationOf(e, k, r) \in PopulationsOf(e, k)
              /\ HasPresentationId(e, k) /\ type(Presented) \in {"BIGINT", "DOUBLE"} =>
                    r[Presented] \in Int \cup {NULL}

\* No record is born in a sub-type that is not listed, or moved to one.
TypesListed(k) == SubTypes(Blank, k) # {} =>
    \E c \in PropColumns(SpecFor(Blank, RecordsOf(k))) :
       /\ c.name = PropOf(TypeProp(k)) /\ c.refs = NULL
       /\ SeedsOf(k, TypeProp(k)) \cup ValuesOf(k, TypeProp(k)) \subseteq SubTypes(Blank, k)

ASSUME SourceAssumption ==
    /\ Corruptible \subseteq Kinds
    /\ "claims" \in DOMAIN Blank
    /\ Blank.claims # NULL => \A k \in DOMAIN Blank.claims : HasPresentationId(Blank, k)
    /\ \A k \in Kinds : /\ NULL \notin SubTypes(Blank, k) /\ SurrogatesKept(Blank, k)
                        /\ IdentitiesTyped(Blank, k) /\ TypesListed(k)
    /\ \A c \in Configs : \A k \in DOMAIN c.keys :
          c.keys[k].all \in Surfaces \cup {NULL} /\ Range(c.keys[k].of) \subseteq Surfaces

VARIABLE garbled    \* has a surrogate been duplicated?

Rendered(form, v) == IF v = NULL THEN NULL ELSE RenderAs(form, v)

---------------------------------------------------------------------------
(* renders.py: the cells of a table. *)

\* The relation is of every record, whatever the table selects.
SelfIdentity(e, k, surface, id) ==
    CASE surface = RecordId    -> id
      [] surface = RecordIndex -> LeftJoin(RecordIndexAt(e, k, NULL), id)
      [] surface = Presented   -> LeftJoin(PresentationKeyAt(e, k, NULL), id)

AllRecordId(edge) == \A k \in DOMAIN edge.targets : Range(edge.targets[k]) \subseteq {RecordId}

EdgeText(e, edge, kind, id) ==
    IF kind \notin DOMAIN edge.targets THEN NULL
    ELSE LeftJoin(Translation(e, kind, edge.targets[kind]), id)

\* Mutant: one population that keeps its record ids is enough to skip the join.
EdgeValue_AnyRecordId(e, edge, kind, id) ==
    IF \E k \in DOMAIN edge.targets : RecordId \in Range(edge.targets[k]) THEN id
    ELSE TryCast(EdgeText(e, edge, kind, id), edge.type)

EdgeValue(e, edge, kind, id) ==
    IF AllRecordId(edge) THEN id ELSE TryCast(EdgeText(e, edge, kind, id), edge.type)

EdgeOn(edges, c) == CHOOSE x \in edges : x.column = c
HasEdge(edges, c) == \E x \in edges : x.column = c

OnlyTarget(edge) == CHOOSE k \in DOMAIN edge.targets : TRUE

\* An instant is rendered with the default form if nothing else is elected.
PlainCell(t, c, v) ==
    IF c \in DOMAIN t.render THEN Rendered(t.render[c], v)
    ELSE IF c \in {Created, Deactivated, Mutated, Joined, Left} THEN Rendered("timestamp", v)
    ELSE v

StateCell(e, t, r, c) ==
    IF c = t.surface THEN SelfIdentity(e, t.kind, c, r[RecordId])
    ELSE IF HasEdge(t.edges, c) THEN
            LET x == EdgeOn(t.edges, c) IN EdgeValue(e, x, OnlyTarget(x), r[c])
    ELSE PlainCell(t, c, r[c])

\* build_state_render_sql.
StateTable(e, t) ==
    {[record |-> r[RecordId], cells |-> [c \in SourcesOf(t.columns) |-> StateCell(e, t, r, c)]] :
        r \in SelectedRecords(e, t.kind, t.populations, t.where)}

JunctionCell(e, t, labels, m, c) ==
    CASE c = RecordId /\ HasEdge(t.edges, c) -> EdgeValue(e, EdgeOn(t.edges, c), t.kind, m[c])
      [] c[1] = "member_id" -> EdgeValue(e, EdgeOn(t.edges, c), m[<<"member_kind", c[2]>>], m[c])
      [] c[1] = "member_kind" -> IF m[c] = NULL THEN NULL ELSE LabelOf(labels, m[c])
      [] OTHER -> PlainCell(t, c, m[c])

\* build_junction_render_sql: one row per interval of an owner selected.
JunctionTable(e, t, labels) ==
    LET rows  == e.cat[Membership(t.kind, t.property)].rows
        spine == Spine(e, t.kind, t.populations, t.where)
    IN  {[at |-> i, record |-> rows[i][RecordId],
          cells |-> [c \in SourcesOf(t.columns) |-> JunctionCell(e, t, labels, rows[i], c)]] :
            i \in {j \in DOMAIN rows : rows[j][Fork] = Trunk(e) /\ InSpine(spine, rows[j][RecordId])}}

---------------------------------------------------------------------------
(* events.py: the arms of the log. `changes` maps a key to <<old, new>>.   *)

\* The type an election's source has, which its text is cast back to.
ElectedSource == "decimal" :> "DOUBLE" @@ "instant" :> "BIGINT" @@ "json_precision" :> "VARCHAR"
                   @@ "date_parse" :> "VARCHAR"

LogValue(form, text) ==
    IF form = NULL THEN text ELSE Rendered(form, TryCast(text, ElectedSource[form]))

ItemId(e, log, s, id) == TryCast(LeftJoin(Translation(e, s.kind, s.items), id), log.type)

\* The value of an audited property in the image of an event, a reference translated.
ImageValue(e, s, ev, p) ==
    IF ev.after = NULL THEN NULL
    ELSE IF HasEdge(s.edges, PropOf(p)) THEN
            LET x == EdgeOn(s.edges, PropOf(p)) IN EdgeText(e, x, OnlyTarget(x), ev.after[p])
    ELSE ev.after[p]

Earlier(f, ev) == LexLess(<<f.time, f.class>>, <<ev.time, ev.class>>)

\* LAG over the events of the record.
OldValue(e, s, fold, ev, p) ==
    LET before == {f \in fold : f.record = ev.record /\ Earlier(f, ev)}
    IN  IF before = {} THEN NULL
        ELSE ImageValue(e, s, CHOOSE f \in before : \A g \in before : ~Earlier(f, g), p)

\* Mutant: an update is reported once every audited property has changed.
DiffKeys_All(e, s, fold, ev) ==
    LET same == {x \in s.audited : OldValue(e, s, fold, ev, x[1]) = ImageValue(e, s, ev, x[1])}
    IN  IF same = {} THEN s.audited ELSE {}

\* What an update reports: the audited properties whose value is another one.
DiffKeys(e, s, fold, ev) ==
    {x \in s.audited : OldValue(e, s, fold, ev, x[1]) # ImageValue(e, s, ev, x[1])}

PairsOf(e, s, fold, ev, audited) ==
    [key \in {x[2] : x \in audited} |->
        LET p == (CHOOSE x \in audited : x[2] = key)[1]
        IN  <<LogValue(s.forms[p], OldValue(e, s, fold, ev, p)),
              LogValue(s.forms[p], ImageValue(e, s, ev, p))>>]

Deactivation(log, time) ==
    "active" :> <<"true", "false">> @@ "deactivated_at" :> <<NULL, Rendered(log.form, time)>>

RecordChanges(e, log, s, fold, ev) ==
    CASE ev.class = Create -> PairsOf(e, s, fold, ev, s.audited)
      [] ev.class = Update -> PairsOf(e, s, fold, ev, DiffKeys(e, s, fold, ev))
      [] ev.class = Delete -> Deactivation(log, ev.time)

\* An entry of the log before it is numbered; `at` tells apart what looks alike.
Entry(log, s, id, event, ev, changed, fields, at) ==
    [itemType |-> s.itemType, id |-> id, event |-> event, occurred |-> Rendered(log.form, ev.time),
     changes |-> changed, record |-> ev.record, at |-> at,
     key |-> <<ev.time, NameRank(s.itemType), ev.class, ev.record>> \o fields]

\* _narrow_fold_by_spine_sql, then the fold, its translation and its differences.
RecordsArm(e, log, i) ==
    LET s     == log.sources[i]
        ps    == {x[1] : x \in s.audited}
        spine == Spine(e, s.kind, s.populations, s.where)
        fold  == {ev \in RowStateEvents(e, s.kind, ps, ps) : InSpine(spine, ev.record)}
        told  == {ev \in fold : ev.class = Update => DiffKeys(e, s, fold, ev) # {}}
    IN  {Entry(log, s, ItemId(e, log, s, ev.record), IF ev.class = Create THEN "create" ELSE "update",
               ev, RecordChanges(e, log, s, fold, ev), <<>>, <<i, 0>>) : ev \in told}

FieldValues(e, labels, s, ev, x) ==
    LET member == <<"member_kind", x[1]>>
        id     == <<"member_id", x[1]>>
    IN  IF HasEdge(s.edges, id)
        THEN (x[2] \o "_kind") :> (IF ev.after[member] = NULL THEN NULL
                                   ELSE LabelOf(labels, ev.after[member]))
               @@ (x[2] \o "_id") :> EdgeText(e, EdgeOn(s.edges, id), ev.after[member], ev.after[id])
        ELSE x[2] :> LogValue(s.forms[x[1]], ev.after[<<"elem", x[1]>>])

\* A join tells the new values, a leave the old ones.
MemberChanges(e, labels, s, ev) ==
    LET values == FoldSet(LAMBDA x, f : FieldValues(e, labels, s, ev, x) @@ f, <<>>, s.audited)
    IN  [key \in DOMAIN values |->
            IF ev.class = Join THEN <<NULL, values[key]>> ELSE <<values[key], NULL>>]

\* The order key over the audited columns, in their order; NULL comes first.
OrderFields(e, s, ev) ==
    LET cols == SelectSeq(SpecFor(e, Membership(s.kind, s.property)).cols,
                          LAMBDA c : c.name \in DOMAIN ev.after)
        rank(c) == IF ev.after[c] = NULL THEN -1
                   ELSE IF c[1] = "member_kind" THEN NameRank(ev.after[c]) ELSE ev.after[c]
    IN  [j \in DOMAIN cols |-> rank(cols[j].name)]

MembershipArm(e, log, labels, i) ==
    LET s     == log.sources[i]
        spine == Spine(e, s.kind, s.populations, s.where)
        fold  == {ev \in MembershipEvents(e, Membership(s.kind, s.property), {x[1] : x \in s.audited}) :
                    InSpine(spine, ev.record)}
    IN  {Entry(log, s, ItemId(e, log, s, ev.record), IF ev.class = Join THEN "create" ELSE "destroy",
               ev, MemberChanges(e, labels, s, ev), OrderFields(e, s, ev), <<i, ev.at>>) : ev \in fold}

\* Lexicographic order of keys that need not be equally long.
KeyLess(s, t) ==
    \/ Len(s) < Len(t) /\ SubSeq(t, 1, Len(s)) = s
    \/ \E i \in DOMAIN s \cap DOMAIN t : s[i] < t[i] /\ \A j \in 1 .. i - 1 : s[j] = t[j]

\* build_event_log_sql before the numbering.
Entries(e, plan) ==
    UNION {IF plan.log.sources[i].property = NULL THEN RecordsArm(e, plan.log, i)
           ELSE MembershipArm(e, plan.log, plan.labels, i) : i \in DOMAIN plan.log.sources}

\* Mutant: the log is ordered by item type first.
NumberOf_TypeFirst(entries, x) ==
    LET key(y) == <<y.key[2], y.key[1]>> \o SubSeq(y.key, 3, Len(y.key)) \o y.at
    IN  1 + Cardinality({y \in entries : KeyLess(key(y), key(x))})

\* ROW_NUMBER; what the key does not separate is numbered in some order.
NumberOf(entries, x) ==
    1 + Cardinality({y \in entries : KeyLess(y.key, x.key) \/ (y.key = x.key /\ KeyLess(y.at, x.at))})

Log(e, plan) ==
    LET entries == Entries(e, plan)
    IN  {[n |-> NumberOf(entries, x), itemType |-> x.itemType, id |-> x.id, event |-> x.event,
          occurred |-> x.occurred, changes |-> x.changes] : x \in entries}

---------------------------------------------------------------------------
(* engine.py. *)

\* A plan is made on a sidecar, and guarded against the data of the whole emit.
Accepted(e, c) == PlanResolves(e, c) /\ GuardsHold(emit, SourcePlanOf(e, c))

\* The compile at the end of a window: plan and queries on the truncated tape.
CompiledAt(at) == Truncated(emit, at)

LogOf(e, c) == Log(e, SourcePlanOf(e, c))

CompiledLog(c, at) == LogOf(CompiledAt(at), c)

\* compose_window_delta_sql: end EXCEPT ALL start.
WindowDelta(start, end) == end \ start

---------------------------------------------------------------------------
(* The emit is written, and a corruption may duplicate a surrogate key     *)
(* between two records of one population.                                  *)

SourceInit == Init /\ garbled = FALSE

Produce == Next /\ UNCHANGED garbled

Garble ==
    /\ ~garbled /\ garbled' = TRUE
    /\ \E k \in Corruptible : \E r, q \in Records(k) :
          /\ r # q /\ PopulationOf(emit, k, r) = PopulationOf(emit, k, q)
          /\ Written(RecordsOf(k),
                [i \in DOMAIN Rows(RecordsOf(k)) |->
                    IF Rows(RecordsOf(k))[i] = r
                    THEN [r EXCEPT ![Presented] = q[Presented]] ELSE Rows(RecordsOf(k))[i]], <<>>)
    /\ UNCHANGED <<now, past, changes>>

SourceNext == Produce \/ Garble

SourceSpec == SourceInit /\ [][SourceNext]_<<vars, garbled>>

---------------------------------------------------------------------------
(* Properties. Each is of what an accepted configuration exports once the  *)
(* run is over; the instants before are looked at through truncation.      *)

Exported == {c \in Configs : now = LastTime /\ Accepted(emit, c)}

\* What is exported in the end.
Plans == {SourcePlanOf(emit, c) : c \in Exported}

StateTables(plan) == {t \in Range(plan.tables) : t.property = NULL}
Junctions(plan)   == {t \in Range(plan.tables) : t.property # NULL}

\* A state table's identity column is a key: it names every row, and no two alike
\* (key-election.md: every identity relation the export composes is asserted).
IdentityIsKey == \A plan \in Plans :
    \A t \in StateTables(plan) : \A r, q \in StateTable(emit, t) :
       /\ r.cells[t.surface] # NULL
       /\ r # q => r.cells[t.surface] # q.cells[t.surface]

\* An item of the log is one record: whoever follows (item_type, item_id) follows
\* one history, whichever sources the entries came from (source.md, "item_id").
ItemsAreOne(entries) == \A x, y \in entries :
    /\ x.id # NULL
    /\ x.itemType = y.itemType /\ x.id = y.id => x.record = y.record

\* Entries the order of the log does not separate say the same, so the number an
\* entry gets is a function of the emit and nothing is told twice differently.
LogDeterministic(entries) == \A x, y \in entries : x.key = y.key =>
    <<x.itemType, x.id, x.event, x.changes>> = <<y.itemType, y.id, y.event, y.changes>>

\* The log is about records, and about each of them unambiguous.
LogIsSound == \A plan \in {p \in Plans : p.log # NULL} : \A entries \in {Entries(emit, plan)} :
    ItemsAreOne(entries) /\ LogDeterministic(entries)

AsText(v, type) == IF v = NULL THEN NULL ELSE CastText(v, type)

IdentityText(e, t, row) ==
    AsText(row.cells[t.surface], ColumnFor(e, RecordsOf(t.kind), t.surface).type)

EdgeCellText(x, v) == IF AllRecordId(x) THEN v ELSE AsText(v, x.type)

\* A cell as the log would tell it.
CellText(e, t, row, c) ==
    IF HasEdge(t.edges, c) THEN EdgeCellText(EdgeOn(t.edges, c), row.cells[c])
    ELSE IF c \in DOMAIN t.render THEN row.cells[c]
    ELSE AsText(row.cells[c], ColumnFor(e, RecordsOf(t.kind), c).type)

\* A rendered reference reads like the identity its target has in its own table, in
\* state tables and in both ends of a junction.
TablesJoin == \A plan \in Plans :
    LET joins(kind, id, text) ==
            \A u \in {v \in StateTables(plan) : v.kind = kind} :
               \A q \in {p \in StateTable(emit, u) : p.record = id} : IdentityText(emit, u, q) = text
        raw(t, row) == CHOOSE r \in TableRows(emit, RecordsOf(t.kind)) : r[RecordId] = row.record
    IN  /\ \A t \in StateTables(plan) : \A row \in StateTable(emit, t) : \A x \in t.edges :
              joins(OnlyTarget(x), raw(t, row)[x.column], CellText(emit, t, row, x.column))
        /\ \A t \in Junctions(plan) : \A row \in JunctionTable(emit, t, plan.labels) :
              LET m == Rows(Membership(t.kind, t.property))[row.at]
              IN  \A x \in t.edges :
                     joins(IF x.column = RecordId THEN t.kind ELSE m[<<"member_kind", x.column[2]>>],
                           m[x.column], EdgeCellText(x, row.cells[x.column]))

\* What the entries of an item say of a key in the end.
LastTold(rows, key) ==
    LET telling == {x \in rows : key \in DOMAIN x.changes}
    IN  IF telling = {} THEN NULL
        ELSE (CHOOSE x \in telling : \A y \in telling : y.n <= x.n).changes[key][2]

\* A table and a source about the same records.
Corresponding(plan, t) ==
    {s \in Range(plan.log.sources) : s.kind = t.kind /\ s.property = t.property
        /\ s.populations = t.populations /\ s.where = t.where}

RowToldBy(e, plan, t, s, log, row) ==
    LET id   == TryCast(IdentityText(e, t, row), plan.log.type)
        mine == {x \in log : x.itemType = s.itemType /\ x.id = id}
    IN  /\ \E x \in mine : x.event = "create"
        /\ \A x \in s.audited : PropOf(x[1]) \in SourcesOf(t.columns) =>
              LastTold(mine, x[2]) = CellText(e, t, row, PropOf(x[1]))
        /\ Active \in SourcesOf(t.columns) =>
              (row.cells[Active] <=> LastTold(mine, "active") # "false")

\* Members that are there, told by the log as created and not destroyed.
MembersTold(e, plan, t, s, log) ==
    LET rows == JunctionTable(e, t, plan.labels)
        open == {x \in rows : e.cat[Membership(t.kind, t.property)].rows[x.at][Left] = NULL}
        count(event, id) ==
            Cardinality({x \in log : x.itemType = s.itemType /\ x.id = id /\ x.event = event})
    IN  \A id \in {ItemId(e, plan.log, s, x.record) : x \in rows} :
           Cardinality({x \in open : ItemId(e, plan.log, s, x.record) = id})
             = count("create", id) - count("destroy", id)

\* Replaying the log up to any instant gives the tables of that instant: cells,
\* references, elected renderings, activity and memberships.
LogMatchesTables == \A c \in Exported : \A e \in {CompiledAt(t) : t \in 0 .. now} :
    c.events # NULL =>
       \A plan \in {SourcePlanOf(e, c)} : \A log \in {Log(e, plan)} :
          \A u \in Range(plan.tables) : \A s \in Corresponding(plan, u) :
             IF u.property = NULL THEN \A row \in StateTable(e, u) : RowToldBy(e, plan, u, s, log, row)
             ELSE MembersTold(e, plan, u, s, log)

\* The log is written window by window and never rewritten: the delta of a window is
\* the piece of the whole log that follows what the windows before it delivered, so
\* windows that tile the tape append to exactly the whole log (incremental.md).
WindowsReproduce == \A c \in Exported : c.events # NULL =>
    \A logs \in {[t \in 0 .. now |-> CompiledLog(c, t)]} :
       LET whole    == logs[now]
           start(t) == IF t = 0 THEN {} ELSE logs[t - 1]
       IN  /\ {x.n : x \in whole} = 1 .. Cardinality(whole)
           /\ \A t \in 0 .. now : WindowDelta(start(t), logs[t])
                 = {x \in whole : x.n \in Cardinality(start(t)) + 1 .. Cardinality(logs[t])}
=============================================================================
