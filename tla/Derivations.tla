---------------------------- MODULE Derivations ----------------------------
(***************************************************************************)
(* derivations/ and the reader's relations: what every exporter and the    *)
(* playback seam computes from a conformant emit.  Each builder composes   *)
(* one SELECT; an operator here is the set of rows it returns, and an      *)
(* error is the set of emits or arguments on which the builder raises.     *)
(*                                                                         *)
(* An event class orders the events of one instant: create, update, delete *)
(* for a record, join and leave for a membership interval.                 *)
(***************************************************************************)
EXTENDS Conformance

Membership(k, p) == <<"membership", k, p>>

Create == 0
Update == 1
Delete == 2
Join   == 0
Leave  == 1

---------------------------------------------------------------------------
(* The sidecar's answers. *)

SpecFor(e, n)     == CHOOSE s \in e.specs : s.name = n
ColumnFor(e, n, c) == CHOOSE d \in Range(SpecFor(e, n).cols) : d.name = c

\* require_single_branch and get_fork_path_from_sidecar.
SingleBranch(e) == Cardinality(e.branches) = 1
Trunk(e)        == (CHOOSE b \in e.branches : TRUE).fork

\* The population of a record: its sub-type, NULL in a flat kind.
PopulationOf(e, k, r) == IF SubTypes(e, k) = {} THEN NULL ELSE r[PropOf(TypeProp(k))]

\* WHERE fork_path = the trunk, which every builder says.
TrunkRows(e, n) == {r \in TableRows(e, n) : r[Fork] = Trunk(e)}

\* The discriminator of a sub-typed kind classifies the record, so it is used
\* although its value at an earlier instant is unknown.
ExemptDiscriminator(e, k, c) == c = PropOf(TypeProp(k)) /\ SubTypes(e, k) # {}

NonExemptSliceOnly(e, k, c) ==
    /\ c[1] = "prop" /\ ~ExemptDiscriminator(e, k, c)
    /\ ColumnFor(e, RecordsOf(k), c).temporal = "slice_only"

\* has_presentation_id, and the error of the presentation-key folds.
HasPresentationId(e, k) == Presented \in ColumnNames(e, RecordsOf(k))

\* partition_properties: the tracked ones among those asked for.
TrackedAmong(e, k, ps) == {p \in ps : ColumnFor(e, RecordsOf(k), PropOf(p)).tracked = TRUE}

---------------------------------------------------------------------------
(* reader/relations.py: rows of one table under equality predicates, a     *)
(* function from columns to the sets of values they may have.              *)

Matches(r, where) == \A c \in DOMAIN where : r[c] \in where[c]

RecordsRelation(e, k, where) == {r \in TrunkRows(e, RecordsOf(k)) : Matches(r, where)}

HistoryRelation(e, k, p, where) ==
    {h \in TrunkRows(e, History) : h[Kind] = k /\ h[Property] = p /\ Matches(h, where)}

MembershipRelation(e, k, p, where) == {m \in TrunkRows(e, Membership(k, p)) : Matches(m, where)}

DistinctValues(e, k, p) == {r[PropOf(p)] : r \in TableRows(e, RecordsOf(k))} \ {NULL}

---------------------------------------------------------------------------
(* Values as of an instant. *)

Greatest(times) ==
    LET known == times \ {NULL}
    IN  IF known = {} THEN NULL ELSE CHOOSE t \in known : \A u \in known : u <= t

Series(e, k, p, id) == {h \in HistoryRelation(e, k, p, <<>>) : h[RecordId] = id}

ValueOf(then) == IF then = {} THEN NULL ELSE (CHOOSE h \in then : TRUE)[Value]
ValueAt(series, time) == ValueOf({h \in series : h[SimTime] = time})

\* Mutant: the join leaves out the rows of the instant itself.
AsOf_Exclusive(e, k, p, id, at) ==
    LET series == Series(e, k, p, id)
    IN  ValueAt(series, Greatest({h[SimTime] : h \in {g \in series : g[SimTime] < at}}))

\* The ranked join and the ASOF LEFT JOIN, inclusive of the instant.
AsOf(e, k, p, id, at) ==
    LET series == Series(e, k, p, id)
    IN  ValueAt(series, Greatest({h[SimTime] : h \in {g \in series : g[SimTime] <= at}}))

\* TRY_CAST of a history text to the column's type.
TryCast(text, type) ==
    CASE text = NULL -> NULL
      [] text # NULL /\ type \in {"BIGINT", "DOUBLE"} -> text \div 2
      [] text # NULL /\ type = "BOOLEAN" -> IF text = -1 THEN TRUE
                                            ELSE IF text = -2 THEN FALSE ELSE NULL
      [] text # NULL /\ type \notin {"BIGINT", "DOUBLE", "BOOLEAN"} -> text

---------------------------------------------------------------------------
(* truncated_tape.py: the emit as if its slice ended at T, inclusive. *)

\* The rows of the trunk that are there by T.
Until(e, n, time, at) ==
    LET rows == e.cat[n].rows
    IN  Only(rows, {i \in DOMAIN rows : rows[i][Fork] = Trunk(e) /\ rows[i][time] <= at})

\* Mutant: an interval that ends after T keeps its end.
TruncatedMembership_Unmasked(e, n, at) == Until(e, n, Joined, at)

TruncatedMembership(e, n, at) ==
    LET kept == Until(e, n, Joined, at)
        open(m) == m[Left] # NULL /\ m[Left] > at
    IN  [i \in DOMAIN kept |-> IF open(kept[i]) THEN [kept[i] EXCEPT ![Left] = NULL] ELSE kept[i]]

GoneBy(r, at) == r[Deactivated] # NULL /\ r[Deactivated] <= at

\* last_mutation_sim_time as the last change that left a record of itself.
RecordedTrail(e, k, r, at) ==
    Greatest({r[Created]}
        \cup (IF History \in Tables(e)
              THEN {h[SimTime] : h \in {g \in TrunkRows(e, History) :
                       g[Kind] = k /\ g[RecordId] = r[RecordId] /\ g[SimTime] <= at}}
              ELSE {})
        \cup (IF GoneBy(r, at) THEN {r[Deactivated]} ELSE {}))

\* A property at T: tracked ones from history, the others verbatim.
PropertyAt(e, k, r, c, at) ==
    IF ~ExemptDiscriminator(e, k, c.name) /\ c.temporal = "tracked"
    THEN TryCast(AsOf(e, k, c.name[2], r[RecordId], at), c.type)
    ELSE r[c.name]

\* The index is resolved again, against the target records of T.
RefIndexAt(e, k, r, p, at) ==
    LET ref     == ColumnFor(e, RecordsOf(k), PropOf(p))
        target  == RecordsOf(ref.refs)
        id      == PropertyAt(e, k, r, ref, at)
        matches == IF target \in Tables(e)
                   THEN {q \in TrunkRows(e, target) : q[RecordId] = id /\ q[Created] <= at}
                   ELSE {}
    IN  IF id = NULL \/ matches = {} THEN NULL ELSE (CHOOSE q \in matches : TRUE)[RecordIndex]

TruncatedCell(e, k, r, c, at) ==
    CASE c.name = Active -> ~GoneBy(r, at)
      [] c.name = Deactivated -> IF GoneBy(r, at) THEN r[Deactivated] ELSE NULL
      [] c.name = Mutated -> RecordedTrail(e, k, r, at)
      [] c.name[1] = "ref_index" -> RefIndexAt(e, k, r, c.name[2], at)
      [] c.name[1] = "prop" -> PropertyAt(e, k, r, c, at)
      [] OTHER -> r[c.name]

\* _truncate_table_columns.
TruncatedColumns(e, s) ==
    IF s.category # "records" THEN s.cols
    ELSE Only(s.cols, {i \in DOMAIN s.cols : ~NonExemptSliceOnly(e, s.kind, s.cols[i].name)})

TruncatedRecords(e, s, at) ==
    LET kept == Until(e, s.name, Created, at)
        cols == TruncatedColumns(e, s)
    IN  [i \in DOMAIN kept |->
            [c \in {d.name : d \in Range(cols)} |->
                TruncatedCell(e, s.kind, kept[i], ColumnFor(e, s.name, c), at)]]

TruncatedRows(e, s, at) ==
    CASE s.category = "fixed"      -> Until(e, s.name, SimTime, at)
      [] s.category = "records"    -> TruncatedRecords(e, s, at)
      [] s.category = "membership" -> TruncatedMembership(e, s.name, at)

\* build_truncated_sidecar projects columns only: the row counts and the slice
\* stay those of the physical emit.
TruncatedSidecar(e) == {[s EXCEPT !.cols = TruncatedColumns(e, s)] : s \in e.specs}

\* open_truncated_tape.
Truncated(e, at) ==
    [e EXCEPT !.specs = TruncatedSidecar(e),
              !.cat = [n \in Tables(e) |->
                         [cols |-> Shape(TruncatedColumns(e, SpecFor(e, n))),
                          rows |-> TruncatedRows(e, SpecFor(e, n), at)]]]

---------------------------------------------------------------------------
(* versioned_intervals.py. *)

\* The instants at which some property of the record changed.
Boundaries(e, k, ps, id) == {h[SimTime] : h \in UNION {Series(e, k, p, id) : p \in ps}}

\* LEAD over the boundaries of the record.
NextOf(times, t) ==
    LET later == {u \in times : u > t}
    IN  IF later = {} THEN NULL ELSE CHOOSE u \in later : \A w \in later : u <= w

VersionedIntervals(e, k, ps, where) ==
    LET ids == {h[RecordId] : h \in UNION {HistoryRelation(e, k, p, <<>>) : p \in ps}}
                 \cap (IF where = <<>> THEN {h[RecordId] : h \in TrunkRows(e, History)}
                       ELSE {r[RecordId] : r \in RecordsRelation(e, k, where)})
        version(id, t) == [record |-> id, start |-> t, end |-> NextOf(Boundaries(e, k, ps, id), t),
                           values |-> [p \in ps |-> AsOf(e, k, p, id, t)]]
    IN  UNION {{version(id, t) : t \in Boundaries(e, k, ps, id)} : id \in ids}

---------------------------------------------------------------------------
(* row_state_events.py and state_at.py, with text images. *)

\* The text of a property as of an instant; an untracked one has its last value.
TextAt(e, k, r, p, at) ==
    LET c == ColumnFor(e, RecordsOf(k), PropOf(p))
    IN  IF c.tracked = TRUE THEN AsOf(e, k, p, r[RecordId], at)
        ELSE IF r[c.name] = NULL THEN NULL ELSE CastText(r[c.name], c.type)

RowStateEvents(e, k, ps, scope) ==
    LET event(r, time, class) ==
            [record |-> r[RecordId], time |-> time, class |-> class,
             after |-> IF class = Delete THEN NULL ELSE [p \in ps |-> TextAt(e, k, r, p, time)]]
        updates(r) == {t \in Boundaries(e, k, TrackedAmong(e, k, scope), r[RecordId]) : t > r[Created]}
    IN  UNION {{event(r, r[Created], Create)}
                 \cup {event(r, t, Update) : t \in updates(r)}
                 \cup {event(r, t, Delete) : t \in {r[Deactivated]} \ {NULL}} :
                   r \in TrunkRows(e, RecordsOf(k))}

\* horizon is exclusive; active is rendered, not a filter.
StateAt(e, k, ps, horizon) ==
    {[record |-> r[RecordId], created |-> r[Created], active |-> ~GoneBy(r, horizon - 1),
      values |-> [p \in ps |-> TextAt(e, k, r, p, horizon - 1)]] :
        r \in {q \in TrunkRows(e, RecordsOf(k)) : q[Created] < horizon}}

---------------------------------------------------------------------------
(* membership_events.py and membership_state_at.py. *)

\* field_resolves, the error of resolve_membership_columns.
FieldResolves(cs, f) ==
    \/ {<<"member_kind", f>>, <<"member_id", f>>} \subseteq cs
    \/ <<"elem", f>> \in cs

\* The payload columns of the fields.
MembershipColumns(e, n, fs) ==
    {c \in ColumnNames(e, n) : c[1] \in {"elem", "member_kind", "member_id"} /\ c[2] \in fs}

\* The rows of the fold are a bag: two intervals may look alike, and `at` tells
\* them apart.
MembershipEvents(e, n, fs) ==
    LET image(m) == [c \in MembershipColumns(e, n, fs) |-> m[c]]
        rows     == e.cat[n].rows
        event(i, time, class) == [record |-> rows[i][RecordId], time |-> time, class |-> class,
                                  after |-> image(rows[i]), at |-> i]
        ours     == {i \in DOMAIN rows : rows[i][Fork] = Trunk(e)}
    IN  {event(i, rows[i][Joined], Join) : i \in ours}
          \cup {event(i, rows[i][Left], Leave) : i \in {j \in ours : rows[j][Left] # NULL}}

\* Mutant: an interval that ends at the horizon is still there.
MembershipStateAt_Inclusive(e, n, fs, horizon) ==
    LET rows == e.cat[n].rows
    IN  {[record |-> rows[i][RecordId], joined |-> rows[i][Joined],
          values |-> [c \in MembershipColumns(e, n, fs) |-> rows[i][c]], at |-> i] :
            i \in {j \in DOMAIN rows : rows[j][Fork] = Trunk(e)
                     /\ rows[j][Joined] < horizon
                     /\ (rows[j][Left] = NULL \/ rows[j][Left] >= horizon - 1)}}

MembershipStateAt(e, n, fs, horizon) ==
    LET rows == e.cat[n].rows
    IN  {[record |-> rows[i][RecordId], joined |-> rows[i][Joined],
          values |-> [c \in MembershipColumns(e, n, fs) |-> rows[i][c]], at |-> i] :
            i \in {j \in DOMAIN rows : rows[j][Fork] = Trunk(e)
                     /\ rows[j][Joined] < horizon
                     /\ (rows[j][Left] = NULL \/ rows[j][Left] >= horizon)}}

---------------------------------------------------------------------------
(* record_index.py and presentation_key.py: the keys of the records created *)
(* before a horizon, or of all (at_end).                                    *)

RecordIndexAt(e, k, horizon) ==
    {<<r[RecordId], r[RecordIndex]>> :
        r \in {q \in TrunkRows(e, RecordsOf(k)) : horizon = NULL \/ q[Created] < horizon}}

PresentationKeyAt(e, k, horizon) ==
    {<<r[RecordId], r[Presented]>> :
        r \in {q \in TrunkRows(e, RecordsOf(k)) : horizon = NULL \/ q[Created] < horizon}}

---------------------------------------------------------------------------
(* reference_resolution.py. *)

\* The reference columns of each kind that has any.
ReferencesOf(e, k) ==
    {c \in UNION {Range(s.cols) : s \in {t \in SpecsOf(e, "records") : t.kind = k}} :
        c.name[1] = "prop" /\ c.refs # NULL}

\* The breadth-first search: every path of reference columns that visits no kind
\* twice and stops where it first reaches the target.
PathsFrom(e, from, to) ==
    LET kinds == {s.kind : s \in SpecsOf(e, "records")}
        hops  == UNION {{[from |-> k, prop |-> c.name[2], to |-> c.refs] :
                           c \in ReferencesOf(e, k)} : k \in kinds}
        end(path)     == IF path = <<>> THEN from ELSE path[Len(path)].to
        visited(path) == {from} \cup {path[i].to : i \in DOMAIN path}
        grow[n \in 0 .. Cardinality(kinds)] ==
            IF n = 0 THEN {<<>>}
            ELSE UNION {{Append(path, h) : h \in {g \in hops :
                            g.from = end(path) /\ g.to \notin visited(path)}} :
                          path \in {q \in grow[n - 1] : end(q) # to}}
    IN  {path \in UNION {grow[n] : n \in DOMAIN grow} : end(path) = to}

\* One hop at a time, each a LEFT JOIN; a path is the properties it follows, and
\* _path_hint_to_cols refuses one that is not a reference of the kind reached.
Hop(e, k, p, id) ==
    LET found == {r \in TrunkRows(e, RecordsOf(k)) : r[RecordId] = id}
    IN  IF id = NULL \/ found = {} THEN NULL ELSE (CHOOSE r \in found : TRUE)[PropOf(p)]

HopKind(e, k, p) == ColumnFor(e, RecordsOf(k), PropOf(p)).refs

PathResolves(e, from, path) ==
    LET kind[i \in 0 .. Len(path)] == IF i = 0 THEN from ELSE HopKind(e, kind[i - 1], path[i])
    IN  \A i \in DOMAIN path : \E c \in ReferencesOf(e, kind[i - 1]) : c.name = PropOf(path[i])

\* build_reference_path_sql with the terminal record_id.
ReferencePath(e, from, path, id) ==
    LET kind[i \in 0 .. Len(path)] == IF i = 0 THEN from ELSE HopKind(e, kind[i - 1], path[i])
        at[i \in 0 .. Len(path)]   == IF i = 0 THEN id ELSE Hop(e, kind[i - 1], path[i], at[i - 1])
        last == at[Len(path)]
    IN  IF \E r \in TableRows(e, RecordsOf(kind[Len(path)])) : r[RecordId] = last THEN last ELSE NULL

\* build_membership_edge_sql: one row per interval whose member is of the kind.
MembershipEdge(e, k, p, f, memberKind, where) ==
    {<<m[RecordId], m[<<"member_id", f>>]>> :
        m \in {r \in MembershipRelation(e, k, p, where) : r[<<"member_kind", f>>] = memberKind}}
=============================================================================
