-------------------------- MODULE CorruptionImpact --------------------------
(***************************************************************************)
(* corrupters/state.py, selection.py and operations/_impact.py: the        *)
(* working set a corrupt run mutates and the evaluators every operation    *)
(* shares to foresee which conformance check a mutation breaks.            *)
(*                                                                         *)
(* A working set T maps a table name to [category, kind, property, cols,   *)
(* rows]; rows is a sequence, its order the physical row order. sc is the  *)
(* source's sidecar: what base.json holds besides its tables. The emit has *)
(* one branch, so the predicate fork_path = <the branch> that every        *)
(* population query carries selects every row and is not written out.      *)
(***************************************************************************)
EXTENDS Conformance, SequencesExt

Beyond == "beyond-c1-c12"

\* write_base_emit: the catalog is the working set, the sidecar's table entries
\* are rebuilt from it, every other top-level field is the source's, verbatim.
Emitted(T, sc) ==
    [cat      |-> [n \in DOMAIN T |-> [cols |-> Shape(T[n].cols), rows |-> T[n].rows]],
     specs    |-> {[name |-> n, category |-> T[n].category, kind |-> T[n].kind,
                    property |-> T[n].property, cols |-> T[n].cols,
                    rows |-> Len(T[n].rows)] : n \in DOMAIN T},
     branches |-> {[fork |-> sc.fork, slice |-> sc.slice]}, pinned |-> sc.pinned,
     enums |-> sc.enums, roles |-> sc.roles, partition |-> sc.partition,
     surface |-> "published", projection |-> FALSE, ruleDocs |-> FALSE, schema |-> TRUE]

ColumnsOf(t)   == {c.name : c \in Range(t.cols)}
SpecOf(t, c)   == CHOOSE d \in Range(t.cols) : d.name = c
RowsOf(T, n)   == IF n \in DOMAIN T THEN T[n].rows ELSE <<>>
IsReference(d) == d.name[1] = "prop" /\ d.refs # NULL   \* records_reference_sibling
Partner(c)     == IF c[1] = "member_kind" THEN <<"member_id", c[2]>> ELSE <<"member_kind", c[2]>>
IsMemberRef(c) == c[1] \in {"member_kind", "member_id"}

Pinned(sc, k, id) == k \in DOMAIN sc.pinned /\ id \in Range(sc.pinned[k])

---------------------------------------------------------------------------
(* Series of history, <<kind, property, record_id>>. *)

SeriesOf(r)    == <<r[Kind], r[Property], r[RecordId]>>
Timeline(T, s) == SelectSeq(RowsOf(T, History), LAMBDA r : SeriesOf(r) = s)

\* Python's (sim_time, value) > best: a tie on sim_time between a NULL and a
\* text has no order and raises.
Later(best, r, at) ==
    IF r[SimTime] > at \/ best.error THEN best
    ELSE IF ~best.found \/ r[SimTime] > best.time
         THEN [found |-> TRUE, time |-> r[SimTime], value |-> r[Value], error |-> FALSE]
    ELSE IF r[SimTime] < best.time \/ r[Value] = best.value THEN best
    ELSE IF r[Value] = NULL \/ best.value = NULL THEN [best EXCEPT !.error = TRUE]
    ELSE IF r[Value] > best.value THEN [best EXCEPT !.value = r[Value]] ELSE best

NoAnchor == [found |-> FALSE, time |-> 0, value |-> NULL, error |-> FALSE]

\* resolve_c6_anchor: the latest (sim_time, value) at or before the slice.
Anchor(T, sc, s) ==
    FoldLeft(LAMBDA best, r : Later(best, r, sc.slice), NoAnchor, Timeline(T, s))

\* Is row r the one the series' anchor was resolved from?
IsAnchor(r, anchor) == anchor.found /\ r[SimTime] = anchor.time /\ r[Value] = anchor.value

TrackedSpec(T, s) ==
    LET n == RecordsOf(s[1])
    IN  /\ n \in DOMAIN T
        /\ PropOf(s[2]) \in ColumnsOf(T[n])
        /\ SpecOf(T[n], PropOf(s[2])).type \in RoundTrippable

\* series_round_trip_fails: C6 for one series, a NULL cell always failing.
RoundTripFails(T, sc, s) ==
    LET anchor == Anchor(T, sc, s)
        cells  == {r \in Range(RowsOf(T, RecordsOf(s[1]))) : r[RecordId] = s[3]}
    IN  /\ anchor.found
        /\ TrackedSpec(T, s)
        /\ \/ cells = {}
           \/ \E r \in cells :
                 \/ r[PropOf(s[2])] = NULL
                 \/ anchor.value # ToText(r[PropOf(s[2])],
                                          SpecOf(T[RecordsOf(s[1])], PropOf(s[2])).type)

\* anchor_participant_impact.
AnchorImpact(r, before, fails) == IF IsAnchor(r, before) /\ fails THEN {"C6"} ELSE {Beyond}

\* with_c13: C13 displaces the beyond marker, never a code.
WithC13(codes, missing) == IF missing THEN (codes \ {Beyond}) \cup {"C13"} ELSE codes

---------------------------------------------------------------------------
(* Genesis rows and the converse clause of C11. *)

GenesisAt(T, k, p, id, at) ==
    \E h \in Range(RowsOf(T, History)) : SeriesOf(h) = <<k, p, id>> /\ h[SimTime] = at

\* kind_has_tracked_genesis_property.
KindHasTracked(t) ==
    \E d \in Range(t.cols) : d.name[1] = "prop" /\ d.tracked = TRUE /\ d.type \in RoundTrippable

\* _record_created_sim_time of the first physical row of the record.
CreatedAt(T, k, id) ==
    LET rows == SelectSeq(RowsOf(T, RecordsOf(k)), LAMBDA r : r[RecordId] = id)
    IN  IF rows = <<>> THEN NULL ELSE Head(rows)[Created]

\* series_missing_genesis_row.
MissingGenesis(T, s) ==
    /\ TrackedSpec(T, s)
    /\ SpecOf(T[RecordsOf(s[1])], PropOf(s[2])).tracked = TRUE
    /\ CreatedAt(T, s[1], s[3]) # NULL
    /\ ~GenesisAt(T, s[1], s[2], s[3], CreatedAt(T, s[1], s[3]))

\* records_missing_genesis_for_property.
AnyMissingGenesis(T, k, p) ==
    \E r \in Range(RowsOf(T, RecordsOf(k))) : ~GenesisAt(T, k, p, r[RecordId], r[Created])

\* c11_converse_broken: the kind has rows, the pair has no history.
ConverseBroken(T, k, p) ==
    /\ RowsOf(T, RecordsOf(k)) # <<>>
    /\ \A h \in Range(RowsOf(T, History)) : ~(h[Kind] = k /\ h[Property] = p)

\* history_series_exists.
SeriesExists(T, s) == Timeline(T, s) # <<>>

\* enumerate_series_units: the series with at least two rows.
LongSeries(T) ==
    {s \in {SeriesOf(r) : r \in Range(RowsOf(T, History))} : Len(Timeline(T, s)) >= 2}

---------------------------------------------------------------------------
(* Registries, references and ids. *)

\* actor_subtype_undeclared.
ActorUndeclared(sc, n, c, text) ==
    /\ n = RecordsOf("actor") /\ c = PropOf("actor_type")
    /\ sc.roles # NULL /\ "actor" \in DOMAIN sc.roles
    /\ sc.roles["actor"].flat = NULL
    /\ text \notin DOMAIN sc.roles["actor"].subs

\* enum_value_undeclared: only a text cell of a column with declared options.
EnumUndeclared(sc, k, c, v, type) ==
    /\ c[1] = "prop" /\ type = "VARCHAR" /\ v # NULL
    /\ k \in DOMAIN sc.enums /\ c[2] \in DOMAIN sc.enums[k]
    /\ v \notin sc.enums[k][c[2]]

\* membership_kind_id_pairs: every whole member reference of the working set.
MemberPairs(T) ==
    UNION {UNION {{<<r[<<"member_kind", f>>], r[<<"member_id", f>>]>> : r \in Range(T[n].rows)}
                    : f \in {c[2] : c \in {d \in ColumnsOf(T[n]) : d[1] = "member_kind"}}}
             : n \in {m \in DOMAIN T : T[m].category = "membership"}}

MemberReferences(T) == {pr \in MemberPairs(T) : pr[1] # NULL /\ pr[2] # NULL}

\* _table_record_index_mark: the highest record_index at load, -1 of no rows.
IndexMark(t) ==
    IF t.rows = <<>> THEN -1
    ELSE CHOOSE m \in {r[RecordIndex] : r \in Range(t.rows)} :
           \A r \in Range(t.rows) : r[RecordIndex] <= m
=============================================================================
