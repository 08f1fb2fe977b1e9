------------------------------ MODULE Election ------------------------------
(***************************************************************************)
(* exporters/election.py, populations.py and selection_spine.py: which     *)
(* column names a record, per population (a kind, or one sub-type of it),  *)
(* and when two populations may share one column of keys.                  *)
(*                                                                         *)
(* A surface is one of the columns RecordId, RecordIndex, Presented.  A    *)
(* population of kind k is a sub-type, or NULL for the whole of a flat     *)
(* kind.  The emit has a field `claims`: NULL, or kind -> population ->    *)
(* [space, unique, stable], the presentation_keys registry.  A key space   *)
(* is [class, prefix, texture]; texture stands for width, start and gaps.  *)
(***************************************************************************)
EXTENDS Playback

CONSTANT Digits     \* the characters of prefixes that are digits

KnownKinds(e) == {s.kind : s \in SpecsOf(e, "records")}

PopulationsOf(e, k) == IF SubTypes(e, k) = {} THEN {NULL} ELSE SubTypes(e, k)

\* resolve_populations: NULL asks for the whole domain.
PopulationsResolve(e, k, subTypes) ==
    /\ k \in KnownKinds(e)
    /\ subTypes # NULL => subTypes \subseteq SubTypes(e, k) /\ SubTypes(e, k) # {}

Populations(e, k, subTypes) == IF subTypes = NULL THEN PopulationsOf(e, k) ELSE subTypes

---------------------------------------------------------------------------
(* Key spaces. *)

RecordIdSpace    == [class |-> "record_id", prefix |-> <<>>, texture |-> NULL]
RecordIndexSpace == [class |-> "record_index", prefix |-> <<>>, texture |-> 0]

\* The key of one may read like a longer key of the other.
DigitExtends(shorter, longer) ==
    /\ Len(shorter) <= Len(longer) /\ SubSeq(longer, 1, Len(shorter)) = shorter
    /\ \A i \in Len(shorter) + 1 .. Len(longer) : longer[i] \in Digits

PrefixesComparable(p, q) == DigitExtends(p, q) \/ DigitExtends(q, p)

UnionSafe(a, b) ==
    \/ a = b /\ a.class = "record_index"
    \/ a.class = b.class /\ a.class \in {"uuid", "record_id"}
    \/ /\ {a.class, b.class} \subseteq {"counter", "record_index"}
       /\ ~PrefixesComparable(a.prefix, b.prefix)

HasClaim(e, k, p) == e.claims # NULL /\ k \in DOMAIN e.claims /\ p \in DOMAIN e.claims[k]

\* combined_claim: is the column unique over several populations taken together?
CombinedUnique(e, k, ps) ==
    IF Cardinality(ps) = 1 THEN \A p \in ps : e.claims[k][p].unique # NULL
    ELSE \A p, q \in ps : p # q => UnionSafe(e.claims[k][p].space, e.claims[k][q].space)

---------------------------------------------------------------------------
(* resolve_election. The keys block maps a kind to [all, of]: one surface  *)
(* for the kind, or one for each sub-type it names.                        *)

OverridesResolve(e, keys) ==
    \A k \in DOMAIN keys :
       /\ k \in KnownKinds(e)
       /\ keys[k].all = NULL => SubTypes(e, k) # {} /\ DOMAIN keys[k].of \subseteq SubTypes(e, k)

SurfaceFor(keys, k, p) ==
    IF k \notin DOMAIN keys THEN RecordId
    ELSE IF keys[k].all # NULL THEN keys[k].all
    ELSE IF p \in DOMAIN keys[k].of THEN keys[k].of[p] ELSE RecordId

ElectionResolves(e, keys) ==
    /\ OverridesResolve(e, keys)
    /\ \A k \in KnownKinds(e) : \A p \in PopulationsOf(e, k) :
          SurfaceFor(keys, k, p) = Presented => HasClaim(e, k, p)

Election(e, keys) ==
    [k \in KnownKinds(e) |-> [p \in PopulationsOf(e, k) |-> SurfaceFor(keys, k, p)]]

KeySpaceOf(e, k, p, surface) ==
    CASE surface = RecordId    -> RecordIdSpace
      [] surface = RecordIndex -> RecordIndexSpace
      [] surface = Presented   -> e.claims[k][p].space

SpacesUnionSafe(e, el, k, p, q) ==
    UnionSafe(KeySpaceOf(e, k, p, el[k][p]), KeySpaceOf(e, k, q, el[k][q]))

\* check_identity_election: one table has one identity column.
IdentityElected(e, el, k, ps) ==
    \A p, q \in ps :
       /\ el[k][p] = el[k][q]
       /\ p # q /\ el[k][p] = Presented => SpacesUnionSafe(e, el, k, p, q)

\* check_edge_union_safety: a column of references admits several populations,
\* each under its own surface.
EdgeSafe(e, el, k, ps) == \A p, q \in ps : p # q => SpacesUnionSafe(e, el, k, p, q)

---------------------------------------------------------------------------
(* The records a population or a predicate selects. `where` maps a         *)
(* property to the texts it may have.                                      *)

Typed(e, k, where, p) == {TryCast(t, ColumnFor(e, RecordsOf(k), PropOf(p)).type) : t \in where[p]}

NeedsPopulationFilter(e, k, ps) == ps # {NULL} /\ ps # SubTypes(e, k)

SelectedRecords(e, k, ps, where) ==
    {r \in TrunkRows(e, RecordsOf(k)) :
        /\ NeedsPopulationFilter(e, k, ps) => PopulationOf(e, k, r) \in ps
        /\ \A p \in DOMAIN where : r[PropOf(p)] \in Typed(e, k, where, p) \ {NULL}}

\* The spine is one set of records or, when nothing narrows the fold, none.
Spine(e, k, ps, where) ==
    IF ~NeedsPopulationFilter(e, k, ps) /\ where = <<>> THEN {}
    ELSE {{r[RecordId] : r \in SelectedRecords(e, k, ps, where)}}

InSpine(spine, id) == \A ids \in spine : id \in ids

---------------------------------------------------------------------------
(* Rendering an identity. *)

TextOf(e, k, r, surface) ==
    IF r[surface] = NULL THEN NULL
    ELSE CastText(r[surface], ColumnFor(e, RecordsOf(k), surface).type)

\* build_identity_translation_sql: record id -> the text of what names it. A record
\* of a population the map leaves out has no row.
Translation(e, k, surfaces) ==
    {<<r[RecordId], TextOf(e, k, r, surfaces[PopulationOf(e, k, r)])>> :
        r \in {q \in TrunkRows(e, RecordsOf(k)) : PopulationOf(e, k, q) \in DOMAIN surfaces}}

\* LEFT JOIN: what has no partner is NULL.
LeftJoin(relation, id) ==
    IF \E x \in relation : x[1] = id THEN (CHOOSE x \in relation : x[1] = id)[2] ELSE NULL

\* check_elected_key_unique: the key is a bijection on the records of the spine.
ElectedKeyUnique(e, k, surface, spine) ==
    LET rows == e.cat[RecordsOf(k)].rows
        ours == {i \in DOMAIN rows : rows[i][Fork] = Trunk(e) /\ InSpine(spine, rows[i][RecordId])}
    IN  \A i \in ours :
           /\ rows[i][surface] # NULL
           /\ \A j \in ours \ {i} : rows[i][RecordId] # rows[j][RecordId]
                                    /\ rows[i][surface] # rows[j][surface]

\* build_population_spine_sql over sub-types that are a part of the domain.
PopulationSpine(e, k, ps) ==
    {{r[RecordId] : r \in {q \in TrunkRows(e, RecordsOf(k)) : q[PropOf(TypeProp(k))] \in ps}}}
=============================================================================
