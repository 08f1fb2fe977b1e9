----------------------------- MODULE SourcePlan -----------------------------
(***************************************************************************)
(* exporters/source/plan.py: a source configuration is resolved against    *)
(* the sidecar into a plan, or refused.  A predicate ...Resolve(s) is the  *)
(* absence of the errors of a builder, the operator beside it its result.  *)
(*                                                                         *)
(* A configuration is [keys, labels, declareKeys, tables, events].  A table*)
(* is [name, kind, property, subTypes, columns, rename, descriptions,      *)
(* render, where]: of the records of the kind if property is NULL, of a    *)
(* membership otherwise.  events is NULL or [name, sources, render]; a     *)
(* source is [kind, property, subTypes, itemType, only, ignore, rename,    *)
(* where].  NULL is the absence of a set; maps are functions.              *)
(***************************************************************************)
EXTENDS Election, TLC

NonEmpty(s) == s # NULL => s # {}
Asked(s)    == IF s = NULL THEN {} ELSE s

\* config/models.py: what a configuration file may say at all.
TableWellFormed(d) ==
    /\ NonEmpty(d.subTypes) /\ NonEmpty(d.columns) /\ IsInjective(d.rename)
    /\ \A p \in DOMAIN d.where : d.where[p] # {}

SourceWellFormed(d) ==
    /\ NonEmpty(d.subTypes) /\ NonEmpty(d.only) /\ NonEmpty(d.ignore)
    /\ d.only = NULL \/ d.ignore = NULL
    /\ IsInjective(d.rename)
    /\ \A p \in DOMAIN d.where : d.where[p] # {}

WellFormed(c) ==
    /\ c.tables # <<>> \/ c.events # NULL
    /\ IsInjective(c.labels)
    /\ Distinct([i \in DOMAIN c.tables |-> c.tables[i].name])
    /\ \A i \in DOMAIN c.tables : TableWellFormed(c.tables[i])
    /\ c.events # NULL =>
          c.events.sources # <<>> /\ \A i \in DOMAIN c.events.sources : SourceWellFormed(c.events.sources[i])

---------------------------------------------------------------------------
(* Kind labels. *)

LabelsResolve(e, labels) ==
    /\ DOMAIN labels \subseteq KnownKinds(e)
    /\ \A k \in DOMAIN labels : labels[k] \in KnownKinds(e) => labels[k] \in DOMAIN labels

LabelOf(labels, k) == IF k \in DOMAIN labels THEN labels[k] ELSE k

---------------------------------------------------------------------------
(* Edges: columns of references, rendered under the surfaces of their      *)
(* target populations. `targets` maps a kind to its populations' surfaces. *)

RenderedType(e, k, surfaces) ==
    CASE surfaces = {RecordIndex} -> "BIGINT"
      [] surfaces = {Presented}   -> ColumnFor(e, RecordsOf(k), Presented).type
      [] OTHER                    -> "VARCHAR"

KindEdge(e, el, k, ps, column) ==
    [column |-> column, targets |-> [j \in {k} |-> [p \in ps |-> el[j][p]]],
     type |-> RenderedType(e, k, {el[k][p] : p \in ps})]

\* A member may be of any kind.
MemberEdgeResolves(e, el) == \A k \in KnownKinds(e) : EdgeSafe(e, el, k, PopulationsOf(e, k))

MemberEdge(el, column) == [column |-> column, targets |-> el, type |-> "VARCHAR"]

\* The projected references whose target has a records table.
Referring(e, k, columns) ==
    {c \in ReferencesOf(e, k) : c.name \in columns /\ c.refs \in KnownKinds(e)}

ReferenceEdgesResolve(e, el, k, columns) ==
    \A c \in Referring(e, k, columns) : EdgeSafe(e, el, c.refs, PopulationsOf(e, c.refs))

ReferenceEdges(e, el, k, columns) ==
    {KindEdge(e, el, c.refs, PopulationsOf(e, c.refs), c.name) : c \in Referring(e, k, columns)}

MemberIds(e, n) == {c \in ColumnNames(e, n) : c[1] = "member_id"}

\* The owner column's edge comes first and covers the populations addressed only.
JunctionEdgesResolve(e, el, n, ps, columns) ==
    /\ n[2] \in KnownKinds(e) => EdgeSafe(e, el, n[2], ps)
    /\ MemberIds(e, n) \cap columns # {} => MemberEdgeResolves(e, el)

JunctionEdges(e, el, n, ps, columns) ==
    {KindEdge(e, el, k, ps, RecordId) : k \in {n[2]} \cap KnownKinds(e)}
      \cup {MemberEdge(el, c) : c \in MemberIds(e, n) \cap columns}

---------------------------------------------------------------------------
(* Columns of a table: pairs of a source column and an output name. *)

Discriminator(e, k) == IF SubTypes(e, k) = {} THEN NULL ELSE PropOf(TypeProp(k))

\* The candidates of a state table and their default names.
StateCandidates(e, k, surface) ==
    LET all == ColumnNames(e, RecordsOf(k))
        props == {c \in all : c[1] = "prop" /\ ~NonExemptSliceOnly(e, k, c)}
    IN  {<<surface, "id">>, <<Created, "created_at">>, <<Mutated, "updated_at">>,
         <<Active, "active">>, <<Deactivated, "deactivated_at">>}
          \cup {<<Presented, "presentation_id">> : c \in (all \cap {Presented}) \ {surface}}
          \cup {<<c, c[2]>> : c \in props}

\* What `columns` may name: neither a mechanism nor the elected identity.
StateColumnLegal(e, k, surface, c) ==
    /\ c \in ColumnNames(e, RecordsOf(k))
    /\ c \notin {Fork, RecordIndex, RecordId, surface} /\ c[1] # "ref_index"
    /\ ~NonExemptSliceOnly(e, k, c)

\* The identity is always there; the discriminator without being asked for only
\* where it tells several populations apart.
StateColumns(e, k, surface, ps, columns, rename) ==
    LET keep(c) ==
            \/ c = surface
            \/ columns # NULL /\ c \in columns
            \/ columns = NULL /\ (c = Discriminator(e, k) => Cardinality(ps) >= 2)
    IN  {<<x[1], IF x[1] \in DOMAIN rename THEN rename[x[1]] ELSE x[2]>> :
            x \in {y \in StateCandidates(e, k, surface) : keep(y[1])}}

JunctionName(n, c) ==
    CASE c = RecordId            -> n[2] \o "_id"
      [] c = Joined              -> "joined_at"
      [] c = Left                -> "left_at"
      [] c[1] = "elem"           -> c[2]
      [] c[1] = "member_kind"    -> c[2] \o "_kind"
      [] c[1] = "member_id"      -> c[2] \o "_id"

JunctionColumns(e, n, columns, rename) ==
    {<<c, IF c \in DOMAIN rename THEN rename[c] ELSE JunctionName(n, c)>> :
        c \in {d \in ColumnNames(e, n) \ {Fork} : columns # NULL => d \in columns \cup {RecordId}}}

SourcesOf(columns) == {x[1] : x \in columns}
OutputOf(columns, c) == (CHOOSE x \in columns : x[1] = c)[2]

\* rename, descriptions and render name columns the table has.
KeysProjected(d, columns) ==
    DOMAIN d.rename \cup d.descriptions \cup DOMAIN d.render \subseteq SourcesOf(columns)

---------------------------------------------------------------------------
(* Render elections: a shorthand renders an instant, a typed one a payload.*)

TypedForms == {"decimal", "instant", "json_precision", "date_parse"}

FormOf(type) ==
    CASE type = "DOUBLE"  -> {"decimal"}
      [] type = "BIGINT"  -> {"instant"}
      [] type = "VARCHAR" -> {"json_precision", "date_parse"}
      [] OTHER            -> {}

RenderResolves(e, n, render) ==
    \A c \in DOMAIN render :
       IF render[c] \in TypedForms
       THEN /\ c[1] = (IF n[1] = "records" THEN "prop" ELSE "elem")
            /\ render[c] \in FormOf(ColumnFor(e, n, c).type)
       ELSE c \in (IF n[1] = "records" THEN {Created, Deactivated, Mutated} ELSE {Joined, Left})

---------------------------------------------------------------------------
(* where: a constant property of the records, never the discriminator. *)

WhereResolves(e, k, where) ==
    \A p \in DOMAIN where :
       /\ PropOf(p) \in ColumnNames(e, RecordsOf(k))
       /\ PropOf(p) # Discriminator(e, k)
       /\ ColumnFor(e, RecordsOf(k), PropOf(p)).temporal = "constant"
       /\ NULL \notin Typed(e, k, where, p)

---------------------------------------------------------------------------
(* The plan of a table. *)

Claimed(e, k, ps) == (\A p \in ps : HasClaim(e, k, p)) /\ CombinedUnique(e, k, ps)

\* resolve_state_table_keys.
StateKeys(e, k, ps, surface, columns) ==
    [primary |-> OutputOf(columns, surface),
     unique  |-> {x[2] : x \in {y \in columns : y[1] = Presented /\ surface # Presented
                                                   /\ Claimed(e, k, ps)}}]

\* What IdentityElected makes one surface.
TableSurface(el, k, ps) == el[k][CHOOSE p \in ps : TRUE]

StatePlan(e, el, d, declareKeys) ==
    LET ps      == Populations(e, d.kind, d.subTypes)
        surface == TableSurface(el, d.kind, ps)
        columns == StateColumns(e, d.kind, surface, ps, d.columns, d.rename)
    IN  [name |-> d.name, kind |-> d.kind, property |-> NULL, populations |-> ps,
         surface |-> surface, columns |-> columns, where |-> d.where, render |-> d.render,
         edges |-> ReferenceEdges(e, el, d.kind, SourcesOf(columns)),
         keys |-> IF declareKeys THEN StateKeys(e, d.kind, ps, surface, columns) ELSE NULL]

StateResolves(e, el, d) ==
    /\ PopulationsResolve(e, d.kind, d.subTypes)
    /\ LET ps   == Populations(e, d.kind, d.subTypes)
           plan == StatePlan(e, el, d, FALSE)
       IN  /\ IdentityElected(e, el, d.kind, ps)
           /\ d.columns # NULL =>
                 \A c \in d.columns : StateColumnLegal(e, d.kind, plan.surface, c)
           /\ KeysProjected(d, plan.columns)
           /\ RenderResolves(e, RecordsOf(d.kind), d.render)
           /\ ReferenceEdgesResolve(e, el, d.kind, SourcesOf(plan.columns))
           /\ WhereResolves(e, d.kind, d.where)

JunctionPlan(e, el, d) ==
    LET n       == Membership(d.kind, d.property)
        ps      == Populations(e, d.kind, d.subTypes)
        columns == JunctionColumns(e, n, d.columns, d.rename)
    IN  [name |-> d.name, kind |-> d.kind, property |-> d.property, populations |-> ps,
         surface |-> NULL, columns |-> columns, where |-> d.where, render |-> d.render,
         edges |-> JunctionEdges(e, el, n, ps, SourcesOf(columns)), keys |-> NULL]

JunctionResolves(e, el, d) ==
    /\ Membership(d.kind, d.property) \in Tables(e)
    /\ PopulationsResolve(e, d.kind, d.subTypes)
    /\ LET n    == Membership(d.kind, d.property)
           plan == JunctionPlan(e, el, d)
       IN  /\ d.columns # NULL => d.columns \subseteq ColumnNames(e, n) \ {Fork, RecordId}
           /\ KeysProjected(d, plan.columns)
           /\ RenderResolves(e, n, d.render)
           /\ JunctionEdgesResolve(e, el, n, plan.populations, SourcesOf(plan.columns))
           /\ WhereResolves(e, d.kind, d.where)

TableResolves(e, el, d) == IF d.property = NULL THEN StateResolves(e, el, d) ELSE JunctionResolves(e, el, d)
TablePlan(e, el, d, declareKeys) ==
    IF d.property = NULL THEN StatePlan(e, el, d, declareKeys) ELSE JunctionPlan(e, el, d)

---------------------------------------------------------------------------
(* The plan of an audited source. *)

AuditableProperties(e, k) ==
    {c[2] : c \in {d \in ColumnNames(e, RecordsOf(k)) : d[1] = "prop" /\ ~NonExemptSliceOnly(e, k, d)}}

\* A partition by sub-type leaves out what the populations do not have.
Attributed(e, k, ps) ==
    LET all == AuditableProperties(e, k)
    IN  IF e.partition = NULL \/ NULL \in ps \/ k \notin DOMAIN e.partition THEN all
        ELSE IF ~ps \subseteq DOMAIN e.partition[k] THEN all
        ELSE {p \in all : p = TypeProp(k) \/ \E s \in ps : PropOf(p) \in e.partition[k][s]}

AuditableFields(e, n) ==
    {c[2] : c \in {d \in ColumnNames(e, n) : d[1] \in {"elem", "member_kind", "member_id"}}}

Auditable(e, d) ==
    IF d.property = NULL THEN AuditableProperties(e, d.kind)
    ELSE AuditableFields(e, Membership(d.kind, d.property))

\* What is audited and under which name; `only` is not bound by the partition.
Audited(e, d) ==
    LET ps      == Populations(e, d.kind, d.subTypes)
        default == IF d.property = NULL THEN Attributed(e, d.kind, ps) ELSE Auditable(e, d)
        names   == IF d.only # NULL THEN d.only
                   ELSE IF d.ignore # NULL THEN default \ d.ignore ELSE default
    IN  {<<p, IF p \in DOMAIN d.rename THEN d.rename[p] ELSE p>> : p \in names}

IsReferenceField(e, n, f) == {<<"member_kind", f>>, <<"member_id", f>>} \subseteq ColumnNames(e, n)

\* The keys an entry of `changes` is written under.
ChangesKeys(e, d, x) ==
    IF d.property # NULL /\ IsReferenceField(e, Membership(d.kind, d.property), x[1])
    THEN {x[2] \o "_kind", x[2] \o "_id"} ELSE {x[2]}

\* The keys of the deactivation entry are taken.
DeactivationKeys == {"active", "deactivated_at"}

ChangesKeysDistinct(e, d) ==
    \A x \in Audited(e, d) :
       /\ d.property = NULL => x[2] \notin DeactivationKeys
       /\ \A y \in Audited(e, d) \ {x} : ChangesKeys(e, d, x) \cap ChangesKeys(e, d, y) = {}

ChangeColumns(e, d) ==
    IF d.property = NULL THEN {PropOf(x[1]) : x \in Audited(e, d)}
    ELSE {<<"member_id", x[1]>> : x \in {y \in Audited(e, d) :
             IsReferenceField(e, Membership(d.kind, d.property), y[1])}}

ChangeEdges(e, el, d) ==
    IF d.property = NULL THEN ReferenceEdges(e, el, d.kind, ChangeColumns(e, d))
    ELSE {MemberEdge(el, c) : c \in ChangeColumns(e, d)}

ChangeEdgesResolve(e, el, d) ==
    IF d.property = NULL THEN ReferenceEdgesResolve(e, el, d.kind, ChangeColumns(e, d))
    ELSE ChangeColumns(e, d) # {} => MemberEdgeResolves(e, el)

ItemType(labels, d) ==
    IF d.itemType # NULL THEN d.itemType
    ELSE IF d.property = NULL THEN LabelOf(labels, d.kind)
    ELSE LabelOf(labels, d.kind) \o "." \o d.property

EventSourcePlan(e, el, labels, d) ==
    LET ps == Populations(e, d.kind, d.subTypes)
    IN  [itemType |-> ItemType(labels, d), kind |-> d.kind, property |-> d.property,
         populations |-> ps, audited |-> Audited(e, d), where |-> d.where,
         items |-> [p \in ps |-> el[d.kind][p]], edges |-> ChangeEdges(e, el, d)]

EventSourceResolves(e, el, d) ==
    /\ d.property # NULL => Membership(d.kind, d.property) \in Tables(e)
    /\ PopulationsResolve(e, d.kind, d.subTypes)
    /\ Asked(d.only) \cup Asked(d.ignore) \subseteq Auditable(e, d)
    /\ DOMAIN d.rename \subseteq {x[1] : x \in Audited(e, d)}
    /\ ChangesKeysDistinct(e, d)
    /\ ChangeEdgesResolve(e, el, d)
    /\ WhereResolves(e, d.kind, d.where)

---------------------------------------------------------------------------
(* Gates over several sources; `s` is the sequence of their plans. *)

SharesItems(a, b) ==
    a.kind = b.kind /\ a.property = b.property /\ a.populations \cap b.populations # {}

WhereDisjoint(e, a, b) ==
    \E p \in DOMAIN a.where \cap DOMAIN b.where :
       Typed(e, a.kind, a.where, p) \cap Typed(e, b.kind, b.where, p) = {}

\* No event is reported twice.
SourcesDisjoint(e, s) ==
    \A i, j \in DOMAIN s : i < j /\ SharesItems(s[i], s[j]) => WhereDisjoint(e, s[i], s[j])

\* One item type is one kind of item, and not the name another kind renders as.
ItemTypesDistinct(e, labels, s) ==
    \A i \in DOMAIN s :
       /\ \A j \in DOMAIN s : s[i].itemType = s[j].itemType =>
             s[i].kind = s[j].kind /\ s[i].property = s[j].property
       /\ \A k \in KnownKinds(e) :
             s[i].itemType = LabelOf(labels, k) => s[i].property = NULL /\ k = s[i].kind

\* Mutant: each source looks at its own populations.
ItemTypesUnionSafe_PerSource(e, el, s) ==
    \A i \in DOMAIN s : EdgeSafe(e, el, s[i].kind, s[i].populations)

\* The populations of every source of an item type together. One that two sources
\* share is compared with itself, which a counter does not survive.
ItemTypesUnionSafe(e, el, s) ==
    \A i, j \in DOMAIN s : s[i].itemType = s[j].itemType =>
       \A p \in s[i].populations \ {NULL}, q \in s[j].populations \ {NULL} :
          <<i, p>> # <<j, q>> => SpacesUnionSafe(e, el, s[i].kind, p, q)

---------------------------------------------------------------------------
(* The log renders a property as the tables do, which must agree. *)

EmittedColumn(t, p) == IF t.property = NULL THEN PropOf(p) ELSE <<"elem", p>>

Emitting(tables, kind, property, p) ==
    {t \in Range(tables) : t.kind = kind /\ t.property = property
                              /\ EmittedColumn(t, p) \in SourcesOf(t.columns)}

TableForm(t, p) ==
    IF EmittedColumn(t, p) \in DOMAIN t.render THEN t.render[EmittedColumn(t, p)] ELSE NULL

TableForms(tables, src, p) ==
    {TableForm(t, p) : t \in Emitting(tables, src.kind, src.property, p)}

RendersAgree(tables, s) ==
    \A i \in DOMAIN s : \A x \in s[i].audited : Cardinality(TableForms(tables, s[i], x[1])) <= 1

\* A reference keeps its identity whatever the tables elect.
LogForms(tables, src) ==
    LET edged == {x.column[2] : x \in src.edges}
        form(p) == IF p \in edged \/ TableForms(tables, src, p) = {} THEN NULL
                   ELSE CHOOSE f \in TableForms(tables, src, p) : TRUE
    IN  [p \in {x[1] : x \in src.audited} |-> form(p)]

ItemIdType(e, s) ==
    LET surfaces == UNION {Range(s[i].items) : i \in DOMAIN s}
        types    == {ColumnFor(e, RecordsOf(s[i].kind), Presented).type : i \in DOMAIN s}
    IN  CASE surfaces = {RecordIndex} -> "BIGINT"
          [] surfaces = {Presented} /\ Cardinality(types) = 1 -> CHOOSE t \in types : TRUE
          [] OTHER -> "VARCHAR"

---------------------------------------------------------------------------
(* The plan. *)

TablePlans(e, el, c) == [i \in DOMAIN c.tables |-> TablePlan(e, el, c.tables[i], c.declareKeys)]

SourcePlans(e, el, c) ==
    [i \in DOMAIN c.events.sources |-> EventSourcePlan(e, el, c.labels, c.events.sources[i])]

LogPlan(e, el, c, tables) ==
    LET s == SourcePlans(e, el, c)
    IN  [name |-> c.events.name,
         sources |-> [i \in DOMAIN s |-> s[i] @@ [forms |-> LogForms(tables, s[i])]],
         type |-> ItemIdType(e, s), keys |-> IF c.declareKeys THEN "id" ELSE NULL,
         form |-> IF c.events.render = <<>> THEN "timestamp" ELSE c.events.render[SimTime]]

LogResolves(e, el, c, tables) ==
    /\ \A i \in DOMAIN c.events.sources : EventSourceResolves(e, el, c.events.sources[i])
    /\ LET s == SourcePlans(e, el, c)
       IN  /\ SourcesDisjoint(e, s)
           /\ ItemTypesDistinct(e, c.labels, s)
           /\ ItemTypesUnionSafe(e, el, s)
           /\ RendersAgree(tables, s)
    /\ DOMAIN c.events.render \subseteq {SimTime}

\* Names the incremental bookkeeping takes, and the column that stays internal.
NamesFree(c, tables) ==
    LET names == {tables[i].name : i \in DOMAIN tables}
    IN  /\ c.events # NULL => c.events.name \notin names
        /\ {"_export_meta", "_export_windows"}
              \cap (names \cup IF c.events = NULL THEN {} ELSE {c.events.name}) = {}
        /\ \A i \in DOMAIN tables :
              LET outputs == {x[2] : x \in tables[i].columns}
              IN  Cardinality(outputs) = Cardinality(tables[i].columns)
                    /\ "last_mutation_sim_time" \notin outputs

\* build_source_plan up to its guards.
SourcePlanOf(e, c) ==
    LET el     == Election(e, c.keys)
        tables == TablePlans(e, el, c)
    IN  [tables |-> tables, labels |-> c.labels,
         log |-> IF c.events = NULL THEN NULL ELSE LogPlan(e, el, c, tables)]

PlanResolves(e, c) ==
    /\ WellFormed(c) /\ SingleBranch(e) /\ AnyTracked(e) /\ ElectionResolves(e, c.keys)
    /\ LabelsResolve(e, c.labels)
    /\ LET el == Election(e, c.keys)
       IN  /\ \A i \in DOMAIN c.tables : TableResolves(e, el, c.tables[i])
           /\ c.events # NULL => LogResolves(e, el, c, TablePlans(e, el, c))
           /\ NamesFree(c, TablePlans(e, el, c))

---------------------------------------------------------------------------
(* The guards look at the data: the elected keys are keys. *)

\* Mutant: only a table of every sub-type is guarded.
GuardSubset_WholeOnly(e, k, subset, surface) ==
    subset # {} /\ subset = SubTypes(e, k) => ElectedKeyUnique(e, k, surface, {})

\* Nothing is asked of a flat kind, whose one population is no sub-type.
GuardSubset(e, k, subset, surface) ==
    subset # {} =>
        ElectedKeyUnique(e, k, surface,
            IF subset = SubTypes(e, k) THEN {} ELSE PopulationSpine(e, k, subset))

GuardSurfaces(e, k, surfaces) ==
    \A surface \in {RecordIndex, Presented} :
       GuardSubset(e, k, {p \in DOMAIN surfaces \ {NULL} : surfaces[p] = surface}, surface)

GuardEdges(e, edges) ==
    \A x \in edges : \A k \in DOMAIN x.targets : GuardSurfaces(e, k, x.targets[k])

GuardsHold(e, plan) ==
    /\ \A i \in DOMAIN plan.tables :
          LET t == plan.tables[i]
          IN  /\ t.property = NULL /\ t.surface # RecordId =>
                    GuardSubset(e, t.kind, t.populations \ {NULL}, t.surface)
              /\ GuardEdges(e, t.edges)
    /\ plan.log # NULL =>
          \A i \in DOMAIN plan.log.sources :
             LET s == plan.log.sources[i]
             IN  GuardSurfaces(e, s.kind, s.items) /\ GuardEdges(e, s.edges)
=============================================================================
