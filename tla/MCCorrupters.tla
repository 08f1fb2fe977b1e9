---------------------------- MODULE MCCorrupters ----------------------------
(***************************************************************************)
(* Three small source emits: a tracked series with a pinned record (one of *)
(* its series begins with NULL), an actor kind with declared sub-types in  *)
(* a membership of an owner, and a tracked reference with its ref_index.   *)
(***************************************************************************)
EXTENDS Corrupters

Col(name, type) == [name |-> name, type |-> type, tracked |-> NULL, temporal |-> NULL, refs |-> NULL]
Prop(p, type, tracked, refs) ==
    [name |-> PropOf(p), type |-> type, tracked |-> tracked,
     temporal |-> IF tracked THEN "tracked" ELSE "slice_only", refs |-> refs]
Plain(cols) == [i \in DOMAIN cols |-> Col(cols[i].name, cols[i].type)]

Prefix == Plain(IdentityColumns \o LifecycleColumns \o IndexColumn)

Record(id, index, created) ==
    (Fork :> "b") @@ (RecordId :> id) @@ (Created :> created) @@ (Active :> TRUE)
      @@ (Deactivated :> NULL) @@ (Mutated :> created) @@ (RecordIndex :> index)

Event(k, id, p, t, v) ==
    (Fork :> "b") @@ (Kind :> k) @@ (RecordId :> id) @@ (Property :> p) @@ (SimTime :> t) @@ (Value :> v)

Table(category, k, p, cols, rows) ==
    [category |-> category, kind |-> k, property |-> p, cols |-> cols, rows |-> rows]
HistoryTable(rows) == Table("fixed", NULL, NULL, Plain(HistoryColumns), rows)

Sidecar(pinned, enums, roles, partition) ==
    [fork |-> "b", slice |-> 5, pinned |-> pinned, enums |-> enums, roles |-> roles,
     partition |-> partition]
Nothing == [x \in {} |-> {}]
Flat == [flat |-> "dimension", subs |-> Nothing]

\* Kind k, property n tracked (BIGINT), property s not; record 10 is pinned.
Series ==
    [tabs |->
       (History :> HistoryTable(<< Event("k", 10, "n", 0, 2), Event("k", 10, "n", 3, 4),
                                   Event("k", 11, "n", 1, NULL), Event("k", 11, "n", 2, 2) >>))
       @@ (RecordsOf("k") :> Table("records", "k", NULL,
             Prefix \o << Prop("n", "BIGINT", TRUE, NULL), Prop("s", "BIGINT", FALSE, NULL) >>,
             << Record(10, 0, 0) @@ (PropOf("n") :> 2) @@ (PropOf("s") :> 1),
                Record(11, 1, 1) @@ (PropOf("n") :> 1) @@ (PropOf("s") :> NULL) >>)),
     sidecar |-> Sidecar("k" :> ("pin" :> 10), Nothing, "k" :> Flat, NULL)]

\* Actors 10 and 11 of sub-types 20 and 22, members of owner 30.
Members ==
    LET joined(j, l, id) == (Fork :> "b") @@ (RecordId :> 30) @@ (Joined :> j) @@ (Left :> l)
                              @@ (<<"member_kind", "m">> :> "actor") @@ (<<"member_id", "m">> :> id)
        typed(id, index, t) == Record(id, index, 0) @@ (PropOf("actor_type") :> t)
    IN  [tabs |->
           (History :> HistoryTable(<< Event("actor", 10, "actor_type", 0, 20),
                                       Event("actor", 11, "actor_type", 0, 22) >>))
           @@ (RecordsOf("actor") :> Table("records", "actor", NULL,
                 Prefix \o << Prop("actor_type", "VARCHAR", TRUE, NULL) >>,
                 << typed(10, 0, 20), typed(11, 1, 22) >>))
           @@ (RecordsOf("o") :> Table("records", "o", NULL, Prefix, << Record(30, 0, 0) >>))
           @@ (<<"membership", "o", "g">> :> Table("membership", "o", "g",
                 Plain(IdentityColumns) \o << Col(Joined, "BIGINT"), Col(Left, "BIGINT"),
                    Col(<<"member_kind", "m">>, "VARCHAR"), Col(<<"member_id", "m">>, "VARCHAR") >>,
                 << joined(0, 2, 10), joined(3, NULL, 10) >>)),
         sidecar |-> Sidecar(Nothing, "actor" :> ("actor_type" :> {20, 22}),
                       "actor" :> [flat |-> NULL, subs |-> (20 :> "dimension") @@ (22 :> "fact")]
                         @@ "o" :> Flat,
                       "actor" :> ((20 :> {}) @@ (22 :> {})))]

\* Kind o refers to kind k through a tracked, initially NULL, reference; a
\* text property with declared options is partitioned over o's one sub-type.
References ==
    LET ref(id) == (PropOf("r") :> id) @@ (RefIndex("r") :> IF id = NULL THEN NULL ELSE id - 10)
    IN  [tabs |->
           (History :> HistoryTable(<< Event("o", 30, "r", 0, NULL), Event("o", 30, "r", 3, 10),
                                       Event("o", 31, "r", 0, NULL) >>))
           @@ (RecordsOf("k") :> Table("records", "k", NULL, Prefix,
                 << Record(10, 0, 0), Record(11, 1, 4) >>))
           @@ (RecordsOf("o") :> Table("records", "o", NULL,
                 Prefix \o << Prop("r", "VARCHAR", TRUE, "k"), Col(RefIndex("r"), "BIGINT"),
                              Prop("e", "VARCHAR", FALSE, NULL), Prop("o_type", "VARCHAR", FALSE, NULL) >>,
                 << Record(30, 0, 0) @@ ref(10) @@ (PropOf("e") :> 2) @@ (PropOf("o_type") :> 20),
                    Record(31, 1, 0) @@ ref(NULL) @@ (PropOf("e") :> 4) @@ (PropOf("o_type") :> 20) >>)),
         sidecar |-> Sidecar(Nothing, "o" :> (("e" :> {2, 4}) @@ ("o_type" :> {20})),
                       "o" :> Flat @@ "k" :> Flat,
                       "o" :> (20 :> {PropOf("r"), RefIndex("r"), PropOf("e")}))]

MCOffsets == {-2, 3}
MCWorlds == [series |-> Series, members |-> Members, references |-> References]
=============================================================================
