------------------------------- MODULE MCTape -------------------------------
(***************************************************************************)
(* Assets with every temporal class (a tracked number, a tracked reference *)
(* to a site, a constant, a property with an unknowable past, the          *)
(* discriminator) and sites whose asset list is a membership.              *)
(***************************************************************************)
EXTENDS Tape, TLC

Col(name, type) == [name |-> name, type |-> type, tracked |-> NULL, temporal |-> NULL, refs |-> NULL]
Prop(p, type, temporal, refs) ==
    [name |-> PropOf(p), type |-> type, tracked |-> temporal = "tracked", temporal |-> temporal,
     refs |-> refs]
Plain(cols) == [i \in DOMAIN cols |-> Col(cols[i].name, cols[i].type)]

Prefix ==
    Plain(<< [name |-> Fork, type |-> "VARCHAR"], [name |-> RecordId, type |-> "VARCHAR"],
             [name |-> Presented, type |-> "BIGINT"] >> \o LifecycleColumns \o IndexColumn)

\* The reference to a site keeps its changes (tracked) or not (slice_only).
AssetColumns(home) ==
    Prefix \o << Prop("asset_type", "VARCHAR", "slice_only", NULL),
                 Prop("load", "BIGINT", "tracked", NULL),
                 Prop("home", "VARCHAR", home, "site"), Col(RefIndex("home"), "BIGINT"),
                 Prop("note", "BIGINT", "slice_only", NULL) >>

SiteColumns == Prefix \o << Prop("size", "BIGINT", "constant", NULL) >>

MemberColumns ==
    Plain(IdentityColumns) \o << Col(Joined, "BIGINT"), Col(Left, "BIGINT"),
       Col(<<"member_kind", "unit">>, "VARCHAR"), Col(<<"member_id", "unit">>, "VARCHAR") >>

\* One site and one asset in it are there from the start.
FirstRecord(id) ==
    (Fork :> 1) @@ (RecordId :> id) @@ (Presented :> 1000 - id) @@ (Created :> 0)
      @@ (Active :> TRUE) @@ (Deactivated :> NULL) @@ (Mutated :> 0) @@ (RecordIndex :> 0)

Seed(p, v) ==
    (Fork :> 1) @@ (Kind :> "asset") @@ (RecordId :> 10) @@ (Property :> p) @@ (SimTime :> 0)
      @@ (Value :> v)

FirstRows(home, n) ==
    CASE n = RecordsOf("site") -> << FirstRecord(20) @@ (PropOf("size") :> 0) >>
      [] n = RecordsOf("asset") ->
           << FirstRecord(10) @@ (PropOf("asset_type") :> 50) @@ (PropOf("load") :> 0)
                @@ (PropOf("home") :> 20) @@ (RefIndex("home") :> 0) @@ (PropOf("note") :> 0) >>
      [] n = History ->
           << Seed("load", 0) >> \o (IF home = "tracked" THEN << Seed("home", 20) >> ELSE <<>>)
      [] OTHER -> <<>>

Table(home, name, category, k, p, cols) ==
    [name |-> name, category |-> category, kind |-> k, property |-> p,
     rows |-> Len(FirstRows(home, name)), cols |-> cols]

MCMemberTable == Membership("site", "assets")

Specs(home) ==
    { Table(home, History, "fixed", NULL, NULL, Plain(HistoryColumns)),
      Table(home, RecordsOf("asset"), "records", "asset", NULL, AssetColumns(home)),
      Table(home, RecordsOf("site"), "records", "site", NULL, SiteColumns),
      Table(home, MCMemberTable, "membership", "site", "assets", MemberColumns) }

BlankWith(home) ==
    LET named(n) == CHOOSE s \in Specs(home) : s.name = n
    IN  [cat |-> [n \in {s.name : s \in Specs(home)} |->
                    [cols |-> Shape(named(n).cols), rows |-> FirstRows(home, n)]],
         specs |-> Specs(home), branches |-> {[fork |-> 1, slice |-> LastTime]}, schema |-> TRUE,
         pinned |-> [k \in {} |-> NULL], enums |-> "asset" :> ("asset_type" :> {50, 52}),
         roles |-> NULL, surface |-> "published", projection |-> FALSE, ruleDocs |-> FALSE,
         partition |-> "asset" :>
            ((50 :> {PropOf("load"), PropOf("home"), RefIndex("home"), PropOf("note"), Presented})
               @@ (52 :> {Presented}))]

MCBlank == BlankWith("tracked")

\* The reference is one whose past is unknowable.
MCUnknowableHome == BlankWith("slice_only")

MCKinds == {"asset", "site"}
MCIdsOf(k) == IF k = "asset" THEN {10, 11} ELSE {20, 21}
MCValuesOf(k, p) ==
    CASE p = "asset_type" -> {50, 52}
      [] p = "load"       -> {0, 1}
      [] p = "note"       -> {0, 1}
      [] p = "size"       -> {0}
MCSeedsOf(k, p) == IF p = "asset_type" THEN {50, 52} ELSE {0}

MCPresentedAs(k, id, values, records) == 1000 - id

Ranks == <<"asset", "assets", "site">>
MCNameRank(x) == CHOOSE i \in DOMAIN Ranks : Ranks[i] = x

MCNarrow ==
    [kind |-> "asset", subTypes |-> <<52>>, properties |-> NULL, ids |-> NULL, identity |-> NULL]
=============================================================================
