------------------------------ MODULE MCSource ------------------------------
(***************************************************************************)
(* Assets of three sub-types, two of which count their surrogates with one *)
(* prefix, and flat sites with a constant property and a membership of     *)
(* assets.  The configurations elect every surface, alone and mixed; some  *)
(* must be refused.                                                        *)
(***************************************************************************)
EXTENDS SourceExport

Col(name, type) == [name |-> name, type |-> type, tracked |-> NULL, temporal |-> NULL, refs |-> NULL]
Prop(p, type, temporal, refs) ==
    [name |-> PropOf(p), type |-> type, tracked |-> temporal = "tracked", temporal |-> temporal,
     refs |-> refs]
Plain(cols) == [i \in DOMAIN cols |-> Col(cols[i].name, cols[i].type)]

Prefix(type) ==
    Plain(<< [name |-> Fork, type |-> "VARCHAR"], [name |-> RecordId, type |-> "VARCHAR"],
             [name |-> Presented, type |-> type] >> \o LifecycleColumns \o IndexColumn)

AssetColumns ==
    Prefix("VARCHAR") \o << Prop("asset_type", "VARCHAR", "constant", NULL),
                 Prop("load", "BIGINT", "tracked", NULL),
                 Prop("home", "VARCHAR", "tracked", "site"), Col(RefIndex("home"), "BIGINT"),
                 Prop("note", "BIGINT", "slice_only", NULL) >>

SiteColumns == Prefix("BIGINT") \o << Prop("size", "BIGINT", "constant", NULL) >>

MemberColumns ==
    Plain(IdentityColumns) \o << Col(Joined, "BIGINT"), Col(Left, "BIGINT"),
       Col(<<"member_kind", "unit">>, "VARCHAR"), Col(<<"member_id", "unit">>, "VARCHAR") >>

Token(prefix, n) == 2 * (100 * prefix + n)

FirstRecord(id, presented, index) ==
    (Fork :> 1) @@ (RecordId :> id) @@ (Presented :> presented) @@ (Created :> 0)
      @@ (Active :> TRUE) @@ (Deactivated :> NULL) @@ (Mutated :> 0) @@ (RecordIndex :> index)

FirstAsset(id, presented, index, type) ==
    FirstRecord(id, presented, index) @@ (PropOf("asset_type") :> type) @@ (PropOf("load") :> 0)
      @@ (PropOf("home") :> 20) @@ (RefIndex("home") :> 0) @@ (PropOf("note") :> 0)

Seed(id, p, v) ==
    (Fork :> 1) @@ (Kind :> "asset") @@ (RecordId :> id) @@ (Property :> p) @@ (SimTime :> 0)
      @@ (Value :> v)

FirstRows(n) ==
    CASE n = RecordsOf("site") -> << FirstRecord(20, 7, 0) @@ (PropOf("size") :> 0) >>
      [] n = RecordsOf("asset") ->
           << FirstAsset(10, Token(1, 0), 0, 50), FirstAsset(11, Token(2, 0), 1, 52) >>
      [] n = History ->
           << Seed(10, "load", 0), Seed(10, "home", 20), Seed(11, "load", 0), Seed(11, "home", 20) >>
      [] OTHER -> <<>>

Table(name, category, k, p, cols) ==
    [name |-> name, category |-> category, kind |-> k, property |-> p,
     rows |-> Len(FirstRows(name)), cols |-> cols]

MCMemberTable == Membership("site", "assets")

MCSpecs ==
    { Table(History, "fixed", NULL, NULL, Plain(HistoryColumns)),
      Table(RecordsOf("asset"), "records", "asset", NULL, AssetColumns),
      Table(RecordsOf("site"), "records", "site", NULL, SiteColumns),
      Table(MCMemberTable, "membership", "site", "assets", MemberColumns) }

Claim(class, prefix) ==
    [space |-> [class |-> class, prefix |-> prefix, texture |-> 1], unique |-> "emit", stable |-> FALSE]

AllOfAsset == {PropOf("load"), PropOf("home"), RefIndex("home"), PropOf("note"), Presented}

MCBlank ==
    LET named(n) == CHOOSE s \in MCSpecs : s.name = n
    IN  [cat |-> [n \in {s.name : s \in MCSpecs} |-> [cols |-> Shape(named(n).cols), rows |-> FirstRows(n)]],
         specs |-> MCSpecs, branches |-> {[fork |-> 1, slice |-> LastTime]}, schema |-> TRUE,
         pinned |-> [k \in {} |-> NULL], enums |-> "asset" :> ("asset_type" :> {50, 52, 54}),
         roles |-> NULL, surface |-> "published", projection |-> FALSE, ruleDocs |-> FALSE,
         partition |-> "asset" :> (50 :> AllOfAsset @@ 52 :> {PropOf("load"), Presented} @@ 54 :> AllOfAsset),
         claims |-> ("asset" :> (50 :> Claim("counter", <<"a">>) @@ 52 :> Claim("counter", <<"b">>)
                                   @@ 54 :> Claim("counter", <<"a">>)))
                      @@ ("site" :> (NULL :> Claim("counter", <<"s">>)))]

MCKinds == {"asset", "site"}
MCIdsOf(k) == IF k = "asset" THEN {10, 11, 12} ELSE {20, 21}
MCValuesOf(k, p) == IF p = "asset_type" THEN {50, 54} ELSE IF p \in {"load", "size"} THEN {0, 1} ELSE {0}
MCSeedsOf(k, p) ==
    CASE p = "asset_type" -> {50, 54}
      [] p = "size"       -> {0, 1}
      [] OTHER            -> {0}

\* Every sub-type counts for itself.
MCPresentedAs(k, id, values, records) ==
    IF k = "site" THEN 7 + Cardinality(records)
    ELSE LET type == values[PropOf("asset_type")]
         IN  Token(IF type = 52 THEN 2 ELSE 1,
                   Cardinality({r \in records : r[PropOf("asset_type")] = type}))

Ranks == <<"asset", "assets", "plant", "site", "site.assets", "unit", "unit.assets", "plant.assets">>
MCNameRank(x) == CHOOSE i \in DOMAIN Ranks : Ranks[i] = x

\* An anchor moves an instant; reading a number as an instant does it as well.
MCRenderAs(form, v) == 5000 + v

MCNarrow ==
    [kind |-> "asset", subTypes |-> <<52>>, properties |-> NULL, ids |-> NULL, identity |-> NULL]

---------------------------------------------------------------------------
(* Configurations. *)

TableOf(name, k) ==
    [name |-> name, kind |-> k, property |-> NULL, subTypes |-> NULL, columns |-> NULL,
     rename |-> <<>>, descriptions |-> {}, render |-> <<>>, where |-> <<>>]

SourceOf(k) ==
    [kind |-> k, property |-> NULL, subTypes |-> NULL, itemType |-> NULL, only |-> NULL,
     ignore |-> NULL, rename |-> <<>>, where |-> <<>>]

Config(keys, labels, tables, sources) ==
    [keys |-> keys, labels |-> labels, declareKeys |-> TRUE, tables |-> tables,
     events |-> [name |-> "log", sources |-> sources, render |-> <<>>]]

ForAll(surface)  == [all |-> surface, of |-> <<>>]
BySubType(map)   == [all |-> NULL, of |-> map]
Assets    == TableOf("assets", "asset")
Sites     == TableOf("sites", "site")
SiteAssets == [TableOf("site_assets", "site") EXCEPT !.property = "assets"]
MembersOf == [SourceOf("site") EXCEPT !.property = "assets"]

Nothing == Config(<<>>, <<>>, <<Assets, Sites, SiteAssets>>, <<SourceOf("asset"), SourceOf("site"), MembersOf>>)

Indexed ==
    Config("asset" :> ForAll(RecordIndex) @@ "site" :> ForAll(Presented), "site" :> "plant",
           << [Assets EXCEPT !.render = PropOf("load") :> "instant", !.rename = PropOf("home") :> "plant_id"],
              [Sites EXCEPT !.where = "size" :> {0}], SiteAssets >>,
           << [SourceOf("asset") EXCEPT !.ignore = {"asset_type"}, !.rename = "load" :> "weight"],
              [SourceOf("site") EXCEPT !.where = "size" :> {0}],
              [SourceOf("site") EXCEPT !.where = "size" :> {2}], MembersOf >>)

OfType(s, types) == [s EXCEPT !.subTypes = types]

\* Two counters that cannot meet, and the index for the third sub-type.
Mixed ==
    Config("asset" :> BySubType(50 :> Presented @@ 52 :> Presented @@ 54 :> RecordIndex), <<>>,
           << OfType([Assets EXCEPT !.name = "a"], {50, 52}), OfType([Assets EXCEPT !.name = "b"], {54}),
              Sites, SiteAssets >>,
           << OfType(SourceOf("asset"), {50, 52}), OfType(SourceOf("asset"), {54}), MembersOf >>)

\* One item type over two counters that meet.
Colliding ==
    Config("asset" :> BySubType(50 :> Presented @@ 52 :> RecordIndex @@ 54 :> Presented), <<>>,
           << Sites >>, << OfType(SourceOf("asset"), {50}), OfType(SourceOf("asset"), {54}) >>)

\* Two sources that report the sites of size 0 both.
Overlapping ==
    Config(<<>>, <<>>, << Sites >>,
           << [SourceOf("site") EXCEPT !.where = "size" :> {0}],
              [SourceOf("site") EXCEPT !.where = "size" :> {0, 2}, !.ignore = {"size"}] >>)

MCConfigs == {Nothing, Indexed, Mixed, Colliding, Overlapping}
=============================================================================
