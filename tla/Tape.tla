-------------------------------- MODULE Tape --------------------------------
(***************************************************************************)
(* A simulation writes a tape, one instant after the other, and at every   *)
(* instant the emit it would have handed over is kept.  What the exporter  *)
(* derives from the final emit for an earlier instant is compared with     *)
(* what was there at that instant.                                         *)
(*                                                                         *)
(* The producer is outside the repository: its steps are what              *)
(* docs/architecture/bundle.md and derivations.md ("Relied-on upstream     *)
(* guarantees") say of a conformant emit.                                  *)
(***************************************************************************)
EXTENDS Playback

CONSTANTS
    Blank,          \* the emit before the first instant
    Kinds,          \* the record kinds, each with its ids and property domains
    IdsOf(_),       \* the ids the records of a kind may have
    ValuesOf(_, _), \* kind, property: the values it may take
    SeedsOf(_, _),  \* and the ones it may start with
    PresentedAs(_, _, _, _), \* kind, id, values, records: the surrogate of a new record
    MemberTable,    \* the membership table written to
    Narrow,         \* a record atom that names sub-types, for PopulationKept
    LastTime,       \* bound: the last instant
    MaxChanges      \* bound: changes of the whole tape

VARIABLES
    emit,       \* the emit as of now
    now,        \* the instant being simulated
    past,       \* instant -> the emit at its end
    changes     \* how much has happened

vars == <<emit, now, past, changes>>

---------------------------------------------------------------------------
(* What a reader relies on in the emit of an instant (derivations.md,      *)
(* "Relied-on upstream guarantees", bundle.md): Blank has it, and every    *)
(* step of the producer keeps it.                                          *)

\* The member column of the membership table; its id is in the column beside it.
Field == CHOOSE c \in ColumnNames(Blank, MemberTable) : c[1] = "member_kind"

\* The sidecar and the catalog name the same tables, and each but once.
TablesNamed(e) ==
    /\ {"cat", "specs", "branches", "enums"} \subseteq DOMAIN e
    /\ Tables(e) = {RecordsOf(k) : k \in Kinds} \cup {History, MemberTable}
    /\ {s.name : s \in e.specs} = Tables(e)
    /\ \A s, u \in e.specs : s.name = u.name => s = u
    /\ \A s \in e.specs :
          /\ {"name", "category", "kind", "cols", "rows"} \subseteq DOMAIN s
          /\ s.category = IF s.name = History THEN "fixed"
                          ELSE IF s.name = MemberTable THEN "membership" ELSE "records"
          /\ s.category = "records" => s.name = RecordsOf(s.kind)

\* So do they the columns.
ColumnsNamed(e, s) ==
    /\ s.cols \in Seq(Range(s.cols))
    /\ \A i, j \in DOMAIN s.cols : s.cols[i].name = s.cols[j].name => i = j
    /\ \A c \in PropColumns(s) : c.name = PropOf(c.name[2]) /\ TemporalClassAgrees(c)
    /\ e.cat[s.name] = [cols |-> Shape(s.cols), rows |-> e.cat[s.name].rows]

\* The rows have these columns, on the one branch.
RowsShaped(e, n) ==
    LET rows == e.cat[n].rows
    IN  /\ rows \in Seq(Range(rows))
        /\ \A r \in Range(rows) :
              r = [c \in ColumnNames(e, n) |-> r[c]] /\ r[Fork] = Trunk(e)

\* A record has one id and one index, and its life lies in the tape.
RecordsKept(e, k, at) ==
    LET rows == e.cat[RecordsOf(k)].rows
    IN  /\ {Fork, RecordId, Created, Active, Deactivated, Mutated, RecordIndex}
              \subseteq ColumnNames(e, RecordsOf(k))
        /\ \A i \in DOMAIN rows :
              /\ rows[i][RecordIndex] = i - 1
              /\ rows[i][RecordId] # NULL
              /\ \A j \in DOMAIN rows : rows[i][RecordId] = rows[j][RecordId] => i = j
              /\ rows[i][Created] \in 0 .. at
              /\ rows[i][Deactivated] # NULL => rows[i][Deactivated] \in rows[i][Created] .. at

\* History begins with a record, for every tracked property of it.
HistoryKept(e, at) ==
    /\ ColumnNames(e, History) = {Fork, Kind, RecordId, Property, SimTime, Value}
    /\ \A h \in TableRows(e, History) : h[SimTime] \in 0 .. at
    /\ \A k \in Kinds : \A c \in PropColumns(SpecFor(e, RecordsOf(k))) : c.tracked = TRUE =>
          \A r \in TableRows(e, RecordsOf(k)) : \E h \in TableRows(e, History) :
             /\ h[Kind] = k /\ h[Property] = c.name[2] /\ h[RecordId] = r[RecordId]
             /\ h[SimTime] = r[Created]

\* Intervals are written in the order they begin.
MembersKept(e, at) ==
    LET rows == e.cat[MemberTable].rows
    IN  /\ ColumnNames(e, MemberTable)
              = {Fork, RecordId, Joined, Left, Field, <<"member_id", Field[2]>>}
        /\ \A i \in DOMAIN rows :
              /\ rows[i][Joined] \in 0 .. at
              /\ rows[i][Left] # NULL => rows[i][Left] \in rows[i][Joined] .. at
              /\ \A j \in DOMAIN rows : i < j => rows[i][Joined] <= rows[j][Joined]

IsTape(e, at) ==
    /\ TablesNamed(e)
    /\ \A s \in e.specs : ColumnsNamed(e, s)
    /\ \A n \in Tables(e) : RowsShaped(e, n)
    /\ \A k \in Kinds : RecordsKept(e, k, at)
    /\ HistoryKept(e, at)
    /\ MembersKept(e, at)

\* What an emit tells of its own past: each row of history is of a record, one for an
\* instant; a record is active until it is deactivated; a tracked cell is what the last
\* row of its series says; the index beside a reference is the one of the record it names.
HistoryTold(e) == \A h \in TableRows(e, History) :
    /\ h[Kind] \in Kinds
    /\ \E r \in TableRows(e, RecordsOf(h[Kind])) : r[RecordId] = h[RecordId]
    /\ \A g \in TableRows(e, History) :
          (\A x \in {Kind, Property, RecordId, SimTime} : g[x] = h[x]) => g = h

ValueTold(e, k, r, c) == c.tracked = TRUE =>
    r[c.name] = TryCast(AsOf(e, k, c.name[2], r[RecordId], LastTime), c.type)

ReferenceTold(e, r, c) == c.refs # NULL =>
    \/ r[c.name] = NULL /\ r[RefIndex(c.name[2])] = NULL
    \/ \E q \in TableRows(e, RecordsOf(c.refs)) :
          q[RecordId] = r[c.name] /\ q[RecordIndex] = r[RefIndex(c.name[2])]

RecordTold(e, k, r) ==
    /\ r[Active] = (r[Deactivated] = NULL)
    /\ \A c \in PropColumns(SpecFor(e, RecordsOf(k))) : ValueTold(e, k, r, c) /\ ReferenceTold(e, r, c)

PastTold(e) ==
    /\ HistoryTold(e)
    /\ \A k \in Kinds : \A r \in TableRows(e, RecordsOf(k)) : RecordTold(e, k, r)

\* A reference names a kind and has its index beside it, and no index stands alone.
ReferencesLaid(e) == \A k \in Kinds :
    LET names == ColumnNames(e, RecordsOf(k))
        props == PropColumns(SpecFor(e, RecordsOf(k)))
    IN  /\ \A c \in props : c.refs # NULL =>
              c.refs \in Kinds /\ c.type = "VARCHAR" /\ RefIndex(c.name[2]) \in names
        /\ \A x \in names : x[1] = "ref_index" =>
              \E c \in props : c.refs # NULL /\ x = RefIndex(c.name[2])

\* The text of a tracked value reads back as the value.
ValuesReadBack == \A k \in Kinds : \A c \in PropColumns(SpecFor(Blank, RecordsOf(k))) :
    c.tracked = TRUE /\ c.refs = NULL =>
       \A v \in (ValuesOf(k, c.name[2]) \cup SeedsOf(k, c.name[2])) \ {NULL} :
          TryCast(ToText(v, c.type), c.type) = v

ASSUME TapeAssumption ==
    /\ Conformant(Blank) /\ SingleBranch(Blank)
    /\ IsTape(Blank, 0) /\ PastTold(Blank) /\ ReferencesLaid(Blank) /\ ValuesReadBack
    /\ LastTime \in Nat /\ NULL \notin Int
    /\ MemberTable = Membership(MemberTable[2], MemberTable[3])
    /\ Field[1] = "member_kind"
    /\ \A k \in Kinds : NULL \notin IdsOf(k)

Init == emit = Blank /\ now = 0 /\ past = <<>> /\ changes = 0

---------------------------------------------------------------------------
(* The producer. *)

Records(k)   == Range(emit.cat[RecordsOf(k)].rows)
Rows(n)      == emit.cat[n].rows
Existing(k)  == {r[RecordId] : r \in Records(k)}
Alive(k)     == {r[RecordId] : r \in {q \in Records(k) : q[Active]}}
ColumnsOf(k) == PropColumns(SpecFor(emit, RecordsOf(k)))
Referable(c) == IF c.refs = NULL THEN {} ELSE Existing(c.refs)

\* A reference is NULL or names a record that exists.
Domain(k, c) == IF c.refs = NULL THEN ValuesOf(k, c.name[2]) ELSE {NULL} \cup Referable(c)

IndexOf(k, id) ==
    IF id = NULL THEN NULL
    ELSE (CHOOSE r \in Records(k) : r[RecordId] = id)[RecordIndex]

Seeds(k, c) == IF c.refs = NULL THEN SeedsOf(k, c.name[2]) ELSE Domain(k, c)

\* What a value puts into a row: its own cell and the index beside a reference.
Cells(c, v) ==
    IF c.refs = NULL THEN [x \in {c.name} |-> v]
    ELSE [x \in {c.name, RefIndex(c.name[2])} |-> IF x = c.name THEN v ELSE IndexOf(c.refs, v)]

HistoryRow(k, id, c, v) ==
    [x \in {Fork, Kind, RecordId, Property, SimTime, Value} |->
        CASE x = Fork     -> Trunk(emit)
          [] x = Kind     -> k
          [] x = RecordId -> id
          [] x = Property -> c.name[2]
          [] x = SimTime  -> now
          [] x = Value    -> IF v = NULL THEN NULL ELSE ToText(v, c.type)]

\* Table n gets new rows, history some more, and the sidecar counts them.
Written(n, rows, more) ==
    LET cat == [m \in DOMAIN emit.cat |->
                  [emit.cat[m] EXCEPT !.rows = IF m = n THEN rows
                                               ELSE IF m = History THEN @ \o more ELSE @]]
    IN  emit' = [emit EXCEPT !.cat = cat,
                             !.specs = {[s EXCEPT !.rows = Len(cat[s.name].rows)] : s \in emit.specs}]

Change ==
    /\ changes < MaxChanges
    /\ changes' = changes + 1
    /\ UNCHANGED <<now, past>>

\* What a new record looks like, with a value for every property.
NewCell(k, id, values, x) ==
    CASE x = Fork        -> Trunk(emit)
      [] x = RecordId    -> id
      [] x = Presented   -> PresentedAs(k, id, values, Records(k))
      [] x = Created     -> now
      [] x = Active      -> TRUE
      [] x = Deactivated -> NULL
      [] x = Mutated     -> now
      [] x = RecordIndex -> Len(Rows(RecordsOf(k)))
      [] x[1] = "prop"   -> values[x]
      [] OTHER           -> LET c == ColumnFor(emit, RecordsOf(k), PropOf(x[2]))
                            IN  IndexOf(c.refs, values[c.name])

NewRecord(k, id, values) ==
    [x \in ColumnNames(emit, RecordsOf(k)) |-> NewCell(k, id, values, x)]

\* Every tracked property is seeded in history.
Seeded(k, id, values) ==
    LET cols  == SpecFor(emit, RecordsOf(k)).cols
        seeds == Only(cols, {i \in DOMAIN cols : cols[i] \in ColumnsOf(k) /\ cols[i].tracked = TRUE})
    IN  [i \in DOMAIN seeds |-> HistoryRow(k, id, seeds[i], values[seeds[i].name])]

\* A surrogate is minted once in a population, in the type of its column; a sub-type
\* may do without.
Minted(k, row) == HasPresentationId(emit, k) =>
    /\ ColumnFor(emit, RecordsOf(k), Presented).type \in {"BIGINT", "DOUBLE"} =>
          row[Presented] \in Int \cup {NULL}
    /\ SubTypes(emit, k) = {} => row[Presented] # NULL
    /\ row[Presented] # NULL => \A r \in Records(k) :
          PopulationOf(emit, k, r) = PopulationOf(emit, k, row) => r[Presented] # row[Presented]

Born(k) ==
    /\ Change
    /\ \E id \in IdsOf(k) \ Existing(k) :
       \E values \in [{c.name : c \in ColumnsOf(k)} -> UNION {Seeds(k, c) : c \in ColumnsOf(k)}] :
          /\ \A c \in ColumnsOf(k) : values[c.name] \in Seeds(k, c)
          /\ Minted(k, NewRecord(k, id, values))
          /\ Written(RecordsOf(k), Append(Rows(RecordsOf(k)), NewRecord(k, id, values)),
                     Seeded(k, id, values))

\* The rows of a kind with cells of one record changed, which moves its last mutation.
Updated(k, id, cells) ==
    LET rows == Rows(RecordsOf(k))
    IN  [i \in DOMAIN rows |->
            IF rows[i][RecordId] # id THEN rows[i]
            ELSE [x \in DOMAIN rows[i] |->
                    IF x = Mutated THEN now ELSE IF x \in DOMAIN cells THEN cells[x] ELSE rows[i][x]]]

\* A property of a live record gets a new value. A tracked one leaves a row in
\* history, at most one in an instant; a constant one is never written.
Write(k) ==
    /\ Change
    /\ \E id \in Alive(k), c \in ColumnsOf(k) :
          /\ c.temporal # "constant"
          /\ \E v \in Domain(k, c) :
                /\ \E r \in Records(k) : r[RecordId] = id /\ r[c.name] # v
                /\ c.tracked = TRUE => \A h \in Series(emit, k, c.name[2], id) : h[SimTime] < now
                /\ Written(RecordsOf(k), Updated(k, id, Cells(c, v)),
                           IF c.tracked = TRUE THEN <<HistoryRow(k, id, c, v)>> ELSE <<>>)

Gone == [x \in {Active, Deactivated} |-> IF x = Active THEN FALSE ELSE now]

\* Deactivation is terminal.
Deactivate(k) ==
    /\ Change
    /\ \E id \in Alive(k) :
          Written(RecordsOf(k), Updated(k, id, Gone), <<>>)

Owner == MemberTable[2]

NewMember(owner, k, id) ==
    [x \in {Fork, RecordId, Joined, Left, Field, <<"member_id", Field[2]>>} |->
        CASE x = Fork     -> Trunk(emit)
          [] x = RecordId -> owner
          [] x = Joined   -> now
          [] x = Left     -> NULL
          [] x = Field    -> k
          [] OTHER        -> id]

Enter ==
    /\ Change
    /\ \E owner \in Alive(Owner), k \in Kinds \ {Owner} : \E id \in Alive(k) :
          Written(MemberTable, Append(Rows(MemberTable), NewMember(owner, k, id)), <<>>)

\* The element is taken out again, perhaps in the instant it came, and before its
\* owner is deactivated.
Exit ==
    /\ Change
    /\ \E i \in DOMAIN Rows(MemberTable) :
          /\ Rows(MemberTable)[i][Left] = NULL
          /\ Rows(MemberTable)[i][RecordId] \in Alive(Owner)
          /\ Written(MemberTable, [Rows(MemberTable) EXCEPT ![i][Left] = now], <<>>)

\* The instant ends; what the producer would emit now is kept.
Tick ==
    /\ now < LastTime
    /\ now' = now + 1
    /\ past' = Append(past, emit)
    /\ UNCHANGED <<emit, changes>>

Next ==
    \/ \E k \in Kinds : Born(k) \/ Write(k) \/ Deactivate(k)
    \/ Enter \/ Exit \/ Tick

Spec == Init /\ [][Next]_vars

---------------------------------------------------------------------------
(* Properties. *)

Past == 0 .. now - 1
At(t) == past[t + 1]

\* What both emits say of a table, leaving out the two columns whose value of the
\* time is lost by declaration: the physical last_mutation, which also advances
\* with changes that leave no trace, and the discriminator, carried verbatim.
Sameness(e, n, columns) ==
    LET lost(c) == c = Mutated \/ (n[1] = "records" /\ ExemptDiscriminator(emit, n[2], c))
    IN  {[c \in {d \in columns : ~lost(d)} |-> r[c]] : r \in TableRows(e, n)}

\* No past is lost but of plain values: every property has a temporal class, and a
\* reference is constant or tracked and not the discriminator. Where a reference is
\* slice_only, the index beside it stays, resolved from the value of today.
ReferencesKnown == \A k \in Kinds : \A c \in PropColumns(SpecFor(Blank, RecordsOf(k))) :
    /\ c.temporal # NULL
    /\ c.refs # NULL => c.temporal # "slice_only" /\ c.name # PropOf(TypeProp(k))

\* The truncated tape at t holds, in every table, the rows and the columns the
\* producer would have handed over at t, the ones with an unknowable past aside
\* (derivations.md, "The truncated-tape surface").
TruncationIsPast == \A t \in Past :
    LET cut == Truncated(emit, t)
    IN  \A n \in Tables(emit) :
           /\ ColumnNames(cut, n) = {c \in ColumnNames(emit, n) :
                 n[1] = "records" => ~NonExemptSliceOnly(emit, n[2], c)}
           /\ Len(cut.cat[n].rows) = Len(At(t).cat[n].rows)
           /\ Sameness(cut, n, ColumnNames(cut, n)) = Sameness(At(t), n, ColumnNames(cut, n))

RecordAtom(k) ==
    [kind |-> k, subTypes |-> <<>>, properties |-> NULL, ids |-> NULL, identity |-> NULL]

MemberAtom ==
    [kind |-> MemberTable[2], property |-> MemberTable[3], subTypes |-> <<>>, fields |-> NULL,
     ids |-> NULL]

Forever == LastTime + 1

\* The truncated tape is as conformant as the emit (only the physical row counts and
\* a partition that lists a dropped column tell it apart), it has every property a
\* selection may name, and the trail it shows names a change that happened.
TruncationConforms == Conformant(emit) /\ \A t \in Past :
    LET cut == Truncated(emit, t)
    IN  /\ Failing(cut) \subseteq {"C2", "C14"}
        /\ \A k \in Kinds :
              /\ \A c \in ColumnsOf(k) :
                    SelectionOpens(emit, <<[RecordAtom(k) EXCEPT !.properties = <<c.name[2]>>]>>, <<>>)
                      <=> c.name \in ColumnNames(cut, RecordsOf(k))
              /\ \A r \in TableRows(cut, RecordsOf(k)) :
                    LET then == CHOOSE q \in TableRows(At(t), RecordsOf(k)) : q[RecordId] = r[RecordId]
                    IN  /\ r[Created] <= r[Mutated] /\ r[Mutated] <= then[Mutated]
                        /\ r[Deactivated] # NULL => r[Mutated] = r[Deactivated]

\* A version cut at t: it starts by then, and it ends only if it ended by then.
CutVersions(versions, t) ==
    {[v EXCEPT !.end = IF v.end # NULL /\ v.end > t THEN NULL ELSE v.end] :
        v \in {w \in versions : w.start <= t}}

\* One truncated world: every derivation for an instant of the whole tape is the
\* same derivation run to the end of the tape truncated there, so shapes that mix
\* them agree (derivations.md, "One consistent truncated world").
FoldsCommute == \A t \in 0 .. now :
    LET cut   == Truncated(emit, t)
        table == MemberTable
        fields == FullFields(emit, table)
        upTo(events) == {ev \in events : ev.time <= t}
    IN  /\ MembershipStateAt(emit, table, fields, t + 1)
             = MembershipStateAt(cut, table, fields, Forever + 1)
        /\ upTo(MembershipEvents(emit, table, fields)) = MembershipEvents(cut, table, fields)
        /\ \A k \in Kinds :
              LET full    == FullProperties(emit, k)
                  tracked == TrackedAmong(emit, k, full)
              IN  /\ StateAt(emit, k, full, t + 1) = StateAt(cut, k, full, Forever + 1)
                  /\ upTo(RowStateEvents(emit, k, full, full)) = RowStateEvents(cut, k, full, full)
                  /\ RecordIndexAt(emit, k, t + 1) = RecordIndexAt(cut, k, NULL)
                  /\ HasPresentationId(emit, k) =>
                        PresentationKeyAt(emit, k, t + 1) = PresentationKeyAt(cut, k, NULL)
                  /\ tracked # {} =>
                        CutVersions(VersionedIntervals(emit, k, tracked, <<>>), t)
                          = VersionedIntervals(cut, k, tracked, <<>>)

\* The versions of a record tile its life from creation on, and the version over
\* an instant has the texts of the state at that instant.
VersionsAreStates == \A k \in Kinds :
    LET tracked  == TrackedAmong(emit, k, FullProperties(emit, k))
        versions == VersionedIntervals(emit, k, tracked, <<>>)
        over(v, t) == v.start <= t /\ (v.end = NULL \/ t < v.end)
    IN  tracked # {} =>
          \A t \in 0 .. now : \A s \in StateAt(emit, k, tracked, t + 1) :
             /\ Cardinality({v \in versions : v.record = s.record /\ over(v, t)}) = 1
             /\ \A v \in versions : v.record = s.record /\ over(v, t) => v.values = s.values

\* Every derivation tells of one instant the same.
DerivationsAgree == FoldsCommute /\ VersionsAreStates

CountOf(rows, record, values) ==
    Cardinality({x \in rows : x.record = record /\ x.values = values})

CountEvents(events, class, record, values) ==
    Cardinality({x \in events : x.class = class /\ x.record = record /\ x.after = values})

\* Seek at t, then the events to u: the memberships of the snapshot at u, counted.
MembersReplay(t, u) ==
    LET events == EventsBetween(AtomEvents(emit, MemberAtom), t + 1, u + 1)
        before == MembershipSnapshot(emit, MemberAtom, t)
        after  == MembershipSnapshot(emit, MemberAtom, u)
    IN  \A x \in {[record |-> s.record, values |-> s.values] : s \in before \cup after}
                \cup {[record |-> ev.record, values |-> ev.after] : ev \in events} :
           CountOf(after, x.record, x.values)
             = CountOf(before, x.record, x.values)
                 + CountEvents(events, Join, x.record, x.values)
                 - CountEvents(events, Leave, x.record, x.values)

\* The record the consumer holds: the image of the last event, or the snapshot's.
RecordsReplay(k, t, u) ==
    LET a      == RecordAtom(k)
        events == EventsBetween(RecordEvents(emit, a), t + 1, u + 1)
        live(at) == {s \in RecordSnapshot(emit, a, at) : s.active}
        held(id) ==
            LET mine == {ev \in events : ev.record = id}
                last == {ev \in mine : \A f \in mine : ~LexLess(MergeKey(ev), MergeKey(f))}
            IN  IF mine # {} THEN {ev.after : ev \in last} \ {NULL}
                ELSE {s.values : s \in {q \in live(t) : q.record = id}}
    IN  \A id \in Existing(k) : held(id) = {s.values : s \in {q \in live(u) : q.record = id}}

\* Replaying the events over a snapshot reproduces any later snapshot (head.py,
\* seek), for records and for memberships, whatever happened in one instant.
ReplayAgrees == \A t \in 0 .. now : \A u \in t .. now :
    /\ MembersReplay(t, u)
    /\ \A k \in Kinds : RecordsReplay(k, t, u)

\* In the order of the merge no membership event falls outside the life of its
\* owner, nor a leave before its join, and no two events share a number
\* (playback.md: an owner's c precedes its coincident join, a leave its owner's d).
EventsNested ==
    LET events == SelectionEvents(emit, <<RecordAtom(Owner)>>, <<MemberAtom>>)
        seq(ev) == EventSeq(events, ev)
    IN  /\ {seq(ev) : ev \in events} = 1 .. Cardinality(events)
        /\ \A m \in {ev \in events : ev.family = 1}, r \in {ev \in events : ev.family = 0} :
              m.record = r.record =>
                 /\ r.class = Create => seq(r) < seq(m)
                 /\ r.class = Delete /\ m.class = Leave => seq(m) < seq(r)
        /\ \A m, l \in {ev \in events : ev.family = 1} :
              m.at = l.at /\ m.class = Join /\ l.class = Leave => seq(m) < seq(l)

\* Playback opens a conformant tape at whatever instant, and tells from there one story
\* in one order.
PlaybackAgrees == TruncationConforms /\ ReplayAgrees /\ EventsNested

\* A snapshot has the records the selection is about and no other (playback.md,
\* "Snapshot": "each restricted to the selection's population").
PopulationKept ==
    \A t \in 0 .. now : \A s \in RecordSnapshot(emit, Narrow, t) : InScope(emit, Narrow, s.record)
=============================================================================
