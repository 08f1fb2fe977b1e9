------------------------------ MODULE Playback ------------------------------
(***************************************************************************)
(* playback/ tier 1: a selection of record kinds and memberships is        *)
(* resolved against the sidecar; its events are the merge of one fold per  *)
(* atom, numbered over the whole tape; a snapshot is the point-in-time     *)
(* folds; seek pairs the snapshot at T with the events from T + 1 on.      *)
(*                                                                         *)
(* A record atom is [kind, subTypes, properties, ids, identity], a         *)
(* membership atom [kind, property, subTypes, fields, ids]; NULL says "no  *)
(* restriction".  Kinds and record ids are compared as strings by the      *)
(* merge: NameRank gives that order.                                       *)
(***************************************************************************)
EXTENDS Derivations, FiniteSetsExt

CONSTANT NameRank(_)    \* the place of a kind or a property among the strings

Distinct(s) == Cardinality(Range(s)) = Len(s)
Named(s)    == IF s = NULL THEN {} ELSE Range(s)

---------------------------------------------------------------------------
(* selection.py *)

Tier1Identity == {RecordId, Presented}

SubTypesResolve(e, k, subTypes) ==
    subTypes # <<>> =>
        /\ SubTypes(e, k) # {}
        /\ PropOf(TypeProp(k)) \in ColumnNames(e, RecordsOf(k))
        /\ Distinct(subTypes) /\ Range(subTypes) \subseteq SubTypes(e, k)

\* _full_record_properties: what has a knowable value at every instant.
FullProperties(e, k) ==
    {c.name[2] : c \in {d \in PropColumns(SpecFor(e, RecordsOf(k))) :
        \/ ExemptDiscriminator(e, k, d.name)
        \/ d.temporal \in {"tracked", "constant"}}}

PropertiesResolve(e, k, properties) ==
    properties # NULL =>
        /\ Distinct(properties)
        /\ \A p \in Range(properties) :
              /\ PropOf(p) \in ColumnNames(e, RecordsOf(k))
              /\ ~NonExemptSliceOnly(e, k, PropOf(p))

FullFields(e, n) == {c[2] : c \in {d \in ColumnNames(e, n) : d[1] \in {"member_kind", "elem"}}}

FieldsResolve(e, n, fields) ==
    fields # NULL => Distinct(fields) /\ Range(fields) \subseteq FullFields(e, n)

\* The record id is the event key and is always published.
IdentityResolves(e, k, identity) ==
    identity # NULL =>
        /\ Distinct(identity) /\ Range(identity) \subseteq Tier1Identity
        /\ RecordId \in Range(identity)
        /\ Presented \in Range(identity) => HasPresentationId(e, k)

RecordAtomResolves(e, a) ==
    /\ RecordsOf(a.kind) \in Tables(e)
    /\ SubTypesResolve(e, a.kind, a.subTypes)
    /\ a.ids # {}
    /\ IdentityResolves(e, a.kind, a.identity)
    /\ PropertiesResolve(e, a.kind, a.properties)

MembershipAtomResolves(e, a) ==
    /\ Membership(a.kind, a.property) \in Tables(e)
    /\ SubTypesResolve(e, a.kind, a.subTypes)
    /\ a.ids # {}
    /\ FieldsResolve(e, Membership(a.kind, a.property), a.fields)

\* resolve_selection: every atom resolves and no table is named twice.
SelectionOpens(e, records, memberships) ==
    /\ SingleBranch(e)
    /\ records # <<>> \/ memberships # <<>>
    /\ Distinct([i \in DOMAIN records |-> records[i].kind])
    /\ Distinct([i \in DOMAIN memberships |-> <<memberships[i].kind, memberships[i].property>>])
    /\ \A i \in DOMAIN records : RecordAtomResolves(e, records[i])
    /\ \A i \in DOMAIN memberships : MembershipAtomResolves(e, memberships[i])

SelectedProperties(e, a) ==
    IF a.properties = NULL THEN FullProperties(e, a.kind)
    ELSE FullProperties(e, a.kind) \cap Named(a.properties)

SelectedFields(e, a) ==
    LET full == FullFields(e, Membership(a.kind, a.property))
    IN  IF a.fields = NULL THEN full ELSE full \cap Named(a.fields)

PublishedIdentity(e, a) ==
    IF a.identity = NULL
    THEN {RecordId} \cup (IF HasPresentationId(e, a.kind) THEN {Presented} ELSE {})
    ELSE Named(a.identity)

---------------------------------------------------------------------------
(* stamp.py: the sub-type of a record, which also filters. *)

Stamp(e, k, id) ==
    IF SubTypes(e, k) = {} \/ PropOf(TypeProp(k)) \notin ColumnNames(e, RecordsOf(k)) THEN NULL
    ELSE LET found == {r \in TrunkRows(e, RecordsOf(k)) : r[RecordId] = id}
         IN  IF found = {} THEN NULL ELSE (CHOOSE r \in found : TRUE)[PropOf(TypeProp(k))]

InScope(e, a, id) ==
    /\ a.subTypes # <<>> => Stamp(e, a.kind, id) \in Range(a.subTypes)
    /\ a.ids # NULL => id \in a.ids

---------------------------------------------------------------------------
(* events.py *)

\* The fold ranges over every property of the kind, so a selection of some of
\* them changes the images and never which events there are.
RecordEvents(e, a) ==
    LET full  == FullProperties(e, a.kind)
        shown == SelectedProperties(e, a)
        image(ev) == IF ev.after = NULL THEN NULL ELSE [p \in shown |-> ev.after[p]]
    IN  {[time |-> ev.time, class |-> ev.class, family |-> 0, table |-> <<a.kind>>,
          record |-> ev.record, after |-> image(ev), at |-> 0] :
            ev \in {f \in RowStateEvents(e, a.kind, full, full) : InScope(e, a, f.record)}}

AtomEvents(e, a) ==
    LET n == Membership(a.kind, a.property)
        shown == MembershipColumns(e, n, SelectedFields(e, a))
    IN  {[time |-> ev.time, class |-> ev.class, family |-> 1, table |-> <<a.kind, a.property>>,
          record |-> ev.record, after |-> [c \in shown |-> ev.after[c]], at |-> ev.at] :
            ev \in {f \in MembershipEvents(e, n, FullFields(e, n)) : InScope(e, a, f.record)}}

SelectionEvents(e, records, memberships) ==
    UNION ({RecordEvents(e, records[i]) : i \in DOMAIN records}
             \cup {AtomEvents(e, memberships[i]) : i \in DOMAIN memberships})

\* Lexicographic order of two equally long tuples of integers.
LexLess(s, t) ==
    \E i \in DOMAIN s : s[i] < t[i] /\ \A j \in 1 .. i - 1 : s[j] = t[j]

\* The key of the merge. Of two intervals that look alike the fold's own row order
\* decides, which tells them apart no further.
MergeKey(ev) ==
    <<ev.time, ev.class, ev.family, NameRank(ev.table[1]), NameRank(ev.table[Len(ev.table)]),
      ev.record, ev.at>>

\* The number of an event counts over the whole selection, before any bound.
EventSeq(events, ev) ==
    1 + Cardinality({f \in events : LexLess(MergeKey(f), MergeKey(ev))})

\* NULL leaves a bound open.
BoundsLegal(start, end) ==
    /\ start # NULL => start >= 0
    /\ end # NULL => end >= 0
    /\ start # NULL /\ end # NULL => start <= end

EventsBetween(events, start, end) ==
    {ev \in events : (start # NULL => ev.time >= start) /\ (end # NULL => ev.time < end)}

---------------------------------------------------------------------------
(* snapshot.py: one table per atom, each built when it is first read, from *)
(* an emit nothing changes. The horizon is exclusive.                      *)

\* Neither table asks who is in scope: the stamp is a column and no filter.
RecordSnapshot(e, a, at) ==
    {[record |-> s.record, active |-> s.active, created |-> s.created,
      subType |-> Stamp(e, a.kind, s.record), values |-> s.values] :
        s \in StateAt(e, a.kind, SelectedProperties(e, a), at + 1)}

MembershipSnapshot(e, a, at) ==
    MembershipStateAt(e, Membership(a.kind, a.property), SelectedFields(e, a), at + 1)

\* seek: the snapshot at T and the events from T + 1, without an end.
SeekEvents(events, at) == EventsBetween(events, at + 1, NULL)
=============================================================================
