--------------------------- MODULE StreamPlayback ---------------------------
(***************************************************************************)
(* Stream playback over one tape: the row-state-events fold of each        *)
(* declared stream, the merge that numbers the events, bounded asks, and   *)
(* seek, which puts a snapshot phase of `r` events before the live phase.  *)
(* A consumer folds what it pulls as an upsert log.                        *)
(*                                                                         *)
(* The streams read one kind and its history-tracked properties (constant  *)
(* ones have one value); sub_types and `where` come to the set of records  *)
(* a stream selects.  Stream names and record ids are numbers in the order *)
(* of the strings.  A value is named by the instant that wrote it, so two  *)
(* different writes never look alike.  The tape does not change under an   *)
(* open emit, so when an answer is computed makes no difference.           *)
(***************************************************************************)
EXTENDS Integers, FiniteSets

CONSTANTS
    Streams, Records,   \* subsets of Nat, for the order of names and ids
    Properties,         \* the history-tracked properties of the kind
    LastTime,           \* the tape's instants are 0 .. LastTime
    Tapes,              \* the tapes explored
    Configs,            \* the stream configurations explored
    Never, Null, Absent

Times == 0 .. LastTime
Beyond == LastTime + 1          \* as a bound: None, the end of the tape

\* What contract/base-format.md promises of a tape: every property is seeded at
\* the record's creation, and nothing is written outside the record's life.
Conformant(tape) ==
    \A r \in Records :
        /\ tape.deactivated[r] # Never => tape.created[r] <= tape.deactivated[r]
        /\ \A p \in Properties :
            /\ tape.created[r] \in tape.written[r][p]
            /\ \A t \in tape.written[r][p] :
                /\ tape.created[r] <= t
                /\ tape.deactivated[r] # Never => t <= tape.deactivated[r]

\* Names and ids have an order, and no image is mistaken for its absence.
ASSUME DomainAssumption ==
    /\ Streams \subseteq Nat /\ IsFiniteSet(Streams)
    /\ Records \subseteq Nat /\ IsFiniteSet(Records)
    /\ LastTime \in Nat
    /\ \A shown \in SUBSET Properties : Absent \notin [shown -> Times \cup {Null}]

ASSUME TapeAssumption ==
    \A tape \in Tapes :
        /\ tape \in [created : [Records -> Times],
                     deactivated : [Records -> Times \cup {Never}],
                     written : [Records -> [Properties -> SUBSET Times]]]
        /\ Conformant(tape)

\* properties is what a stream publishes, scope what `only` and `ignore` leave of
\* the audited properties.
ASSUME ConfigAssumption ==
    Configs \subseteq [Streams -> [selected : SUBSET Records,
                                   properties : SUBSET Properties,
                                   scope : SUBSET Properties]]

VARIABLES
    tape, config,
    phase,      \* "idle", or which half of the answer is being pulled
    from, until,    \* the live phase's bounds
    pulled,     \* events of the answer already pulled
    seq,        \* number of the last event pulled
    folded      \* stream -> record -> the image the consumer holds

vars == <<tape, config, phase, from, until, pulled, seq, folded>>

NothingFolded == [s \in Streams |-> [r \in Records |-> Absent]]

Init ==
    /\ tape \in Tapes
    /\ config \in Configs
    /\ phase = "idle"
    /\ from = 0 /\ until = 0
    /\ pulled = {}
    /\ seq = 0
    /\ folded = NothingFolded

-----------------------------------------------------------------------------
(* The folds.                                                              *)

Latest(times) ==
    IF times = {} THEN Null ELSE CHOOSE t \in times : \A u \in times : u <= t

\* The ASOF LEFT JOIN of row_state_events: inclusive of the event's instant.
AsOf(r, p, time) == Latest({t \in tape.written[r][p] : t <= time})

\* The ranked join of state_at: exclusive of the horizon.
BeforeHorizon(r, p, horizon) == Latest({t \in tape.written[r][p] : t < horizon})

Create == 0
Update == 1
Delete == 2

Event(time, class, s, r) == [time |-> time, class |-> class, stream |-> s, record |-> r]

UpdateTimes(s, r) ==
    {t \in UNION {tape.written[r][p] : p \in config[s].scope} : t > tape.created[r]}

RowStateEvents(s) ==
    UNION {  {Event(tape.created[r], Create, s, r)}
        \cup {Event(t, Update, s, r) : t \in UpdateTimes(s, r)}
        \cup {Event(t, Delete, s, r) : t \in {tape.deactivated[r]} \ {Never}} :
            r \in config[s].selected}

\* The image an event carries; a delete carries none.
Image(e) ==
    IF e.class = Delete THEN Absent
    ELSE [p \in config[e.stream].properties |-> AsOf(e.record, p, e.time)]

\* build_state_at_sql, the rows with `active`.
\* Mutant: a record deactivated at the last instant counts as live.
Live_AtHorizon(s, horizon) ==
    {r \in config[s].selected :
        /\ tape.created[r] < horizon
        /\ tape.deactivated[r] # Never => tape.deactivated[r] >= horizon - 1}

Live(s, horizon) ==
    {r \in config[s].selected :
        /\ tape.created[r] < horizon
        /\ tape.deactivated[r] # Never => tape.deactivated[r] >= horizon}

StateAt(s, r, horizon) ==
    IF r \in Live(s, horizon)
    THEN [p \in config[s].properties |-> BeforeHorizon(r, p, horizon)]
    ELSE Absent

-----------------------------------------------------------------------------
(* The merge, its numbering, and the answers.                              *)

Events == UNION {RowStateEvents(s) : s \in Streams}

\* (event_sim_time, event_class, stream_name, record_id)
Precedes(e, f) ==
    \/ e.time < f.time
    \/ e.time = f.time /\ e.class < f.class
    \/ e.time = f.time /\ e.class = f.class /\ e.stream < f.stream
    \/ e.time = f.time /\ e.class = f.class /\ e.stream = f.stream /\ e.record < f.record

Bounded(start, end) == {e \in Events : start <= e.time /\ e.time < end}

\* Mutant: the events are numbered after the bounds were applied.
SeqOf_Bounded(e) == Cardinality({f \in Bounded(from, until) : f = e \/ Precedes(f, e)})

SeqOf(e) == Cardinality({f \in Events : f = e \/ Precedes(f, e)})

\* The number every `r` of a phase carries: the events up to the position.
SnapshotSeq(horizon) == Cardinality(Bounded(0, horizon))

\* One `r` per live record and covering stream.
SnapshotRows(horizon) ==
    UNION {{[stream |-> s, record |-> r] : r \in Live(s, horizon)} : s \in Streams}

Unread == SnapshotRows(from) \ pulled

ReadBefore(e, f) ==
    e.stream < f.stream \/ (e.stream = f.stream /\ e.record < f.record)

Unplayed == Bounded(from, until) \ pulled

\* A consumer starts over with seek(T, end); the live phase begins at T + 1.
Seek ==
    /\ phase = "idle"
    /\ \E position \in Times : \E end \in position + 1 .. Beyond :
        /\ from' = position + 1
        /\ until' = end
    /\ phase' = "snapshot"
    /\ pulled' = {}
    /\ seq' = 0
    /\ folded' = NothingFolded
    /\ UNCHANGED <<tape, config>>

\* A consumer that has its answer goes on with events(end, later).
Continue ==
    /\ phase = "idle"
    /\ until < Beyond
    /\ from' = until
    /\ until' \in until + 1 .. Beyond
    /\ phase' = "live"
    /\ pulled' = {}
    /\ UNCHANGED <<tape, config, seq, folded>>

PullSnapshot ==
    /\ phase = "snapshot"
    /\ \E e \in Unread :
        /\ \A f \in Unread \ {e} : ReadBefore(e, f)
        /\ pulled' = pulled \cup {e}
        /\ folded' = [folded EXCEPT ![e.stream][e.record] = StateAt(e.stream, e.record, from)]
    /\ seq' = SnapshotSeq(from)
    /\ UNCHANGED <<tape, config, phase, from, until>>

\* The phase is exhausted and the chained live phase takes over.  A phase without
\* rows says nothing of the position; the consumer learns it from the next event.
EndSnapshot ==
    /\ phase = "snapshot"
    /\ Unread = {}
    /\ phase' = "live"
    /\ pulled' = {}
    /\ UNCHANGED <<tape, config, from, until, seq, folded>>

PullLive ==
    /\ phase = "live"
    /\ \E e \in Unplayed :
        /\ \A f \in Unplayed \ {e} : Precedes(e, f)
        /\ pulled' = pulled \cup {e}
        /\ seq' = SeqOf(e)
        /\ folded' = [folded EXCEPT ![e.stream][e.record] = Image(e)]
    /\ UNCHANGED <<tape, config, phase, from, until>>

EndLive ==
    /\ phase = "live"
    /\ Unplayed = {}
    /\ phase' = "idle"
    /\ UNCHANGED <<tape, config, from, until, pulled, seq, folded>>

Next == Seek \/ Continue \/ PullSnapshot \/ EndSnapshot \/ PullLive \/ EndLive

Spec == Init /\ [][Next]_vars

-----------------------------------------------------------------------------
(* Properties.                                                             *)

Images == {Absent} \cup UNION {[shown -> Times \cup {Null}] : shown \in SUBSET Properties}

\* Type invariant; the numbers stay within the whole tape's.
TypeOK ==
    /\ phase \in {"idle", "snapshot", "live"}
    /\ from \in 0 .. Beyond /\ until \in 0 .. Beyond
    /\ seq \in 0 .. Cardinality(Events)
    /\ folded \in [Streams -> [Records -> Images]]

\* What a consumer of the whole play holds once it has everything before end:
\* the image of each key's last event.
Replayed(s, r, end) ==
    LET Seen == {e \in RowStateEvents(s) : e.record = r /\ e.time < end}
    IN  IF Seen = {} THEN Absent
        ELSE Image(CHOOSE e \in Seen : \A f \in Seen \ {e} : Precedes(f, e))

Keys(images) == {k \in Streams \X Records : images[k[1]][k[2]] # Absent}

\* Change scope covers everything the stream shows.
Covers(s) == config[s].properties \subseteq config[s].scope

Replay == [s \in Streams |-> [r \in Records |-> Replayed(s, r, until)]]

Snapshot == [s \in Streams |-> [r \in Records |-> StateAt(s, r, until)]]

\* Wherever a consumer joined and however it cut its asks, it holds the keys of
\* a consumer of the whole play, and wherever the change scope covers the
\* properties shown it holds the same images, which are those of the snapshot at
\* that position (stream-playback.md, the seek-state equivalence; head.py,
\* "replaying the events over the snapshot reproduces any later snapshot").
SeekAgrees ==
    phase = "idle" =>
        /\ Keys(folded) = Keys(Replay)
        /\ \A s \in Streams : Covers(s) => folded[s] = Replay[s] /\ folded[s] = Snapshot[s]

\* No event is lost, repeated or renumbered, inside an answer, between the two
\* phases of a seek, or between one ask and the next.
SeqContinuous ==
    [][phase = "live" /\ phase' = "live" /\ pulled' # pulled =>
        \/ seq' = seq + 1
        \/ seq = 0 /\ pulled = {} /\ seq' = SnapshotSeq(from) + 1]_vars

\* The numbering survives every cut, and stays within the whole tape's.
NumbersContinue == []TypeOK /\ SeqContinuous

\* stream-playback.md:157, "the folded state after `seek(T, end)` equals the
\* folded state after `events(None, end)`, for every T and every `end`".
SeekEqualsReplay == phase = "idle" => folded = Replay
=============================================================================
