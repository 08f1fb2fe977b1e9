------------------------ MODULE StreamPlayback_proofs ------------------------
(***************************************************************************)
(* Seek agrees with replay, and the numbers of the events have no gap, for *)
(* every conformant tape, every configuration of the streams and every way *)
(* a consumer joins and cuts its asks.                                     *)
(*                                                                         *)
(* What a consumer holds is compared with the tape itself, not with the    *)
(* other consumer.  Three facts carry the argument: the last event of a    *)
(* key before a position decides what the snapshot there shows             *)
(* (LastDecides), nothing changes for a key between two positions without  *)
(* an event of it (SameThrough), and an ask plays its events in their      *)
(* order (PlayedInOrder), so that when it ends each key holds either its   *)
(* last event's image or what it held at the start.                        *)
(***************************************************************************)
EXTENDS StreamPlayback, FiniteSetTheorems, WellFoundedInduction, TLAPS

Given == tape \in Tapes /\ config \in Configs

-----------------------------------------------------------------------------
(* The tape, the streams and their events.                                 *)

LEMMA TapeFacts ==
    ASSUME Given, NEW r \in Records
    PROVE  /\ tape.created[r] \in Times
           /\ tape.deactivated[r] # Never =>
                tape.deactivated[r] \in Times /\ tape.created[r] <= tape.deactivated[r]
           /\ \A p \in Properties :
                /\ tape.written[r][p] \subseteq Times
                /\ \A t \in tape.written[r][p] :
                    /\ tape.created[r] <= t
                    /\ tape.deactivated[r] # Never => t <= tape.deactivated[r]
<1>1. /\ tape \in [created : [Records -> Times],
                   deactivated : [Records -> Times \cup {Never}],
                   written : [Records -> [Properties -> SUBSET Times]]]
      /\ Conformant(tape)
  BY TapeAssumption DEF Given
<1> QED
  BY <1>1 DEF Conformant

LEMMA StreamFacts ==
    ASSUME Given, NEW s \in Streams
    PROVE  /\ config[s].selected \subseteq Records
           /\ config[s].properties \subseteq Properties
           /\ config[s].scope \subseteq Properties
BY ConfigAssumption DEF Given

LEMMA TimesFacts ==
    /\ LastTime \in Nat
    /\ \A t : t \in Times <=> t \in Int /\ 0 <= t /\ t <= LastTime
    /\ \A b : b \in 0 .. Beyond <=> b \in Int /\ 0 <= b /\ b <= LastTime + 1
BY DomainAssumption DEF Times, Beyond

\* An event is about a record its stream selects, within the record's life.
LEMMA EventFacts ==
    ASSUME Given, NEW e \in Events
    PROVE  /\ e \in [time : Times, class : 0 .. 2, stream : Streams, record : Records]
           /\ e.record \in config[e.stream].selected
           /\ tape.created[e.record] <= e.time
           /\ tape.deactivated[e.record] # Never => e.time <= tape.deactivated[e.record]
           /\ e.class = Delete => /\ tape.deactivated[e.record] # Never
                                  /\ e.time = tape.deactivated[e.record]
<1>1. PICK s \in Streams : e \in RowStateEvents(s)
  BY DEF Events
<1>2. PICK r \in config[s].selected :
        \/ e = Event(tape.created[r], Create, s, r)
        \/ \E t \in UpdateTimes(s, r) : e = Event(t, Update, s, r)
        \/ \E t \in {tape.deactivated[r]} \ {Never} : e = Event(t, Delete, s, r)
  BY <1>1 DEF RowStateEvents
<1>3. r \in Records
  BY StreamFacts
<1>4. /\ tape.created[r] \in Int
      /\ tape.deactivated[r] # Never => tape.deactivated[r] \in Int
  BY <1>3, TapeFacts, TimesFacts
<1>5. CASE e = Event(tape.created[r], Create, s, r)
  BY <1>2, <1>3, <1>4, <1>5, TapeFacts DEF Event, Create, Delete
<1>6. CASE \E t \in UpdateTimes(s, r) : e = Event(t, Update, s, r)
  <2>1. PICK t \in UpdateTimes(s, r) : e = Event(t, Update, s, r)
    BY <1>6
  <2>2. t > tape.created[r] /\ \E p \in config[s].scope : t \in tape.written[r][p]
    BY DEF UpdateTimes
  <2>3. t \in Times
    BY <2>2, <1>3, TapeFacts, StreamFacts
  <2>4. tape.created[r] <= t
    <3>1. t \in Int
      BY <2>3, TimesFacts
    <3> QED
      BY <3>1, <2>2, <1>4
  <2>5. tape.deactivated[r] # Never => t <= tape.deactivated[r]
    BY <2>2, <1>3, TapeFacts, StreamFacts
  <2> QED
    BY <1>2, <1>3, <2>1, <2>3, <2>4, <2>5 DEF Event, Update, Delete
<1>7. CASE \E t \in {tape.deactivated[r]} \ {Never} : e = Event(t, Delete, s, r)
  BY <1>2, <1>3, <1>4, <1>7, TapeFacts DEF Event, Delete
<1> QED
  BY <1>2, <1>5, <1>6, <1>7

LEMMA EventsOfStream ==
    ASSUME Given, NEW s \in Streams
    PROVE  RowStateEvents(s) = {e \in Events : e.stream = s}
<1>1. ASSUME NEW z \in Streams, NEW e \in RowStateEvents(z) PROVE e.stream = z
  BY DEF RowStateEvents, Event
<1> QED
  BY <1>1 DEF Events

\* The events a stream has of a record.
LEMMA EventsOfRecord ==
    ASSUME Given, NEW s \in Streams, NEW r \in config[s].selected
    PROVE  /\ Event(tape.created[r], Create, s, r) \in Events
           /\ \A t \in UpdateTimes(s, r) : Event(t, Update, s, r) \in Events
           /\ tape.deactivated[r] # Never => Event(tape.deactivated[r], Delete, s, r) \in Events
BY DEF Events, RowStateEvents

-----------------------------------------------------------------------------
(* The order of events.                                                    *)

Box == [time : Times, class : 0 .. 2, stream : Streams, record : Records]

LEMMA BoxFacts ==
    ASSUME NEW e \in Box
    PROVE  e.time \in Int /\ e.class \in Int /\ e.stream \in Int /\ e.record \in Int
<1>1. e.time \in Times /\ e.class \in 0 .. 2 /\ e.stream \in Streams /\ e.record \in Records
  BY DEF Box
<1>2. Streams \subseteq Nat /\ Records \subseteq Nat
  BY DomainAssumption
<1>3. e.time \in Int
  BY <1>1, TimesFacts
<1>4. e.class \in Int
  BY <1>1
<1>5. e.stream \in Int
  <2>1. e.stream \in Nat
    BY <1>1, <1>2, Zenon
  <2> QED
    BY <2>1
<1>6. e.record \in Int
  <2>1. e.record \in Nat
    BY <1>1, <1>2, Zenon
  <2> QED
    BY <2>1
<1> QED
  BY <1>3, <1>4, <1>5, <1>6

LEMMA PrecedesOrders ==
    ASSUME NEW e \in Box, NEW f \in Box
    PROVE  /\ ~ (Precedes(e, f) /\ Precedes(f, e))
           /\ e = f \/ Precedes(e, f) \/ Precedes(f, e)
           /\ ~ Precedes(e, e)
           /\ Precedes(e, f) => e.time <= f.time
           /\ e.time < f.time => Precedes(e, f)
<1>1. /\ e.time \in Int /\ f.time \in Int /\ e.class \in Int /\ f.class \in Int
      /\ e.stream \in Int /\ f.stream \in Int /\ e.record \in Int /\ f.record \in Int
  BY BoxFacts
<1>2. e.time = f.time /\ e.class = f.class /\ e.stream = f.stream /\ e.record = f.record => e = f
  BY DEF Box
<1> QED
  BY <1>1, <1>2 DEF Precedes

LEMMA PrecedesTransitive ==
    ASSUME NEW e \in Box, NEW f \in Box, NEW g \in Box, Precedes(e, f), Precedes(f, g)
    PROVE  Precedes(e, g)
<1>1. \A x \in Box : x.time \in Int /\ x.class \in Int /\ x.stream \in Int /\ x.record \in Int
  BY BoxFacts
<1> QED
  BY <1>1 DEF Precedes

LEMMA BoxIsFinite == IsFiniteSet(Box)
<1> DEFINE Where == (Times \X (0 .. 2)) \X (Streams \X Records)
           place == [e \in Box |-> <<<<e.time, e.class>>, <<e.stream, e.record>>>>]
<1>1. IsFiniteSet(Times) /\ IsFiniteSet(0 .. 2)
  <2>1. 0 \in Int /\ 2 \in Int /\ LastTime \in Int
    BY TimesFacts
  <2> QED
    BY <2>1, FS_Interval DEF Times
<1>2. IsFiniteSet(Where)
  BY <1>1, FS_Product, DomainAssumption
<1>3. place \in [Box -> Where]
  BY DEF Box
<1>4. \A e, f \in Box : place[e] = place[f] => e = f
  BY DEF Box
<1>5. place \in Injection(Box, Where)
  <2> HIDE DEF place, Where
  <2> QED
    BY <1>3, <1>4 DEF Injection, IsInjective
<1> QED
  BY <1>2, <1>5, FS_Injection

LEMMA EventsInBox == ASSUME Given PROVE Events \subseteq Box /\ IsFiniteSet(Events)
<1>1. Events \subseteq Box
  BY EventFacts DEF Box
<1> QED
  BY <1>1, BoxIsFinite, FS_Subset

\* Any finite, nonempty set of events has a last one.
LEMMA LastExists ==
    ASSUME NEW S \in SUBSET Box, S # {}
    PROVE  \E e \in S : \A f \in S \ {e} : Precedes(f, e)
<1> DEFINE After(e) == {f \in S : Precedes(e, f)}
           T == {After(e) : e \in S}
<1>0. IsFiniteSet(S)
  BY BoxIsFinite, FS_Subset
<1>1. T \subseteq FiniteSubsetsOf(S) /\ T # {}
  <2>1. \A e \in S : IsFiniteSet(After(e))
    BY <1>0, FS_Subset
  <2> QED
    BY <2>1 DEF FiniteSubsetsOf
<1>2. PICK m \in T : \A n \in T : <<n, m>> \notin StrictSubsetOrdering(S)
  <2> HIDE DEF T
  <2> QED
    BY <1>1, FS_StrictSubsetOrderingWellFounded, WFMin
<1>3. PICK e \in S : m = After(e)
  OBVIOUS
<1>4. ASSUME NEW f \in S, f # e, ~ Precedes(f, e) PROVE FALSE
  <2>1. Precedes(e, f)
    BY <1>4, PrecedesOrders
  <2>2. f \in After(e) /\ f \notin After(f) /\ After(f) \in T
    BY <2>1, PrecedesOrders
  <2>3. After(f) \subseteq After(e)
    BY <2>1, PrecedesTransitive
  <2>4. After(f) \subseteq S /\ After(e) \subseteq S
    OBVIOUS
  <2> HIDE DEF T, After
  <2>5. <<After(f), After(e)>> \in StrictSubsetOrdering(S)
    BY <2>2, <2>3, <2>4 DEF StrictSubsetOrdering
  <2> QED
    BY <1>2, <1>3, <2>2, <2>5
<1> QED
  BY <1>4
-----------------------------------------------------------------------------
(* The folds.                                                              *)

\* A set of the tape's instants has a latest one.
LEMMA LatestFacts ==
    ASSUME NEW S \in SUBSET Times
    PROVE  Latest(S) \in Times \cup {Null}
<1> SUFFICES ASSUME S # {} PROVE Latest(S) \in Times
  BY DEF Latest
<1> DEFINE Later(t) == {u \in S : t < u}
           T == {Later(t) : t \in S}
<1>0. IsFiniteSet(S)
  <2>1. 0 \in Int /\ LastTime \in Int
    BY TimesFacts
  <2> QED
    BY <2>1, FS_Interval, FS_Subset DEF Times
<1>1. T \subseteq FiniteSubsetsOf(S) /\ T # {}
  <2>1. \A t \in S : IsFiniteSet(Later(t))
    BY <1>0, FS_Subset
  <2> QED
    BY <2>1 DEF FiniteSubsetsOf
<1>2. PICK m \in T : \A n \in T : <<n, m>> \notin StrictSubsetOrdering(S)
  <2> HIDE DEF T
  <2> QED
    BY <1>1, FS_StrictSubsetOrderingWellFounded, WFMin
<1>3. PICK t \in S : m = Later(t)
  OBVIOUS
<1>4. ASSUME NEW u \in S, t < u PROVE FALSE
  <2>1. t \in Int /\ u \in Int /\ \A x \in S : x \in Int
    BY TimesFacts
  <2>2. u \in Later(t) /\ u \notin Later(u) /\ Later(u) \in T
    BY <1>4, <2>1
  <2>3. Later(u) \subseteq Later(t)
    <3>1. ASSUME NEW x \in S, u < x PROVE t < x
      <4>1. x \in Int
        BY <2>1
      <4> QED
        BY <1>4, <2>1, <3>1, <4>1
    <3> QED
      BY <3>1
  <2>4. Later(u) \subseteq S /\ Later(t) \subseteq S
    OBVIOUS
  <2> HIDE DEF T, Later
  <2>5. <<Later(u), Later(t)>> \in StrictSubsetOrdering(S)
    BY <2>2, <2>3, <2>4 DEF StrictSubsetOrdering
  <2> QED
    BY <1>2, <1>3, <2>2, <2>5
<1>5. \A u \in S : u <= t
  <2>1. t \in Int /\ \A x \in S : x \in Int
    BY TimesFacts
  <2> QED
    BY <1>4, <2>1
<1> QED
  BY <1>5 DEF Latest

\* What an event carries is an image, and absence only for a delete.
LEMMA ImageFacts ==
    ASSUME Given, NEW e \in Events
    PROVE  /\ Image(e) \in Images
           /\ Image(e) = Absent <=> e.class = Delete
<1>1. e.stream \in Streams /\ e.record \in Records
  BY EventFacts
<1>2. config[e.stream].properties \in SUBSET Properties
  BY <1>1, StreamFacts
<1>3. \A p \in config[e.stream].properties : AsOf(e.record, p, e.time) \in Times \cup {Null}
  <2>1. ASSUME NEW p \in config[e.stream].properties
        PROVE  {t \in tape.written[e.record][p] : t <= e.time} \in SUBSET Times
    BY <1>1, <1>2, TapeFacts
  <2> QED
    BY <2>1, LatestFacts DEF AsOf
<1>4. [p \in config[e.stream].properties |-> AsOf(e.record, p, e.time)]
        \in [config[e.stream].properties -> Times \cup {Null}]
  BY <1>3
<1>5. Absent \notin [config[e.stream].properties -> Times \cup {Null}]
  BY <1>2, DomainAssumption
<1> QED
  BY <1>2, <1>4, <1>5 DEF Image, Images

\* A snapshot shows an image for the live records, and absence for the others.
LEMMA StateFacts ==
    ASSUME Given, NEW s \in Streams, NEW r \in Records, NEW end
    PROVE  /\ StateAt(s, r, end) \in Images
           /\ StateAt(s, r, end) # Absent <=> r \in Live(s, end)
<1>2. config[s].properties \in SUBSET Properties
  BY StreamFacts
<1>3. \A p \in config[s].properties : BeforeHorizon(r, p, end) \in Times \cup {Null}
  <2>1. ASSUME NEW p \in config[s].properties
        PROVE  {t \in tape.written[r][p] : t < end} \in SUBSET Times
    BY <1>2, TapeFacts
  <2> QED
    BY <2>1, LatestFacts DEF BeforeHorizon
<1>4. [p \in config[s].properties |-> BeforeHorizon(r, p, end)]
        \in [config[s].properties -> Times \cup {Null}]
  BY <1>3
<1>5. Absent \notin [config[s].properties -> Times \cup {Null}]
  BY <1>2, DomainAssumption
<1> QED
  BY <1>2, <1>4, <1>5 DEF StateAt, Images

\* What a consumer that has everything before end should hold of a key.
Agreed(s, r, image, end) ==
    /\ image # Absent <=> r \in Live(s, end)
    /\ Covers(s) => image = StateAt(s, r, end)

Past(s, r, end) == {e \in Events : e.stream = s /\ e.record = r /\ e.time < end}

\* The last event of a key before a position decides what is to be held there.
LEMMA LastDecides ==
    ASSUME Given, NEW s \in Streams, NEW r \in Records, NEW end \in 0 .. Beyond,
           NEW e \in Past(s, r, end), \A f \in Past(s, r, end) \ {e} : Precedes(f, e)
    PROVE  Agreed(s, r, Image(e), end)
<1>1. /\ e \in Events /\ e \in Box /\ e.stream = s /\ e.record = r /\ e.time < end
      /\ e.time \in Int /\ end \in Int /\ r \in config[s].selected
      /\ tape.created[r] <= e.time
  BY EventsInBox, EventFacts, BoxFacts, TimesFacts DEF Past
<1>2. /\ tape.created[r] \in Int
      /\ tape.deactivated[r] # Never => tape.deactivated[r] \in Int
      /\ tape.deactivated[r] # Never => e.time <= tape.deactivated[r]
  <2>1. /\ tape.created[r] \in Int
        /\ tape.deactivated[r] # Never => tape.deactivated[r] \in Int
    BY TapeFacts, TimesFacts
  <2> QED
    BY <1>1, <2>1, EventFacts
<1>3. CASE e.class = Delete
  <2>1. tape.deactivated[r] # Never /\ e.time = tape.deactivated[r]
    BY <1>1, <1>3, EventFacts
  <2>2. r \notin Live(s, end)
    BY <1>1, <1>2, <2>1 DEF Live
  <2>3. Image(e) = Absent
    BY <1>1, <1>3, ImageFacts
  <2> QED
    BY <2>2, <2>3 DEF Agreed, StateAt
<1>4. CASE e.class # Delete
  <2>1. tape.deactivated[r] # Never => end <= tape.deactivated[r]
    <3>1. SUFFICES ASSUME tape.deactivated[r] # Never, tape.deactivated[r] < end PROVE FALSE
      BY <1>1, <1>2
    <3> DEFINE d == Event(tape.deactivated[r], Delete, s, r)
    <3>2. /\ d \in Events /\ d.stream = s /\ d.record = r /\ d.class = 2
          /\ d.time = tape.deactivated[r]
      BY <1>1, <3>1, EventsOfRecord DEF Event, Delete
    <3> HIDE DEF d
    <3>3. d \in Past(s, r, end) \ {e}
      BY <1>4, <3>1, <3>2 DEF Past, Delete
    <3>4. Precedes(d, e)
      BY <3>3
    <3>5. e.class \in 0 .. 2
      BY <1>1 DEF Box
    <3> QED
      BY <1>1, <1>2, <3>1, <3>2, <3>4, <3>5, <1>4 DEF Precedes, Delete
  <2>2. r \in Live(s, end)
    BY <1>1, <1>2, <2>1 DEF Live
  <2>3. Image(e) # Absent
    BY <1>1, <1>4, ImageFacts
  <2>4. ASSUME Covers(s), NEW p \in config[s].properties
        PROVE  AsOf(r, p, e.time) = BeforeHorizon(r, p, end)
    <3>1. p \in config[s].scope /\ p \in Properties
      BY <2>4, StreamFacts DEF Covers
    <3>2. ASSUME NEW t \in tape.written[r][p], t < end, ~ (t <= e.time) PROVE FALSE
      <4>1. t \in Int /\ tape.created[r] < t /\ e.time < t
        <5>1. t \in Int
          BY <3>1, TapeFacts, TimesFacts
        <5> QED
          BY <5>1, <3>2, <1>1, <1>2
      <4>2. t \in UpdateTimes(s, r)
        BY <3>1, <4>1, <1>2 DEF UpdateTimes
      <4> DEFINE u == Event(t, Update, s, r)
      <4>3. u \in Events /\ u.stream = s /\ u.record = r /\ u.time = t
        BY <1>1, <4>2, EventsOfRecord DEF Event
      <4> HIDE DEF u
      <4>4. u # e /\ u \in Past(s, r, end)
        BY <3>2, <4>1, <4>3, <1>1 DEF Past
      <4>5. Precedes(u, e)
        BY <4>4
      <4> QED
        BY <1>1, <4>1, <4>3, <4>5 DEF Precedes
    <3>3. ASSUME NEW t \in tape.written[r][p], t <= e.time PROVE t < end
      <4>1. t \in Int
        BY <3>1, TapeFacts, TimesFacts
      <4> QED
        BY <4>1, <3>3, <1>1
    <3>4. {t \in tape.written[r][p] : t <= e.time} = {t \in tape.written[r][p] : t < end}
      BY <3>2, <3>3
    <3> QED
      BY <3>4 DEF AsOf, BeforeHorizon
  <2>5. Covers(s) => Image(e) = StateAt(s, r, end)
    BY <1>1, <1>4, <2>2, <2>4 DEF Image, StateAt
  <2> QED
    BY <2>2, <2>3, <2>5 DEF Agreed
<1> QED
  BY <1>3, <1>4

\* Between two positions without an event of a key nothing changes for it.
LEMMA SameThrough ==
    ASSUME Given, NEW s \in Streams, NEW r \in Records,
           NEW start \in 0 .. Beyond, NEW end \in 0 .. Beyond, start <= end,
           \A e \in Bounded(start, end) : ~ (e.stream = s /\ e.record = r),
           NEW image, Agreed(s, r, image, start)
    PROVE  Agreed(s, r, image, end)
<1>1. start \in Int /\ end \in Int
  BY TimesFacts
<1>2. /\ tape.created[r] \in Int
      /\ tape.deactivated[r] # Never => tape.deactivated[r] \in Int
  BY TapeFacts, TimesFacts
<1>3. ASSUME r \in config[s].selected
      PROVE  /\ ~ (start <= tape.created[r] /\ tape.created[r] < end)
             /\ \A t \in UpdateTimes(s, r) : ~ (start <= t /\ t < end)
             /\ tape.deactivated[r] # Never =>
                    ~ (start <= tape.deactivated[r] /\ tape.deactivated[r] < end)
  <2>0. ASSUME NEW t, NEW class, Event(t, class, s, r) \in Events
        PROVE  ~ (start <= t /\ t < end)
    <3> DEFINE e == Event(t, class, s, r)
    <3>1. e \in Events /\ e.stream = s /\ e.record = r /\ e.time = t
      BY <2>0 DEF Event
    <3> HIDE DEF e
    <3>2. e \notin Bounded(start, end)
      BY <3>1
    <3> QED
      BY <3>1, <3>2 DEF Bounded
  <2>1. ~ (start <= tape.created[r] /\ tape.created[r] < end)
    BY <1>3, <2>0, EventsOfRecord
  <2>2. ASSUME NEW t \in UpdateTimes(s, r) PROVE ~ (start <= t /\ t < end)
    BY <1>3, <2>0, EventsOfRecord
  <2>3. tape.deactivated[r] # Never =>
            ~ (start <= tape.deactivated[r] /\ tape.deactivated[r] < end)
    BY <1>3, <2>0, EventsOfRecord
  <2> QED
    BY <2>1, <2>2, <2>3
<1>4. r \in Live(s, start) <=> r \in Live(s, end)
  BY <1>1, <1>2, <1>3 DEF Live
<1>5. ASSUME Covers(s), r \in Live(s, end), NEW p \in config[s].properties
      PROVE  BeforeHorizon(r, p, start) = BeforeHorizon(r, p, end)
  <2>1. p \in config[s].scope /\ p \in Properties /\ r \in config[s].selected
    BY <1>5, StreamFacts DEF Covers, Live
  <2>2. ASSUME NEW t \in tape.written[r][p] PROVE t < start <=> t < end
    <3>1. t \in Int /\ tape.created[r] <= t
      BY <2>1, TapeFacts, TimesFacts
    <3>2. tape.created[r] < t => t \in UpdateTimes(s, r)
      BY <2>1, <3>1, <1>2 DEF UpdateTimes
    <3> QED
      BY <1>1, <1>2, <1>3, <2>1, <3>1, <3>2
  <2>3. {t \in tape.written[r][p] : t < start} = {t \in tape.written[r][p] : t < end}
    BY <2>2
  <2> QED
    BY <2>3 DEF BeforeHorizon
<1>6. Covers(s) => StateAt(s, r, start) = StateAt(s, r, end)
  BY <1>4, <1>5 DEF StateAt
<1> QED
  BY <1>4, <1>6 DEF Agreed
\* A consumer of the whole play holds at a position what it should.
LEMMA ReplayAgrees ==
    ASSUME Given, NEW s \in Streams, NEW r \in Records, NEW end \in 0 .. Beyond
    PROVE  Agreed(s, r, Replayed(s, r, end), end)
<1> DEFINE Seen == {e \in RowStateEvents(s) : e.record = r /\ e.time < end}
           last == CHOOSE e \in Seen : \A f \in Seen \ {e} : Precedes(f, e)
<1>1. Seen = Past(s, r, end)
  BY EventsOfStream DEF Past
<1>2. Replayed(s, r, end) = IF Seen = {} THEN Absent ELSE Image(last)
  BY DEF Replayed
<1>3. CASE Seen = {}
  <2>1. ASSUME r \in Live(s, end) PROVE FALSE
    <3> DEFINE c == Event(tape.created[r], Create, s, r)
    <3>1. r \in config[s].selected /\ tape.created[r] < end
      BY <2>1 DEF Live
    <3>2. c \in Events /\ c.stream = s /\ c.record = r /\ c.time = tape.created[r]
      BY <3>1, EventsOfRecord DEF Event
    <3> HIDE DEF c
    <3> QED
      BY <1>1, <1>3, <3>1, <3>2 DEF Past
  <2> QED
    BY <1>2, <1>3, <2>1 DEF Agreed, StateAt
<1>4. CASE Seen # {}
  <2>1. Past(s, r, end) \in SUBSET Box
    BY EventsInBox DEF Past
  <2>2. \E e \in Seen : \A f \in Seen \ {e} : Precedes(f, e)
    <3> HIDE DEF Seen
    <3> QED
      BY <1>1, <1>4, <2>1, LastExists
  <2>3. last \in Seen /\ \A f \in Seen \ {last} : Precedes(f, last)
    BY <2>2
  <2>4. Replayed(s, r, end) = Image(last)
    BY <1>2, <1>4
  <2> HIDE DEF last, Seen
  <2> QED
    BY <1>1, <2>3, <2>4, LastDecides
<1> QED
  BY <1>3, <1>4

-----------------------------------------------------------------------------
(* The invariant.                                                          *)

Settled(folds, end) == \A s \in Streams : \A r \in Records : Agreed(s, r, folds[s][r], end)

\* What is read of the snapshot is folded, and nothing else is.
SnapshotFolded(read, folds, at) ==
    \A s \in Streams : \A r \in Records :
        folds[s][r] = IF [stream |-> s, record |-> r] \in read THEN StateAt(s, r, at) ELSE Absent

Of(done, s, r) == {e \in done : e.stream = s /\ e.record = r}

\* A key holds what it held at the start, or the image of the last of its events
\* played since.
LiveFolded(done, folds, start) ==
    \A s \in Streams : \A r \in Records :
        IF Of(done, s, r) = {} THEN Agreed(s, r, folds[s][r], start)
        ELSE \E e \in Of(done, s, r) :
                /\ \A f \in Of(done, s, r) \ {e} : Precedes(f, e)
                /\ folds[s][r] = Image(e)

\* The events played are the first of the ask's.
PlayedInOrder(done, start, end) ==
    /\ done \subseteq Bounded(start, end)
    /\ \A e \in done : \A f \in Bounded(start, end) \ done : Precedes(e, f)

\* The events of the tape up to the last one played.
UpTo(start, done) == Bounded(0, start) \cup done

\* The number of the last event played, before the first the number at the start.
Numbered(done, number, start) ==
    IF done = {} THEN number \in {0, SnapshotSeq(start)}
    ELSE number = Cardinality(UpTo(start, done))

BoundsInv == from \in 0 .. Beyond /\ until \in 0 .. Beyond /\ from <= until

SnapshotInv ==
    phase = "snapshot" =>
        /\ pulled \subseteq SnapshotRows(from)
        /\ SnapshotFolded(pulled, folded, from)
        /\ seq \in {0, SnapshotSeq(from)}

LiveInv ==
    phase = "live" =>
        /\ PlayedInOrder(pulled, from, until)
        /\ LiveFolded(pulled, folded, from)
        /\ Numbered(pulled, seq, from)

IdleInv ==
    phase = "idle" =>
        /\ Settled(folded, until)
        /\ seq \in {0, SnapshotSeq(until)}

PlayInv ==
    /\ Given
    /\ phase \in {"idle", "snapshot", "live"}
    /\ folded \in [Streams -> [Records -> Images]]
    /\ BoundsInv /\ SnapshotInv /\ LiveInv /\ IdleInv

\* The tape and the streams do not change, nor does what is read of them.
LEMMA Frame ==
    ASSUME UNCHANGED <<tape, config>>
    PROVE  /\ Events' = Events
           /\ Bounded(from, until)' = Bounded(from', until')
           /\ SnapshotRows(from)' = SnapshotRows(from')
           /\ SnapshotSeq(from)' = SnapshotSeq(from')
           /\ SnapshotSeq(until)' = SnapshotSeq(until')
           /\ SnapshotFolded(pulled, folded, from)' <=> SnapshotFolded(pulled', folded', from')
           /\ LiveFolded(pulled, folded, from)' <=> LiveFolded(pulled', folded', from')
           /\ Settled(folded, until)' <=> Settled(folded', until')
           /\ PlayedInOrder(pulled, from, until)' <=> PlayedInOrder(pulled', from', until')
           /\ Numbered(pulled, seq, from)' <=> Numbered(pulled', seq', from')
<1>1. Events' = Events
  BY DEF Events, RowStateEvents, UpdateTimes
<1>2. /\ Bounded(from, until)' = Bounded(from', until')
      /\ Bounded(0, from)' = Bounded(0, from')
      /\ Bounded(0, until)' = Bounded(0, until')
  BY <1>1 DEF Bounded
<1>3. SnapshotRows(from)' = SnapshotRows(from')
  BY DEF SnapshotRows, Live
<1>4. SnapshotSeq(from)' = SnapshotSeq(from') /\ SnapshotSeq(until)' = SnapshotSeq(until')
  BY <1>2 DEF SnapshotSeq
<1>5. SnapshotFolded(pulled, folded, from)' <=> SnapshotFolded(pulled', folded', from')
  BY DEF SnapshotFolded, StateAt, Live, BeforeHorizon
<1>6. LiveFolded(pulled, folded, from)' <=> LiveFolded(pulled', folded', from')
  BY DEF LiveFolded, Of, Agreed, Covers, StateAt, Live, BeforeHorizon, Image, AsOf
<1>7. Settled(folded, until)' <=> Settled(folded', until')
  BY DEF Settled, Agreed, Covers, StateAt, Live, BeforeHorizon
<1>8. PlayedInOrder(pulled, from, until)' <=> PlayedInOrder(pulled', from', until')
  BY <1>2 DEF PlayedInOrder
<1>9. Numbered(pulled, seq, from)' <=> Numbered(pulled', seq', from')
  BY <1>2, <1>4 DEF Numbered, UpTo
<1> QED
  BY <1>1, <1>2, <1>3, <1>4, <1>5, <1>6, <1>7, <1>8, <1>9
-----------------------------------------------------------------------------
(* What the steps do to what is folded and to the numbers.                 *)

LEMMA RowFacts ==
    ASSUME NEW at, NEW row
    PROVE  row \in SnapshotRows(at) <=>
             \E s \in Streams : \E r \in Live(s, at) : row = [stream |-> s, record |-> r]
BY DEF SnapshotRows

LEMMA NothingSettled == ASSUME Given PROVE Settled(NothingFolded, 0)
<1>1. ASSUME NEW s \in Streams, NEW r \in Records PROVE Agreed(s, r, Absent, 0)
  <2>1. tape.created[r] \in Int /\ 0 <= tape.created[r]
    BY TapeFacts, TimesFacts
  <2>2. r \notin Live(s, 0)
    BY <2>1 DEF Live
  <2> QED
    BY <2>2 DEF Agreed, StateAt
<1> QED
  BY <1>1 DEF Settled, NothingFolded

LEMMA SettledGoesOn ==
    ASSUME NEW folds, NEW at, Settled(folds, at)
    PROVE  LiveFolded({}, folds, at)
BY DEF Settled, LiveFolded, Of

\* A snapshot read to its end is what a consumer should hold at its position.
LEMMA SnapshotSettles ==
    ASSUME Given, NEW folds, NEW at, SnapshotFolded(SnapshotRows(at), folds, at)
    PROVE  Settled(folds, at)
<1>1. ASSUME NEW s \in Streams, NEW r \in Records PROVE folds[s][r] = StateAt(s, r, at)
  <2>1. [stream |-> s, record |-> r] \in SnapshotRows(at) <=> r \in Live(s, at)
    <3>1. ASSUME NEW z \in Streams, NEW q \in Live(z, at),
                 [stream |-> s, record |-> r] = [stream |-> z, record |-> q]
          PROVE  s = z /\ r = q
      <4>1. [stream |-> s, record |-> r].stream = [stream |-> z, record |-> q].stream
        BY <3>1
      <4>2. [stream |-> s, record |-> r].record = [stream |-> z, record |-> q].record
        BY <3>1
      <4> QED
        BY <4>1, <4>2
    <3> QED
      BY <3>1, RowFacts
  <2> QED
    BY <2>1, StateFacts DEF SnapshotFolded
<1>2. ASSUME NEW s \in Streams, NEW r \in Records PROVE Agreed(s, r, folds[s][r], at)
  BY <1>1, StateFacts DEF Agreed
<1> QED
  BY <1>2 DEF Settled

\* And so is what is held once every event of an ask is played.
LEMMA PlaySettles ==
    ASSUME Given, NEW start \in 0 .. Beyond, NEW end \in 0 .. Beyond, start <= end,
           NEW folds, LiveFolded(Bounded(start, end), folds, start)
    PROVE  Settled(folds, end)
<1> DEFINE Done == Bounded(start, end)
<1>1. SUFFICES ASSUME NEW s \in Streams, NEW r \in Records PROVE Agreed(s, r, folds[s][r], end)
  BY DEF Settled
<1>2. CASE Of(Done, s, r) = {}
  <2>1. Agreed(s, r, folds[s][r], start)
    BY <1>2 DEF LiveFolded
  <2>2. \A e \in Bounded(start, end) : ~ (e.stream = s /\ e.record = r)
    BY <1>2 DEF Of
  <2> QED
    BY <2>1, <2>2, SameThrough
<1>3. CASE Of(Done, s, r) # {}
  <2>1. PICK e \in Of(Done, s, r) :
            /\ \A f \in Of(Done, s, r) \ {e} : Precedes(f, e)
            /\ folds[s][r] = Image(e)
    BY <1>3 DEF LiveFolded
  <2>2. e \in Past(s, r, end) /\ start <= e.time /\ e \in Box
    BY EventsInBox DEF Of, Bounded, Past
  <2>3. ASSUME NEW f \in Past(s, r, end), f # e PROVE Precedes(f, e)
    <3>1. f \in Events /\ f \in Box /\ f.stream = s /\ f.record = r /\ f.time < end
      BY EventsInBox DEF Past
    <3>2. f.time \in Int /\ e.time \in Int /\ start \in Int
      BY <2>2, <3>1, BoxFacts, TimesFacts
    <3>3. CASE start <= f.time
      <4>1. f \in Of(Done, s, r)
        BY <3>1, <3>3 DEF Of, Bounded
      <4> QED
        BY <2>1, <2>3, <4>1
    <3>4. CASE f.time < start
      <4>1. f.time < e.time
        BY <2>2, <3>2, <3>4
      <4> QED
        BY <4>1, <2>2, <3>1, PrecedesOrders
    <3> QED
      BY <3>2, <3>3, <3>4
  <2> QED
    BY <2>1, <2>2, <2>3, LastDecides
<1> QED
  BY <1>2, <1>3

\* Playing the first event not yet played.
LEMMA PlayNext ==
    ASSUME Given, NEW start \in 0 .. Beyond, NEW end \in 0 .. Beyond, NEW done,
           PlayedInOrder(done, start, end),
           NEW e \in Bounded(start, end) \ done,
           \A f \in (Bounded(start, end) \ done) \ {e} : Precedes(e, f)
    PROVE  PlayedInOrder(done \cup {e}, start, end)
BY DEF PlayedInOrder

LEMMA PlayFolds ==
    ASSUME Given, NEW start, NEW end, NEW done,
           PlayedInOrder(done, start, end),
           NEW folds \in [Streams -> [Records -> Images]], LiveFolded(done, folds, start),
           NEW e \in Bounded(start, end) \ done
    PROVE  LiveFolded(done \cup {e}, [folds EXCEPT ![e.stream][e.record] = Image(e)], start)
<1> DEFINE after == [folds EXCEPT ![e.stream][e.record] = Image(e)]
<1>1. e.stream \in Streams /\ e.record \in Records
  BY EventFacts DEF Bounded
<1>2. after[e.stream][e.record] = Image(e)
  BY <1>1
<1>3. \A s \in Streams : \A r \in Records :
        ~ (s = e.stream /\ r = e.record) => after[s][r] = folds[s][r]
  BY <1>1
<1> HIDE DEF after
<1>4. SUFFICES ASSUME NEW s \in Streams, NEW r \in Records
               PROVE  IF Of(done \cup {e}, s, r) = {} THEN Agreed(s, r, after[s][r], start)
                      ELSE \E l \in Of(done \cup {e}, s, r) :
                              /\ \A f \in Of(done \cup {e}, s, r) \ {l} : Precedes(f, l)
                              /\ after[s][r] = Image(l)
  BY DEF LiveFolded, after
<1>5. CASE s = e.stream /\ r = e.record
  <2>1. e \in Of(done \cup {e}, s, r)
    BY <1>5 DEF Of
  <2>2. \A f \in Of(done \cup {e}, s, r) \ {e} : Precedes(f, e)
    BY DEF Of, PlayedInOrder
  <2> QED
    BY <1>2, <1>5, <2>1, <2>2
<1>6. CASE ~ (s = e.stream /\ r = e.record)
  <2>1. Of(done \cup {e}, s, r) = Of(done, s, r)
    BY <1>6 DEF Of
  <2>2. after[s][r] = folds[s][r]
    BY <1>3, <1>6
  <2> QED
    BY <2>1, <2>2 DEF LiveFolded
<1> QED
  BY <1>5, <1>6

\* The events up to the next one are those before the ask, those played, and it.
LEMMA PlayNumbers ==
    ASSUME Given, NEW start \in 0 .. Beyond, NEW end \in 0 .. Beyond, NEW done,
           PlayedInOrder(done, start, end),
           NEW e \in Bounded(start, end) \ done,
           \A f \in (Bounded(start, end) \ done) \ {e} : Precedes(e, f)
    PROVE  /\ Numbered(done \cup {e}, SeqOf(e), start)
           /\ SeqOf(e) = Cardinality(UpTo(start, done)) + 1
<1>1. Events \subseteq Box /\ IsFiniteSet(Events)
  BY EventsInBox
<1>2. e \in Events /\ start <= e.time /\ e.time < end /\ e \in Box
  BY <1>1 DEF Bounded
<1>3. start \in Int /\ end \in Int /\ e.time \in Int
  BY <1>2, TimesFacts, BoxFacts
<1> DEFINE Before == UpTo(start, done)
           Mine == {f \in Events : f = e \/ Precedes(f, e)}
<1>4. Before \subseteq Events
  BY DEF Bounded, PlayedInOrder, UpTo
<1>5. ASSUME NEW f \in Events, Precedes(f, e) PROVE f \in Before
  <2>1. f \in Box /\ f.time \in Int /\ 0 <= f.time /\ f.time <= e.time /\ f # e
    <3>1. f \in Box
      BY <1>1
    <3>2. f.time \in Times
      BY <3>1 DEF Box
    <3> QED
      BY <1>2, <1>5, <3>1, <3>2, TimesFacts, PrecedesOrders
  <2>2. CASE f.time < start
    BY <2>1, <2>2 DEF Bounded, UpTo
  <2>3. CASE start <= f.time
    <3>1. f.time < end
      BY <1>2, <1>3, <2>1
    <3>2. f \in Bounded(start, end)
      BY <2>3, <3>1 DEF Bounded
    <3>3. ~ Precedes(e, f)
      BY <1>2, <1>5, <2>1, PrecedesOrders
    <3> QED
      BY <2>1, <3>2, <3>3 DEF UpTo
  <2> QED
    BY <1>3, <2>1, <2>2, <2>3
<1>6. ASSUME NEW f \in Before PROVE Precedes(f, e)
  <2>1. CASE f \in done
    BY <2>1 DEF PlayedInOrder
  <2>2. CASE f \in Bounded(0, start)
    <3>1. f \in Box /\ f.time < start
      BY <1>1, <2>2 DEF Bounded
    <3>2. f.time < e.time
      BY <1>2, <1>3, <3>1, BoxFacts
    <3> QED
      BY <1>2, <3>1, <3>2, PrecedesOrders
  <2> QED
    BY <2>1, <2>2 DEF UpTo
<1>7. Mine = UpTo(start, done \cup {e}) /\ Mine = Before \cup {e}
  BY <1>2, <1>4, <1>5, <1>6 DEF UpTo
<1>8. e \notin Before
  BY <1>2, <1>6, PrecedesOrders
<1>9. IsFiniteSet(Before)
  BY <1>1, <1>4, FS_Subset
<1>10. SeqOf(e) = Cardinality(Mine)
  BY DEF SeqOf
<1> HIDE DEF Mine, Before
<1>11. Cardinality(Before \cup {e}) = Cardinality(Before) + 1
  BY <1>8, <1>9, FS_AddElement
<1>12. Cardinality(Mine) = Cardinality(Before) + 1
  BY <1>7, <1>11
<1>13. done \cup {e} # {} /\ SeqOf(e) = Cardinality(UpTo(start, done \cup {e}))
  BY <1>7, <1>10
<1>14. Numbered(done \cup {e}, SeqOf(e), start)
  BY <1>13 DEF Numbered
<1> QED
  BY <1>10, <1>12, <1>14 DEF Before

\* The number at the end of an ask is the one a snapshot there carries.
LEMMA NumberedEnds ==
    ASSUME Given, NEW start \in 0 .. Beyond, NEW end \in 0 .. Beyond, start <= end,
           NEW number, Numbered(Bounded(start, end), number, start)
    PROVE  number \in {0, SnapshotSeq(end)}
<1>1. ASSUME NEW e \in Events PROVE e.time \in Int /\ 0 <= e.time
  BY EventFacts, TimesFacts
<1>2. start \in Int /\ end \in Int /\ 0 <= start
  BY TimesFacts
<1>3. Bounded(0, start) \cup Bounded(start, end) = Bounded(0, end)
  <2>1. ASSUME NEW e \in Events
        PROVE  (0 <= e.time /\ e.time < start) \/ (start <= e.time /\ e.time < end)
                    <=> 0 <= e.time /\ e.time < end
    BY <1>1, <1>2
  <2> QED
    BY <2>1 DEF Bounded
<1>4. Bounded(start, end) = {} => Bounded(0, start) = Bounded(0, end)
  BY <1>3
<1> QED
  BY <1>3, <1>4 DEF Numbered, SnapshotSeq, UpTo
-----------------------------------------------------------------------------
(* The invariant holds.                                                    *)

LEMMA SnapshotSeqBound ==
    ASSUME Given, NEW at
    PROVE  SnapshotSeq(at) \in 0 .. Cardinality(Events)
<1>1. IsFiniteSet(Events) /\ Bounded(0, at) \in SUBSET Events
  BY EventsInBox DEF Bounded
<1>2. /\ Cardinality(Bounded(0, at)) \in Nat /\ Cardinality(Events) \in Nat
      /\ Cardinality(Bounded(0, at)) <= Cardinality(Events)
  BY <1>1, FS_Subset, FS_CardinalityType
<1> QED
  BY <1>2 DEF SnapshotSeq

\* The number is within the whole tape's in every phase.
LEMMA SeqBound == PlayInv => seq \in 0 .. Cardinality(Events)
<1> SUFFICES ASSUME PlayInv PROVE seq \in 0 .. Cardinality(Events)
  OBVIOUS
<1>1. Given /\ phase \in {"idle", "snapshot", "live"}
  BY DEF PlayInv
<1>2. ASSUME NEW at, seq \in {0, SnapshotSeq(at)} PROVE seq \in 0 .. Cardinality(Events)
  <2>1. Cardinality(Events) \in Nat
    BY <1>1, EventsInBox, FS_CardinalityType
  <2>2. SnapshotSeq(at) \in 0 .. Cardinality(Events)
    BY <1>1, SnapshotSeqBound
  <2> QED
    BY <1>2, <2>1, <2>2
<1>3. CASE phase = "idle"
  BY <1>2, <1>3 DEF PlayInv, IdleInv
<1>4. CASE phase = "snapshot"
  BY <1>2, <1>4 DEF PlayInv, SnapshotInv
<1>5. CASE phase = "live"
  <2>1. PlayedInOrder(pulled, from, until) /\ Numbered(pulled, seq, from)
    BY <1>5 DEF PlayInv, LiveInv
  <2>2. CASE pulled = {}
    BY <1>2, <2>1, <2>2 DEF Numbered
  <2>3. CASE pulled # {}
    <3>1. UpTo(from, pulled) \in SUBSET Events /\ seq = Cardinality(UpTo(from, pulled))
      BY <2>1, <2>3 DEF Bounded, PlayedInOrder, Numbered, UpTo
    <3>2. /\ Cardinality(UpTo(from, pulled)) \in Nat /\ Cardinality(Events) \in Nat
          /\ Cardinality(UpTo(from, pulled)) <= Cardinality(Events)
      BY <1>1, <3>1, EventsInBox, FS_Subset, FS_CardinalityType
    <3> QED
      BY <3>1, <3>2
  <2> QED
    BY <2>2, <2>3
<1> QED
  BY <1>1, <1>3, <1>4, <1>5

LEMMA InitPlays == Init => PlayInv
<1> SUFFICES ASSUME Init PROVE PlayInv
  OBVIOUS
<1>1. Given
  BY DEF Init, Given
<1>2. folded \in [Streams -> [Records -> Images]]
  BY DEF Init, NothingFolded, Images
<1>3. BoundsInv
  BY TimesFacts DEF Init, BoundsInv
<1>4. Settled(folded, until)
  BY <1>1, NothingSettled DEF Init
<1> QED
  BY <1>1, <1>2, <1>3, <1>4 DEF Init, PlayInv, SnapshotInv, LiveInv, IdleInv

LEMMA SeekPlays == PlayInv /\ Seek => PlayInv'
<1> SUFFICES ASSUME PlayInv, Seek PROVE PlayInv'
  OBVIOUS
<1>1. Given' /\ phase' = "snapshot" /\ UNCHANGED <<tape, config>>
  BY DEF PlayInv, Given, Seek
<1>2. folded' \in [Streams -> [Records -> Images]]
  BY DEF Seek, NothingFolded, Images
<1>3. BoundsInv'
  BY TimesFacts DEF Seek, BoundsInv
<1>4. /\ pulled' \subseteq SnapshotRows(from') /\ seq' = 0
      /\ SnapshotFolded(pulled', folded', from')
  BY DEF Seek, SnapshotFolded, NothingFolded
<1>5. SnapshotInv'
  BY <1>1, <1>4, Frame DEF SnapshotInv
<1> QED
  BY <1>1, <1>2, <1>3, <1>5 DEF PlayInv, LiveInv, IdleInv

LEMMA ContinuePlays == PlayInv /\ Continue => PlayInv'
<1> SUFFICES ASSUME PlayInv, Continue PROVE PlayInv'
  OBVIOUS
<1>1. Given' /\ phase = "idle" /\ phase' = "live" /\ UNCHANGED <<tape, config, seq, folded>>
  BY DEF PlayInv, Given, Continue
<1>2. folded' \in [Streams -> [Records -> Images]]
  BY <1>1 DEF PlayInv
<1>3. BoundsInv'
  BY TimesFacts DEF PlayInv, Continue, BoundsInv
<1>4. Settled(folded, until) /\ seq \in {0, SnapshotSeq(until)} /\ from' = until /\ pulled' = {}
  BY <1>1 DEF PlayInv, IdleInv, Continue
<1>5. PlayedInOrder(pulled', from', until')
  BY <1>4 DEF PlayedInOrder
<1>6. LiveFolded(pulled', folded', from')
  BY <1>1, <1>4, SettledGoesOn
<1>7. Numbered(pulled', seq', from')
  BY <1>1, <1>4 DEF Numbered
<1>8. LiveInv'
  BY <1>1, <1>5, <1>6, <1>7, Frame DEF LiveInv
<1> QED
  BY <1>1, <1>2, <1>3, <1>8 DEF PlayInv, SnapshotInv, IdleInv

LEMMA PullSnapshotPlays == PlayInv /\ PullSnapshot => PlayInv'
<1> SUFFICES ASSUME PlayInv, PullSnapshot PROVE PlayInv'
  OBVIOUS
<1>1. /\ Given /\ Given' /\ phase = "snapshot" /\ phase' = "snapshot"
      /\ UNCHANGED <<tape, config, from, until>> /\ seq' = SnapshotSeq(from)
  BY DEF PlayInv, Given, PullSnapshot
<1>2. PICK e \in Unread :
        /\ pulled' = pulled \cup {e}
        /\ folded' = [folded EXCEPT ![e.stream][e.record] = StateAt(e.stream, e.record, from)]
  BY DEF PullSnapshot
<1>3a. PICK s \in Streams : \E r \in Live(s, from) : e = [stream |-> s, record |-> r]
  BY <1>2, RowFacts DEF Unread
<1>3. PICK r \in Live(s, from) : e = [stream |-> s, record |-> r]
  BY <1>3a
<1>4. r \in Records /\ e.stream = s /\ e.record = r
  BY <1>1, <1>3, StreamFacts DEF Live
<1>5. folded \in [Streams -> [Records -> Images]] /\ StateAt(s, r, from) \in Images
  BY <1>1, <1>4, StateFacts DEF PlayInv
<1>6. folded' = [folded EXCEPT ![s][r] = StateAt(s, r, from)]
  BY <1>2, <1>4
<1>7. folded' \in [Streams -> [Records -> Images]]
  BY <1>5, <1>6
<1>8. SnapshotFolded(pulled, folded, from) /\ pulled \subseteq SnapshotRows(from)
  BY <1>1 DEF PlayInv, SnapshotInv
<1>9. SnapshotFolded(pulled', folded', from)
  <2>1. SUFFICES ASSUME NEW z \in Streams, NEW q \in Records
                 PROVE  folded'[z][q] = IF [stream |-> z, record |-> q] \in pulled \cup {e}
                                        THEN StateAt(z, q, from) ELSE Absent
    BY <1>2 DEF SnapshotFolded
  <2>2. CASE z = s /\ q = r
    BY <1>3, <1>4, <1>5, <1>6, <2>2
  <2>3. CASE ~ (z = s /\ q = r)
    <3>1. folded'[z][q] = folded[z][q]
      BY <1>4, <1>5, <1>6, <2>3
    <3>2. [stream |-> z, record |-> q] # e
      <4>1. [stream |-> z, record |-> q].stream = z /\ [stream |-> z, record |-> q].record = q
        OBVIOUS
      <4> QED
        BY <1>4, <2>3, <4>1
    <3> QED
      BY <1>8, <3>1, <3>2 DEF SnapshotFolded
  <2> QED
    BY <2>2, <2>3
<1>10. pulled' \subseteq SnapshotRows(from)
  BY <1>2, <1>8 DEF Unread
<1>11. SnapshotInv'
  BY <1>1, <1>9, <1>10, Frame DEF SnapshotInv
<1>12. BoundsInv'
  BY <1>1 DEF PlayInv, BoundsInv
<1> QED
  BY <1>1, <1>7, <1>11, <1>12 DEF PlayInv, LiveInv, IdleInv

LEMMA EndSnapshotPlays == PlayInv /\ EndSnapshot => PlayInv'
<1> SUFFICES ASSUME PlayInv, EndSnapshot PROVE PlayInv'
  OBVIOUS
<1>1. /\ Given /\ Given' /\ phase = "snapshot" /\ phase' = "live" /\ pulled' = {} /\ Unread = {}
      /\ UNCHANGED <<tape, config, from, until, seq, folded>>
  BY DEF PlayInv, Given, EndSnapshot
<1>2. pulled = SnapshotRows(from) /\ SnapshotFolded(pulled, folded, from)
      /\ seq \in {0, SnapshotSeq(from)}
  BY <1>1 DEF PlayInv, SnapshotInv, Unread
<1>3. LiveFolded(pulled', folded', from')
  BY <1>1, <1>2, SnapshotSettles, SettledGoesOn
<1>4. PlayedInOrder(pulled', from', until') /\ Numbered(pulled', seq', from')
  BY <1>1, <1>2 DEF PlayedInOrder, Numbered
<1>5. LiveInv'
  BY <1>1, <1>3, <1>4, Frame DEF LiveInv
<1>6. folded' \in [Streams -> [Records -> Images]] /\ BoundsInv'
  BY <1>1 DEF PlayInv, BoundsInv
<1> QED
  BY <1>1, <1>5, <1>6 DEF PlayInv, SnapshotInv, IdleInv

LEMMA PullLivePlays == PlayInv /\ PullLive => PlayInv'
<1> SUFFICES ASSUME PlayInv, PullLive PROVE PlayInv'
  OBVIOUS
<1>1. /\ Given /\ Given' /\ phase = "live" /\ phase' = "live"
      /\ UNCHANGED <<tape, config, from, until>>
  BY DEF PlayInv, Given, PullLive
<1>2. PICK e \in Unplayed :
        /\ \A f \in Unplayed \ {e} : Precedes(e, f)
        /\ pulled' = pulled \cup {e}
        /\ seq' = SeqOf(e)
        /\ folded' = [folded EXCEPT ![e.stream][e.record] = Image(e)]
  BY DEF PullLive
<1>3. /\ PlayedInOrder(pulled, from, until) /\ LiveFolded(pulled, folded, from)
      /\ from \in 0 .. Beyond /\ until \in 0 .. Beyond
      /\ folded \in [Streams -> [Records -> Images]]
  BY <1>1 DEF PlayInv, LiveInv, BoundsInv
<1>4. /\ e \in Bounded(from, until) \ pulled
      /\ \A f \in (Bounded(from, until) \ pulled) \ {e} : Precedes(e, f)
  BY <1>2 DEF Unplayed
<1>5. PlayedInOrder(pulled', from, until)
  BY <1>1, <1>2, <1>3, <1>4, PlayNext
<1>6. LiveFolded(pulled', folded', from)
  BY <1>1, <1>2, <1>3, <1>4, PlayFolds
<1>7. Numbered(pulled', seq', from)
  BY <1>1, <1>2, <1>3, <1>4, PlayNumbers
<1>8. LiveInv'
  BY <1>1, <1>5, <1>6, <1>7, Frame DEF LiveInv
<1>9. folded' \in [Streams -> [Records -> Images]]
  <2>1. e \in Events /\ e.stream \in Streams /\ e.record \in Records
    BY <1>1, <1>4, EventFacts DEF Bounded
  <2>2. Image(e) \in Images
    BY <1>1, <2>1, ImageFacts
  <2> QED
    BY <1>2, <1>3, <2>1, <2>2
<1>10. BoundsInv'
  BY <1>1 DEF PlayInv, BoundsInv
<1> QED
  BY <1>1, <1>8, <1>9, <1>10 DEF PlayInv, SnapshotInv, IdleInv

LEMMA EndLivePlays == PlayInv /\ EndLive => PlayInv'
<1> SUFFICES ASSUME PlayInv, EndLive PROVE PlayInv'
  OBVIOUS
<1>1. /\ Given /\ Given' /\ phase = "live" /\ phase' = "idle" /\ Unplayed = {}
      /\ UNCHANGED <<tape, config, from, until, pulled, seq, folded>>
  BY DEF PlayInv, Given, EndLive
<1>2. /\ PlayedInOrder(pulled, from, until) /\ LiveFolded(pulled, folded, from)
      /\ Numbered(pulled, seq, from)
      /\ from \in 0 .. Beyond /\ until \in 0 .. Beyond /\ from <= until
      /\ folded \in [Streams -> [Records -> Images]]
  BY <1>1 DEF PlayInv, LiveInv, BoundsInv
<1>3. pulled = Bounded(from, until)
  BY <1>1, <1>2 DEF PlayedInOrder, Unplayed
<1>4. Settled(folded', until')
  BY <1>1, <1>2, <1>3, PlaySettles
<1>5. seq' \in {0, SnapshotSeq(until')}
  BY <1>1, <1>2, <1>3, NumberedEnds
<1>6. IdleInv'
  BY <1>1, <1>4, <1>5, Frame DEF IdleInv
<1> QED
  BY <1>1, <1>2, <1>6 DEF PlayInv, SnapshotInv, LiveInv, BoundsInv

LEMMA StutterPlays == PlayInv /\ UNCHANGED vars => PlayInv'
<1> SUFFICES ASSUME PlayInv, UNCHANGED vars PROVE PlayInv'
  OBVIOUS
<1>1. UNCHANGED <<tape, config, phase, from, until, pulled, seq, folded>>
  BY DEF vars
<1>2. SnapshotInv' /\ LiveInv' /\ IdleInv'
  BY <1>1, Frame DEF PlayInv, SnapshotInv, LiveInv, IdleInv
<1> QED
  BY <1>1, <1>2 DEF PlayInv, BoundsInv, Given

LEMMA StepPlays == PlayInv /\ [Next]_vars => PlayInv'
BY SeekPlays, ContinuePlays, PullSnapshotPlays, EndSnapshotPlays, PullLivePlays, EndLivePlays,
   StutterPlays DEF Next

LEMMA PlayInvariant == Spec => []PlayInv
BY InitPlays, StepPlays, PTL DEF Spec
-----------------------------------------------------------------------------
(* The theorems.                                                           *)

\* Wherever a consumer joined and however it cut its asks, what it has folded
\* when an answer ends is what a consumer of the whole play holds, and what the
\* snapshot at that position shows: SeekAgrees, on every conformant tape and for
\* every configuration of the streams.
THEOREM SeekIsReplay == Spec => []SeekAgrees
<1>1. PlayInv => SeekAgrees
  <2> SUFFICES ASSUME PlayInv, phase = "idle"
               PROVE  /\ Keys(folded) = Keys(Replay)
                      /\ \A s \in Streams : Covers(s) => folded[s] = Replay[s] /\ folded[s] = Snapshot[s]
    BY DEF SeekAgrees
  <2>1. /\ Given /\ until \in 0 .. Beyond /\ Settled(folded, until)
        /\ folded \in [Streams -> [Records -> Images]]
    BY DEF PlayInv, BoundsInv, IdleInv
  <2>2. ASSUME NEW s \in Streams, NEW r \in Records
        PROVE  /\ Agreed(s, r, folded[s][r], until)
               /\ Agreed(s, r, Replay[s][r], until)
    <3>1. Replay[s][r] = Replayed(s, r, until)
      BY DEF Replay
    <3>2. Agreed(s, r, Replayed(s, r, until), until)
      BY <2>1, ReplayAgrees
    <3> QED
      BY <2>1, <3>1, <3>2 DEF Settled
  <2>3. ASSUME NEW k \in Streams \X Records
        PROVE  folded[k[1]][k[2]] # Absent <=> Replay[k[1]][k[2]] # Absent
    <3>1. k[1] \in Streams /\ k[2] \in Records
      OBVIOUS
    <3> QED
      BY <2>2, <3>1 DEF Agreed
  <2>4. Keys(folded) = Keys(Replay)
    BY <2>3 DEF Keys
  <2>5. ASSUME NEW s \in Streams, Covers(s)
        PROVE  folded[s] = Replay[s] /\ folded[s] = Snapshot[s]
    <3>1. folded[s] = [r \in Records |-> folded[s][r]]
      BY <2>1
    <3>2. Replay[s] = [r \in Records |-> Replay[s][r]]
      BY DEF Replay
    <3>3. Snapshot[s] = [r \in Records |-> StateAt(s, r, until)]
      BY DEF Snapshot
    <3>4. \A r \in Records : folded[s][r] = StateAt(s, r, until) /\ Replay[s][r] = StateAt(s, r, until)
      BY <2>2, <2>5 DEF Agreed
    <3> QED
      BY <3>1, <3>2, <3>3, <3>4
  <2> QED
    BY <2>4, <2>5
<1> QED
  BY <1>1, PlayInvariant, PTL

\* Every event played has the number after the one before it, within an answer,
\* across the two phases of a seek and from one ask to the next, and the numbers
\* stay within the tape's: NumbersContinue.
THEOREM NumbersAreContinuous == Spec => NumbersContinue
<1>1. PlayInv => TypeOK
  BY SeqBound DEF PlayInv, BoundsInv, TypeOK
<1>2. ASSUME PlayInv, [Next]_vars, phase = "live", phase' = "live", pulled' # pulled
      PROVE  \/ seq' = seq + 1
             \/ seq = 0 /\ pulled = {} /\ seq' = SnapshotSeq(from) + 1
  <2>1. PullLive
    <3>1. ~ Seek /\ ~ Continue /\ ~ PullSnapshot /\ ~ EndSnapshot /\ ~ EndLive
      BY <1>2 DEF Seek, Continue, PullSnapshot, EndSnapshot, EndLive
    <3>2. ~ UNCHANGED vars
      BY <1>2 DEF vars
    <3> QED
      BY <1>2, <3>1, <3>2 DEF Next
  <2>2. PICK e \in Unplayed :
          (\A f \in Unplayed \ {e} : Precedes(e, f)) /\ seq' = SeqOf(e)
    BY <2>1 DEF PullLive
  <2>3. /\ Given /\ from \in 0 .. Beyond /\ until \in 0 .. Beyond
        /\ PlayedInOrder(pulled, from, until) /\ Numbered(pulled, seq, from)
    BY <1>2 DEF PlayInv, BoundsInv, LiveInv
  <2>4. seq' = Cardinality(UpTo(from, pulled)) + 1
    <3>1. /\ e \in Bounded(from, until) \ pulled
          /\ \A f \in (Bounded(from, until) \ pulled) \ {e} : Precedes(e, f)
      BY <2>2 DEF Unplayed
    <3> QED
      BY <2>2, <2>3, <3>1, PlayNumbers
  <2>5. CASE pulled = {}
    <3>1. UpTo(from, pulled) = Bounded(0, from)
      BY <2>5 DEF UpTo
    <3>2. seq' = SnapshotSeq(from) + 1
      BY <2>4, <3>1 DEF SnapshotSeq
    <3>3. seq = 0 \/ seq = SnapshotSeq(from)
      BY <2>3, <2>5 DEF Numbered
    <3> QED
      BY <2>5, <3>2, <3>3
  <2>6. CASE pulled # {}
    BY <2>3, <2>4, <2>6 DEF Numbered
  <2> QED
    BY <2>5, <2>6
<1>3. Spec => []TypeOK
  BY <1>1, PlayInvariant, PTL
<1>4. PlayInv /\ [Next]_vars =>
        [phase = "live" /\ phase' = "live" /\ pulled' # pulled =>
            \/ seq' = seq + 1
            \/ seq = 0 /\ pulled = {} /\ seq' = SnapshotSeq(from) + 1]_vars
  BY <1>2
<1>5. Spec => SeqContinuous
  BY <1>4, PlayInvariant, PTL DEF Spec, SeqContinuous
<1> QED
  BY <1>3, <1>5 DEF NumbersContinue
=============================================================================
