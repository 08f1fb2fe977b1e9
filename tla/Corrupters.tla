----------------------------- MODULE Corrupters -----------------------------
(***************************************************************************)
(* corrupters/engine.py, corrupters/base_writer.py and the writing half of *)
(* corrupters/manifest_build.py: a corrupt run. A run checks its source    *)
(* emit, loads it, applies a list of operations to the shared working set, *)
(* and writes run.duckdb, base.json and, last, defects.json. The process   *)
(* may die between any two of those steps, or a write may fail.            *)
(*                                                                         *)
(* A configuration is any list of valid operations: the model picks each   *)
(* operation and the units it draws at the step that applies it, which is  *)
(* the same as validating the list beforehand, since only schema_drift     *)
(* changes the schema the validation consults.                             *)
(***************************************************************************)
EXTENDS CorruptionOperations

CONSTANTS Worlds,      \* name -> a source emit [tabs, sidecar]
          MaxOps,      \* bound: operations of one run
          MaxDrawn,    \* bound: units drawn over one run
          Offsets,     \* the nonzero sim_time offsets a shift may draw
          Rewrites,    \* values a transform other than resample may produce
          Ids,         \* the ids an edit of a donor's id may give
          NewNames,    \* property names a rename may give
          NewTypes     \* types a retype may give

\* The columns every table (base-format.md, the fixed and membership layouts)
\* and every records table has, and which no operation may write in place.
FrameColumns(t) == {Fork} \cup IF t.category = "records" THEN {RecordId, RecordIndex} ELSE {}

IsColumn(d) == d = [name |-> d.name, type |-> d.type, tracked |-> d.tracked,
                    temporal |-> d.temporal, refs |-> d.refs]

\* A table as DuckDB holds one: named columns, rows over just these columns.
IsTable(t) ==
    /\ t = [category |-> t.category, kind |-> t.kind, property |-> t.property,
            cols |-> t.cols, rows |-> t.rows]
    /\ t.category \in {"fixed", "records", "membership"}
    /\ t.cols \in Seq(Range(t.cols)) /\ t.rows \in Seq(Range(t.rows))
    /\ \A d \in Range(t.cols) : IsColumn(d)
    /\ \A i, j \in DOMAIN t.cols : t.cols[i].name = t.cols[j].name => i = j
    /\ \A r \in Range(t.rows) : r = [c \in ColumnsOf(t) |-> r[c]]
    /\ FrameColumns(t) \subseteq ColumnsOf(t)

\* Every row is of the branch, and record_index is a BIGINT NOT NULL (base-format.md).
\* What else an emit must be, Begin checks.
ASSUME WorldsAssumption ==
    \A w \in DOMAIN Worlds : LET tabs == Worlds[w].tabs IN
       /\ tabs = [n \in DOMAIN tabs |-> tabs[n]]
       /\ \A n \in DOMAIN tabs :
             /\ IsTable(tabs[n])
             /\ \A r \in Range(tabs[n].rows) : r[Fork] # NULL
             /\ tabs[n].category = "records" =>
                   \A r \in Range(tabs[n].rows) : r[RecordIndex] \in Int

VARIABLES world,    \* the name of the source emit
          phase,    \* where the run is
          st,       \* CorruptState, see CorruptionOperations
          defects,  \* the defect records so far
          applied,  \* the kinds of the operations applied so far
          drawn,    \* units drawn so far
          out       \* the output directory

vars == <<world, phase, st, defects, applied, drawn, out>>

Source == Worlds[world]
sc == Source.sidecar
T  == st.tabs
NoState == [tabs |-> <<>>, deleted |-> {}, marks |-> <<>>]

\* CorruptState.__post_init__: the marks are taken at load.
Loaded(w) ==
    LET records == {n \in DOMAIN w.tabs : w.tabs[n].category = "records"}
    IN  [tabs |-> w.tabs, deleted |-> {}, marks |-> [n \in records |-> IndexMark(w.tabs[n])]]

Fresh(p) == phase' = p /\ st' = NoState /\ defects' = {} /\ applied' = <<>> /\ drawn' = 0

Init ==
    /\ world \in DOMAIN Worlds
    /\ phase = "idle" /\ st = NoState /\ defects = {} /\ applied = <<>> /\ drawn = 0
    /\ out = [db |-> "none", json |-> "none", manifest |-> "none"]

---------------------------------------------------------------------------
(* corrupt_emit, up to the first operation *)

\* Mutant: an emit is recognised by its manifest.
Acceptable_ByManifest == Conformant(Emitted(Source.tabs, sc)) /\ out.manifest = "none"

Acceptable == Conformant(Emitted(Source.tabs, sc)) /\ out.db = "none" /\ out.json = "none"

Begin ==
    /\ phase = "idle" /\ Acceptable
    /\ phase' = "running" /\ st' = Loaded(Source)
    /\ UNCHANGED <<world, defects, applied, drawn, out>>

Refuse ==
    /\ phase = "idle" /\ ~Acceptable
    /\ phase' = "refused"
    /\ UNCHANGED <<world, st, defects, applied, drawn, out>>

---------------------------------------------------------------------------
(* The operations. A handler that raises ends the run with nothing written. *)

Budget(n) == phase = "running" /\ Len(applied) < MaxOps /\ drawn + n <= MaxDrawn

Perform(kind, n, o) ==
    /\ Budget(n)
    /\ phase' = IF o.error THEN "raised" ELSE "running"
    /\ st' = o.state
    /\ defects' = defects \cup o.defects
    /\ applied' = Append(applied, kind)
    /\ drawn' = drawn + n
    /\ UNCHANGED <<world, out>>

Room == MaxDrawn - drawn
Draws(units) == UNION {kSubset(k, units) : k \in 1..(IF Room < 2 THEN Room ELSE 2)}

NullCellsStep ==
    \E units \in Draws(CellUnits(T, [n \in DOMAIN T |-> {c \in ColumnsOf(T[n]) : Nullable(c)}])) :
    \E order \in SetToSeqs(units) : Perform("null_cells", Cardinality(units), NullCells(st, order))

DangleReferenceStep ==
    \E units \in Draws(ReferenceUnits(T)) :
       Perform("dangle_reference", Cardinality(units), DangleReference(st, units))

MispointReferenceStep ==
    \E constrained \in BOOLEAN :
    \E units \in Draws({u \in ReferenceUnits(T) : DonorPool(T, sc, u, constrained) # {}}) :
    \E donor \in [units -> UNION {DonorPool(T, sc, u, constrained) : u \in units}] :
       /\ \A u \in units : donor[u] \in DonorPool(T, sc, u, constrained)
       /\ Perform("mispoint_reference", Cardinality(units),
                  MispointReference(st, sc, units, donor, constrained))

DeleteRowsStep ==
    \E units \in Draws(RowUnits(T, DOMAIN T \ {History})) :
       Perform("delete_rows", Cardinality(units), DeleteRows(st, sc, units))

RecordTables == {n \in DOMAIN T : T[n].category = "records"}

\* _derive_phantom_id: an edit of the donor's id outside the kind's universe.
InsertRowsStep ==
    \E u \in RowUnits(T, RecordTables) :
    \E cols \in {{}} \cup kSubset(1, MutableColumns(T, u.table)) :
    \E resample \in [cols -> UNION {Donors(T, u.table, u.row, c) : c \in cols}] :
    \E id \in Ids \ IdUniverse(st, sc, T[u.table].kind) :
       Perform("insert_rows", 1, InsertRow(st, sc, u, id, resample))

DuplicateExactStep ==
    \E units \in Draws(RowUnits(T, DOMAIN T)) :
       Perform("duplicate_rows", Cardinality(units), DuplicateExact(st, sc, units))

JitterColumns(n) == {d.name : d \in {c \in Range(T[n].cols) : JitterColumn(n, c)}}

DuplicateNearStep ==
    \E u \in RowUnits(T, DOMAIN T) : \E c \in JitterColumns(u.table) :
       LET v == T[u.table].rows[u.row][c]
       IN  Perform("duplicate_rows", 1,
              DuplicateChanged(st, sc, u, [x \in {c} |-> IF v = NULL THEN NULL ELSE v + 1], FALSE))

Transformed(n, i, c) == Rewrites \cup Donors(T, n, i, c)

DuplicateConflictStep ==
    \E u \in RowUnits(T, DOMAIN T \ {History}) :
    \E c \in MutableColumns(T, u.table) :
    \E v \in Transformed(u.table, u.row, c) :
       Perform("duplicate_rows", 1, DuplicateChanged(st, sc, u, [x \in {c} |-> v], TRUE))

MutateCellsStep ==
    \E units \in Draws(CellUnits(T, [n \in DOMAIN T |-> MutableColumns(T, n)])) :
    \E value \in [units -> UNION {Transformed(u.table, u.row, u.column) : u \in units}] :
       /\ \A u \in units : value[u] \in Transformed(u.table, u.row, u.column)
       /\ Perform("mutate_cells", Cardinality(units), MutateCells(st, sc, units, value))

DropEventsStep ==
    \E gone \in Draws(DOMAIN T[History].rows) :
       Perform("drop_events", Cardinality(gone), DropEvents(st, sc, gone))

FreezeSeriesStep ==
    \E series \in Draws(LongSeries(T)) :
    \E cut \in [series -> 1..(Len(T[History].rows) - 1)] :
       /\ \A s \in series : cut[s] < Len(Timeline(T, s))
       /\ Perform("freeze_series", Cardinality(series), FreezeSeries(st, sc, cut))

ShiftOffsetStep ==
    \E i \in DOMAIN T[History].rows : \E k \in Offsets :
       Perform("shift_sim_time", 1,
          ShiftSimTime(st, sc, [x \in {i} |-> T[History].rows[i][SimTime] + k], "shifted_event_time"))

WithPredecessor == {i \in DOMAIN T[History].rows : Earlier(T, i) # {}}

ShiftCollideStep ==
    \E picked \in Draws(WithPredecessor) :
       Perform("shift_sim_time", Cardinality(picked),
               ShiftSimTime(st, sc, Collide(T, picked), "tick_collision"))

ShiftSwapStep ==
    \E picked \in Draws(WithPredecessor) :
       Perform("shift_sim_time", Cardinality(picked),
               ShiftSimTime(st, sc, Swap(T, SetToSeq(picked)), "reordered_event"))

DistortIntervalsStep ==
    \E mode \in {"overlap", "gap", "left_before_join"} :
    \E units \in Draws({u \in RowUnits(T, {n \in DOMAIN T : T[n].category = "membership"}) :
                          Distortable(T, sc, mode, u)}) :
       Perform("distort_intervals", Cardinality(units), DistortIntervals(st, sc, mode, units))

\* One column renamed, retyped or dropped, or one renamed over a dropped one.
Drifts(n) ==
    LET cols == {c \in ColumnsOf(T[n]) : DriftEligible(T, sc, n, SpecOf(T[n], c))}
        drift(r, t, d) == [rename |-> r, retype |-> t, drop |-> d]
    IN       {drift([x \in {c} |-> <<c[1], p>>], <<>>, {}) : c \in cols, p \in NewNames}
        \cup {drift(<<>>, [x \in {c} |-> t], {}) : c \in cols, t \in NewTypes}
        \cup {drift(<<>>, <<>>, {c}) : c \in cols}
        \cup {drift([x \in {c} |-> d], <<>>, {d}) : c \in cols, d \in cols}

SchemaDriftStep ==
    \E n \in DOMAIN T : \E drift \in Drifts(n) :
       /\ DriftValid(T, sc, n, drift)
       /\ Perform("schema_drift", 1, SchemaDrift(st, n, drift))

---------------------------------------------------------------------------
(* The writer. *)

Erased == \A n \in DOMAIN T : T[n].rows = <<>>

\* _check_not_totally_erased, then run.duckdb is opened.
OpenDatabase ==
    /\ phase = "running" /\ applied # <<>>
    /\ IF Erased THEN phase' = "raised" /\ UNCHANGED out
       ELSE phase' = "database" /\ out' = [out EXCEPT !.db = "partial"]
    /\ UNCHANGED <<world, st, defects, applied, drawn>>

CloseDatabase ==
    /\ phase = "database"
    /\ phase' = "sidecar" /\ out' = [out EXCEPT !.db = "whole"]
    /\ UNCHANGED <<world, st, defects, applied, drawn>>

WriteSidecar ==
    /\ phase = "sidecar"
    /\ phase' = "manifest" /\ out' = [out EXCEPT !.json = "whole"]
    /\ UNCHANGED <<world, st, defects, applied, drawn>>

WriteManifest ==
    /\ phase = "manifest"
    /\ phase' = "done" /\ out' = [out EXCEPT !.manifest = "whole"]
    /\ UNCHANGED <<world, st, defects, applied, drawn>>

\* A failed write: _remove_partial_output takes run.duckdb and base.json away,
\* but a failure of the manifest leaves the emit.
WriteFails ==
    /\ phase \in {"database", "sidecar", "manifest"}
    /\ phase' = "raised"
    /\ out' = IF phase = "manifest" THEN out ELSE [out EXCEPT !.db = "none", !.json = "none"]
    /\ UNCHANGED <<world, st, defects, applied, drawn>>

\* The process ends, by returning, raising or dying; the next run on the same
\* directory starts from what is on disk.
Again ==
    /\ phase # "idle"
    /\ Fresh("idle")
    /\ UNCHANGED <<world, out>>

Operation ==
    \/ NullCellsStep \/ DangleReferenceStep \/ MispointReferenceStep
    \/ DeleteRowsStep \/ InsertRowsStep
    \/ DuplicateExactStep \/ DuplicateNearStep \/ DuplicateConflictStep \/ MutateCellsStep
    \/ DropEventsStep \/ FreezeSeriesStep
    \/ ShiftOffsetStep \/ ShiftCollideStep \/ ShiftSwapStep
    \/ DistortIntervalsStep \/ SchemaDriftStep

Next ==
    \/ Begin \/ Refuse \/ (phase = "running" /\ Operation)
    \/ OpenDatabase \/ CloseDatabase \/ WriteSidecar \/ WriteManifest \/ WriteFails \/ Again

Spec == Init /\ [][Next]_vars

---------------------------------------------------------------------------
(* What a grader of a corrupted emit relies on. *)

Declared == UNION {d.impact : d \in defects}
Broken   == Failing(Emitted(T, sc))
Mutating == phase = "running" /\ applied # <<>> /\ ~Erased   \* what would be written
Drifted  == "schema_drift" \in Range(applied)
FrozenAfterShift == \E i, j \in DOMAIN applied :
                       i < j /\ applied[i] = "shift_sim_time" /\ applied[j] = "freeze_series"

\* The soundness of the manifest (docs/architecture/corrupters.md, invariant 5):
\* whatever check of the emit fails, some defect of the run declares it,
\* however the operations compose. Two compositions are left out because the
\* code does break them, see the README: schema_drift, and freezing a series
\* whose genesis event an earlier shift moved.
FailuresDeclared == Mutating /\ ~Drifted /\ ~FrozenAfterShift => Broken \subseteq Declared

\* Invariant 5 as the architecture document states it, for every configuration.
Containment == Mutating => Broken \cap {"C6", "C7", "C9", "C10", "C11", "C12"} \subseteq Declared

\* A tracked cell that is NULL because its series ends in NULL round-trips in
\* check C6, while the operations' mirror of C6 calls every NULL cell a failure.
NullSeries ==
    \E n \in RecordTables : \E d \in Range(T[n].cols), r \in Range(T[n].rows) :
       /\ d.name[1] = "prop" /\ d.tracked = TRUE /\ r[d.name] = NULL
       /\ LET anchor == Anchor(T, sc, <<T[n].kind, d.name[2], r[RecordId]>>)
          IN  anchor.found /\ anchor.value = NULL

\* A grader may trust the codes of a defect on its own: what it declares fails.
FirstExact ==
    Mutating /\ drawn = 1 /\ ~Drifted =>
       Declared \ {Beyond} \subseteq Broken \cup (IF NullSeries THEN {"C6"} ELSE {})

\* Structural preservation: no sequence of operations, schema_drift included,
\* breaks the catalog, the layouts, the branch or the surface checks, so the
\* emit can always be read back.
StructureKept == Mutating => Broken \cap {"C1", "C2", "C3", "C4", "C5", "C8", "C15"} = {}

\* A phantom is new: neither its id nor its record_index was ever a record's of
\* that table, not even of one an earlier operation deleted.
PhantomsAreNew ==
    [][Len(applied') > Len(applied) /\ Last(applied') = "insert_rows" =>
         \A n \in RecordTables : \A r \in Range(st'.tabs[n].rows) \ Range(T[n].rows) :
            \A q \in Range(T[n].rows) \cup Range(Source.tabs[n].rows) :
               r[RecordId] # q[RecordId] /\ r[RecordIndex] # q[RecordIndex]]_vars

\* No operation damages the frame the data lies in.
FrameKept == []StructureKept /\ PhantomsAreNew

\* On disk: a manifest never describes a missing or partial emit, a sidecar
\* never names a partial database, and an emit once there is never replaced,
\* whatever dies or is run again.
EmitsAreWhole ==
    /\ out.manifest = "whole" => out.json = "whole"
    /\ out.json = "whole" => out.db = "whole"
EmitStands == out.json = "whole" => out'.json = "whole" /\ out'.db = out.db

\* What a run leaves on disk is whole, and stays.
OutputStands == [][EmitsAreWhole' /\ EmitStands]_vars
=============================================================================
