------------------------------ MODULE DripCsv -------------------------------
(***************************************************************************)
(* The --next drip into a CSV drop directory: export_incremental_next with *)
(* the CSV arm of export_window, the cursor file and the companion         *)
(* artifacts, one file-system effect per step so that an invocation can    *)
(* die between any two of them.  Invocations do not overlap.               *)
(*                                                                         *)
(* A configuration stands for everything the fingerprint digests, so the   *)
(* fingerprint of a configuration is the configuration itself; of a        *)
(* window's label the model keeps the index and the anchor date.  A drop   *)
(* is absent, partial, or whole for the configuration that wrote it (a     *)
(* window is a pure function of configuration and index).                  *)
(***************************************************************************)
EXTENDS Naturals

CONSTANTS
    Configs,        \* configurations the operator runs the drip with
    AnchorOf,       \* configuration -> the anchor date its labels show
    LastWindow,     \* last window with start_ns <= slice_at
    MaxMishaps,     \* bound on deaths, failed writes and operator actions
    Absent, Partial, Torn

Indices == 0 .. LastWindow
NextIndices == 0 .. LastWindow + 1
Cursors == [fingerprint : Configs, next : NextIndices]

ASSUME WindowAssumption == LastWindow \in Nat
ASSUME MarkAssumption ==
    /\ Absent # Partial /\ Absent # Torn
    /\ {Absent, Partial, Torn} \cap (Configs \cup Cursors \cup NextIndices) = {}

\* derive_window's label, `w{index:05d}_...`.
Label(k, c) == <<k, AnchorOf[c]>>
Labels == {Label(k, c) : k \in Indices, c \in Configs}

VARIABLES
    drop,       \* label -> the visible drop directory of that name
    staging,    \* label -> its hidden .tmp_ directory
    cursor,     \* the cursor file
    manifest,   \* next_window_index in the companion manifest
    readme,     \* the window the companion README was rendered for, plus one
    config,     \* the configuration the operator would run now
    pc,         \* where the running invocation stands
    job,        \* the window it writes, and under which configuration
    outcome,    \* how the last invocation ended
    mishaps

disk == <<drop, staging, cursor, manifest, readme>>
vars == <<disk, config, pc, job, outcome, mishaps>>

Init ==
    /\ drop = [l \in Labels |-> Absent]
    /\ staging = [l \in Labels |-> Absent]
    /\ cursor = Absent
    /\ manifest = Absent
    /\ readme = Absent
    /\ config \in Configs
    /\ pc = "idle"
    /\ job = [index |-> 0, fingerprint |-> config]
    /\ outcome = "none"
    /\ mishaps = 0

Target == Label(job.index, job.fingerprint)

-----------------------------------------------------------------------------
(* read_cursor: fresh, lost, unreadable, or the stored cursor.             *)

\* _list_non_hidden: hidden entries and companion artifacts never count.
NonHidden == {l \in Labels : drop[l] # Absent}

\* Mutants: no crash-recovery state; a crash-recovery state blind to the cursor.
Fresh_EmptyOnly == NonHidden = {}

Fresh_AnyCursor == NonHidden = {} \/ NonHidden = {Label(0, config)}

Fresh ==
    \/ NonHidden = {}
    \/ NonHidden = {Label(0, config)} /\ cursor = Absent

StoredCursor == ~Fresh /\ cursor \in Cursors

Invalid == ~Fresh /\ cursor \notin Cursors

Mismatch == StoredCursor /\ cursor.fingerprint # config

NextWindow == IF Fresh THEN 0 ELSE cursor.next

\* Mutant: the stored fingerprint is not compared.
Readable_AnyFingerprint == Fresh \/ StoredCursor

Readable == Fresh \/ (StoredCursor /\ cursor.fingerprint = config)

-----------------------------------------------------------------------------
(* One invocation.                                                         *)

Refuse ==
    /\ pc = "idle"
    /\ \/ Invalid  /\ outcome' = "invalid"
       \/ Mismatch /\ outcome' = "mismatch"
    /\ UNCHANGED <<disk, config, pc, job, mishaps>>

\* Mutant: the last emittable window counts as past the end.
Drained_AtLast ==
    /\ pc = "idle"
    /\ Readable
    /\ NextWindow >= LastWindow
    /\ outcome' = "drained"
    /\ UNCHANGED <<disk, config, pc, job, mishaps>>

Drained ==
    /\ pc = "idle"
    /\ Readable
    /\ NextWindow > LastWindow
    /\ outcome' = "drained"
    /\ UNCHANGED <<disk, config, pc, job, mishaps>>

Start ==
    /\ pc = "idle"
    /\ Readable
    /\ NextWindow <= LastWindow
    /\ job' = [index |-> NextWindow, fingerprint |-> config]
    /\ pc' = "stage"
    /\ outcome' = "none"
    /\ UNCHANGED <<disk, config, mishaps>>

\* rmtree of the leftover of the same name, then mkdir.
Stage ==
    /\ pc = "stage"
    /\ staging' = [staging EXCEPT ![Target] = Partial]
    /\ pc' = "write"
    /\ UNCHANGED <<drop, cursor, manifest, readme, config, job, outcome, mishaps>>

WriteTables ==
    /\ pc = "write"
    /\ staging' = [staging EXCEPT ![Target] = job.fingerprint]
    /\ pc' = "clear"
    /\ UNCHANGED <<drop, cursor, manifest, readme, config, job, outcome, mishaps>>

\* Mutant: a failed table is swallowed and the window goes on.
WriteFails_Swallowed ==
    /\ pc = "write"
    /\ mishaps < MaxMishaps
    /\ staging' = [staging EXCEPT ![Target] = Partial]
    /\ pc' = "clear"
    /\ mishaps' = mishaps + 1
    /\ UNCHANGED <<drop, cursor, manifest, readme, config, job, outcome>>

\* A table fails: the staging directory is removed as far as rmtree manages.
WriteFails ==
    /\ pc = "write"
    /\ mishaps < MaxMishaps
    /\ \E left \in {Absent, Partial} : staging' = [staging EXCEPT ![Target] = left]
    /\ pc' = "idle"
    /\ outcome' = "failed"
    /\ mishaps' = mishaps + 1
    /\ UNCHANGED <<drop, cursor, manifest, readme, config, job>>

\* rmtree of a drop of the same name: file by file, so it is partial first.
ClearDrop ==
    /\ pc = "clear"
    /\ drop[Target] # Absent
    /\ drop' = [drop EXCEPT ![Target] = IF @ = Partial THEN Absent ELSE Partial]
    /\ UNCHANGED <<staging, cursor, manifest, readme, config, pc, job, outcome, mishaps>>

Rename ==
    /\ pc = "clear"
    /\ drop[Target] = Absent
    /\ drop' = [drop EXCEPT ![Target] = staging[Target]]
    /\ staging' = [staging EXCEPT ![Target] = Absent]
    /\ pc' = "open_cursor"
    /\ UNCHANGED <<cursor, manifest, readme, config, job, outcome, mishaps>>

\* write_csv_cursor is a plain write_text: the file is truncated, then filled.
TruncateCursor ==
    /\ pc = "open_cursor"
    /\ cursor' = Torn
    /\ pc' = "write_cursor"
    /\ UNCHANGED <<drop, staging, manifest, readme, config, job, outcome, mishaps>>

\* Mutant: the cursor moves two windows on.
WriteCursor_Twice ==
    /\ pc = "write_cursor"
    /\ cursor' = [fingerprint |-> job.fingerprint, next |-> job.index + 2]
    /\ pc' = "open_manifest"
    /\ UNCHANGED <<drop, staging, manifest, readme, config, job, outcome, mishaps>>

WriteCursor ==
    /\ pc = "write_cursor"
    /\ cursor' = [fingerprint |-> job.fingerprint, next |-> job.index + 1]
    /\ pc' = "open_manifest"
    /\ UNCHANGED <<drop, staging, manifest, readme, config, job, outcome, mishaps>>

\* write_companion_artifacts: the manifest first, then the README.
TruncateManifest ==
    /\ pc = "open_manifest"
    /\ manifest' = Torn
    /\ pc' = "write_manifest"
    /\ UNCHANGED <<drop, staging, cursor, readme, config, job, outcome, mishaps>>

WriteManifest ==
    /\ pc = "write_manifest"
    /\ manifest' = job.index + 1
    /\ pc' = "open_readme"
    /\ UNCHANGED <<drop, staging, cursor, readme, config, job, outcome, mishaps>>

TruncateReadme ==
    /\ pc = "open_readme"
    /\ readme' = Torn
    /\ pc' = "write_readme"
    /\ UNCHANGED <<drop, staging, cursor, manifest, config, job, outcome, mishaps>>

WriteReadme ==
    /\ pc = "write_readme"
    /\ readme' = job.index + 1
    /\ pc' = "idle"
    /\ outcome' = "emitted"
    /\ UNCHANGED <<drop, staging, cursor, manifest, config, job, mishaps>>

-----------------------------------------------------------------------------
(* What may go wrong around an invocation.                                 *)

\* A kill, or an error of rmtree, rename or write_text: the disk stays as it is.
Die ==
    /\ pc # "idle"
    /\ mishaps < MaxMishaps
    /\ pc' = "idle"
    /\ outcome' = "failed"
    /\ mishaps' = mishaps + 1
    /\ UNCHANGED <<disk, config, job>>

ChangeConfig ==
    /\ pc = "idle"
    /\ mishaps < MaxMishaps
    /\ config' \in Configs \ {config}
    /\ outcome' = "none"
    /\ mishaps' = mishaps + 1
    /\ UNCHANGED <<disk, pc, job>>

\* Deleting the output directory: the documented reset.
Reset ==
    /\ pc = "idle"
    /\ mishaps < MaxMishaps
    /\ drop' = [l \in Labels |-> Absent]
    /\ staging' = [l \in Labels |-> Absent]
    /\ cursor' = Absent
    /\ manifest' = Absent
    /\ readme' = Absent
    /\ outcome' = "none"
    /\ mishaps' = mishaps + 1
    /\ UNCHANGED <<config, pc, job>>

Invocation ==
    \/ Refuse \/ Drained \/ Start \/ Stage \/ WriteTables \/ ClearDrop \/ Rename
    \/ TruncateCursor \/ WriteCursor \/ TruncateManifest \/ WriteManifest
    \/ TruncateReadme \/ WriteReadme

Mishap == WriteFails \/ Die \/ ChangeConfig \/ Reset

Next == Invocation \/ Mishap

Spec == Init /\ [][Next]_vars

\* The operator keeps invoking --next, and an invocation that is not
\* interrupted runs to its end.
FairSpec == Spec /\ WF_vars(Invocation)

-----------------------------------------------------------------------------
(* Properties.                                                             *)

Steps == {"idle", "stage", "write", "clear", "open_cursor", "write_cursor",
          "open_manifest", "write_manifest", "open_readme", "write_readme"}

Dirs == {Absent, Partial} \cup Configs

\* Type invariant: the ranges of the disk and of the running invocation.
TypeOK ==
    /\ drop \in [Labels -> Dirs]
    /\ staging \in [Labels -> Dirs]
    /\ cursor \in {Absent, Torn} \cup Cursors
    /\ manifest \in {Absent, Torn} \cup NextIndices
    /\ readme \in {Absent, Torn} \cup NextIndices
    /\ config \in Configs
    /\ pc \in Steps
    /\ job \in [index : Indices, fingerprint : Configs]
    /\ outcome \in {"none", "emitted", "drained", "invalid", "mismatch", "failed"}
    /\ mishaps \in Nat

\* Every window the cursor has moved past is on disk, whole, and written by the
\* configuration the cursor carries (driver.py: data first, then the cursor;
\* fingerprint checked before any window is derived).
SettledDropsWhole ==
    cursor \in Cursors =>
        \A k \in Indices : k < cursor.next =>
            drop[Label(k, cursor.fingerprint)] = cursor.fingerprint

\* The visible drops are an initial segment of the windows: none is skipped,
\* whatever was interrupted and re-run (docs/architecture/incremental.md:540,
\* "cursor/data drift cannot produce a wrong window, only a repeated one").
DropsContiguous ==
    \A l \in NonHidden : \A j \in 0 .. l[1] - 1 : \E m \in NonHidden : m[1] = j

\* A drip that reports drained under a configuration has every window of the
\* run on disk, written by that configuration.
DrainedMeansComplete ==
    outcome = "drained" =>
        \A k \in Indices : drop[Label(k, config)] = config

\* No step but the deletion of the target disturbs a drop the cursor has moved
\* past: a re-run only ever replaces the window it repeats.
SettledDropsStand ==
    [][(cursor \in Cursors /\ cursor' # Absent) =>
        \A k \in Indices : k < cursor.next =>
            drop'[Label(k, cursor.fingerprint)] = drop[Label(k, cursor.fingerprint)]]_vars

\* The manifest never claims a window the cursor has not moved past.
ManifestNotAhead ==
    (cursor \in Cursors /\ manifest \in NextIndices) => manifest <= cursor.next

\* What lies in the target directory follows the cursor.
DiskFollowsCursor == TypeOK /\ DropsContiguous /\ ManifestNotAhead

\* With the operator re-invoking, every interruption is recovered from, except
\* one inside the cursor write: the drip drains, or it refuses a configuration
\* that its cursor, or the label of its only drop, does not carry.
Recovers ==
    <>[](\/ outcome \in {"drained", "mismatch"}
         \/ cursor = Torn
         \/ cursor = Absent /\ NonHidden # {} /\ Label(0, config) \notin NonHidden)

\* The CSV drip implements the abstract one.  A torn cursor was about to settle
\* the window last written.
WholeDrops == {k \in Indices : \E c \in Configs : drop[Label(k, c)] \in Configs}

SettledWindows ==
    IF cursor = Absent THEN 0
    ELSE IF cursor = Torn THEN job.index
    ELSE cursor.next

Abstract == INSTANCE Drip WITH visible <- WholeDrops, settled <- SettledWindows

ImplementsDrip == Abstract!Spec
=============================================================================
