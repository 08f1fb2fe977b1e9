--------------------------- MODULE DripWarehouse ----------------------------
(***************************************************************************)
(* The --next drip into a DuckDB warehouse: the cursor of record in        *)
(* _export_meta and _export_windows, the window compiled as the difference *)
(* of two horizons, and write_duckdb_window applying it table by table in  *)
(* one transaction.                                                        *)
(*                                                                         *)
(* A table's content is a multiset of rows, a row a key and a value.       *)
(* state[t][h] is the full export of table t over the tape truncated at    *)
(* the start of window h; the exporters compute it and nothing is assumed  *)
(* of it but what their rules give: the rows of an `append` table are      *)
(* never revised, and a row of an `upsert` table keeps its key.  A         *)
(* fingerprint mismatch and the companion artifacts are as in DripCsv.     *)
(***************************************************************************)
EXTENDS Naturals, FiniteSets, Sequences

CONSTANTS
    Delivery,       \* table -> "snapshot", "upsert" or "append"
    Specs,          \* the tables in declaration order
    Keys, Values,
    MaxCopies,      \* bound on the copies of one row
    LastWindow,     \* last window with start_ns <= slice_at
    MaxFailures,    \* bound on failed invocations
    Histories,      \* the full exports explored, table -> horizon -> rows
    NoTable

Tables == {Specs[i] : i \in DOMAIN Specs}
Rows == Keys \X Values
Contents == [Rows -> 0 .. MaxCopies]
Horizons == 0 .. LastWindow + 1
Nothing == [r \in Rows |-> 0]

\* A configuration names each table once.
ASSUME SpecsAssumption ==
    /\ Specs \in Seq(Tables)
    /\ \A i, j \in DOMAIN Specs : Specs[i] = Specs[j] => i = j

ASSUME DeliveryAssumption == Delivery \in [Tables -> {"snapshot", "upsert", "append"}]

ASSUME BoundAssumption ==
    LastWindow \in Nat /\ MaxCopies \in Nat /\ NoTable \notin Contents

KeysOf(rows) == {k \in Keys : \E v \in Values : rows[<<k, v>>] > 0}

\* What the delivery class of a table promises of its horizons: an empty tape
\* before the run, rows never revised, keys that stay (KeyColumnsStable).
Lawful(t, horizon) ==
    /\ horizon[0] = Nothing
    /\ \A h \in 0 .. LastWindow :
        /\ Delivery[t] = "append" => \A r \in Rows : horizon[h][r] <= horizon[h + 1][r]
        /\ Delivery[t] = "upsert" => KeysOf(horizon[h]) \subseteq KeysOf(horizon[h + 1])

ASSUME HistoryAssumption ==
    \A s \in Histories : \A t \in Tables :
        s[t] \in [Horizons -> Contents] /\ Lawful(t, s[t])

VARIABLES
    state,      \* table -> horizon -> the full export at that horizon
    warehouse,  \* the committed file: meta, windows, tables
    tx,         \* the open transaction's view of it
    pc,         \* where the running invocation stands
    window,     \* the window it applies
    delta,      \* table -> the relation the compile produced for it
    applied,    \* how many specs the transaction has applied
    outcome,
    failures

vars == <<state, warehouse, tx, pc, window, delta, applied, outcome, failures>>

Empty == [meta |-> FALSE, windows |-> {}, tables |-> [t \in Tables |-> NoTable]]

\* A warehouse some full export wrote: tables, and no _export_meta.
Foreign == [meta |-> FALSE, windows |-> {}, tables |-> [t \in Tables |-> Nothing]]

Init ==
    /\ state \in Histories
    /\ warehouse \in {Empty, Foreign}
    /\ tx = Empty
    /\ pc = "idle"
    /\ window = 0
    /\ delta = [t \in Tables |-> Nothing]
    /\ applied = 0
    /\ outcome = "none"
    /\ failures = 0

-----------------------------------------------------------------------------
(* The cursor of record.                                                   *)

\* Mutant: any warehouse without _export_meta counts as fresh.
FreshCatalog_NoMeta == ~warehouse.meta

FreshCatalog == ~warehouse.meta /\ \A t \in Tables : warehouse.tables[t] = NoTable

Invalid == ~FreshCatalog /\ ~warehouse.meta

\* Mutant: the last window again.
NextWindow_Last(w) ==
    IF w.windows = {} THEN 0 ELSE CHOOSE k \in w.windows : \A j \in w.windows : j <= k

\* max(window_index) + 1, or 0 without a window row.
NextWindow(w) ==
    IF w.windows = {} THEN 0
    ELSE 1 + CHOOSE k \in w.windows : \A j \in w.windows : j <= k

-----------------------------------------------------------------------------
(* The horizon compile.                                                    *)

\* compose_window_delta_sql: end EXCEPT ALL start.
\* Mutant: EXCEPT, which forgets the copies.
ExceptAll_Distinct(end, begin) ==
    [r \in Rows |-> IF end[r] > 0 /\ begin[r] = 0 THEN 1 ELSE 0]

ExceptAll(end, begin) ==
    [r \in Rows |-> IF end[r] > begin[r] THEN end[r] - begin[r] ELSE 0]

CompiledDelta(t, k) ==
    IF Delivery[t] = "snapshot" THEN state[t][k + 1]
    ELSE ExceptAll(state[t][k + 1], state[t][k])

\* WindowKeyDuplicate, over the end horizon of the upsert tables.
KeyDuplicate(t, k) ==
    /\ Delivery[t] = "upsert"
    /\ \E r, s \in Rows : /\ r[1] = s[1]
                          /\ state[t][k + 1][r] > 0 /\ state[t][k + 1][s] > 0
                          /\ r = s => state[t][k + 1][r] > 1

\* The invocation ends, and with it any transaction it had open.
Idle == pc' = "idle" /\ tx' = Empty /\ UNCHANGED <<state, window, delta, applied>>

Drained ==
    /\ pc = "idle"
    /\ ~Invalid
    /\ NextWindow(warehouse) > LastWindow
    /\ outcome' = "drained"
    /\ Idle
    /\ UNCHANGED <<warehouse, failures>>

RefuseCursor ==
    /\ pc = "idle"
    /\ Invalid
    /\ outcome' = "invalid"
    /\ Idle
    /\ UNCHANGED <<warehouse, failures>>

RefuseKey ==
    /\ pc = "idle"
    /\ ~Invalid
    /\ NextWindow(warehouse) <= LastWindow
    /\ \E t \in Tables : KeyDuplicate(t, NextWindow(warehouse))
    /\ outcome' = "duplicate"
    /\ Idle
    /\ UNCHANGED <<warehouse, failures>>

Start ==
    /\ pc = "idle"
    /\ ~Invalid
    /\ NextWindow(warehouse) <= LastWindow
    /\ \A t \in Tables : ~KeyDuplicate(t, NextWindow(warehouse))
    /\ window' = NextWindow(warehouse)
    /\ delta' = [t \in Tables |-> CompiledDelta(t, window')]
    /\ pc' = "connect"
    /\ outcome' = "none"
    /\ UNCHANGED <<state, warehouse, tx, applied, failures>>

-----------------------------------------------------------------------------
(* write_duckdb_window.                                                    *)

\* duckdb.connect (a file with an empty catalog is as fresh as none), begin, and
\* the bookkeeping tables.
Begin ==
    /\ pc = "connect"
    /\ tx' = [warehouse EXCEPT !.meta = TRUE]
    /\ applied' = 0
    /\ pc' = "apply"
    /\ UNCHANGED <<state, warehouse, window, delta, outcome, failures>>

Plus(rows, more) == [r \in Rows |-> rows[r] + more[r]]

\* Delete every row whose key a new row has, then insert.
Upsert(rows, more) ==
    [r \in Rows |-> (IF r[1] \in KeysOf(more) THEN 0 ELSE rows[r]) + more[r]]

\* _apply_spec
Written(t, rows, more) ==
    IF rows = NoTable \/ Delivery[t] = "snapshot" THEN more
    ELSE IF Delivery[t] = "append" THEN Plus(rows, more) ELSE Upsert(rows, more)

ApplySpec ==
    /\ pc = "apply"
    /\ applied < Len(Specs)
    /\ LET t == Specs[applied + 1]
       IN  tx' = [tx EXCEPT !.tables[t] = Written(t, @, delta[t])]
    /\ applied' = applied + 1
    /\ UNCHANGED <<state, warehouse, pc, window, delta, outcome, failures>>

\* Mutant: the window row carries the next index, as the CSV cursor does.
LogWindow_Next ==
    /\ pc = "apply"
    /\ applied = Len(Specs)
    /\ tx' = [tx EXCEPT !.windows = @ \cup {window + 1}]
    /\ pc' = "commit"
    /\ UNCHANGED <<state, warehouse, window, delta, applied, outcome, failures>>

LogWindow ==
    /\ pc = "apply"
    /\ applied = Len(Specs)
    /\ tx' = [tx EXCEPT !.windows = @ \cup {window}]
    /\ pc' = "commit"
    /\ UNCHANGED <<state, warehouse, window, delta, applied, outcome, failures>>

Commit ==
    /\ pc = "commit"
    /\ warehouse' = tx
    /\ outcome' = "emitted"
    /\ Idle
    /\ UNCHANGED failures

\* Connecting, a spec or the window row fails: rollback, ExportRuntimeError.
Fail ==
    /\ pc \in {"connect", "apply"}
    /\ failures < MaxFailures
    /\ outcome' = "failed"
    /\ failures' = failures + 1
    /\ Idle
    /\ UNCHANGED warehouse

\* The commit fails: closing the connection rolls back, and the exception is
\* DuckDB's own, because the commit stands outside the inner try.
CommitFails ==
    /\ pc = "commit"
    /\ failures < MaxFailures
    /\ outcome' = "raw error"
    /\ failures' = failures + 1
    /\ Idle
    /\ UNCHANGED warehouse

\* The process dies; the transaction is gone with it.
Die ==
    /\ pc # "idle"
    /\ failures < MaxFailures
    /\ outcome' = "died"
    /\ failures' = failures + 1
    /\ Idle
    /\ UNCHANGED warehouse

Invocation ==
    \/ Drained \/ RefuseCursor \/ RefuseKey \/ Start \/ Begin \/ ApplySpec
    \/ LogWindow \/ Commit

Next == Invocation \/ Fail \/ CommitFails \/ Die

Spec == Init /\ [][Next]_vars

\* The operator keeps invoking --next.
FairSpec == Spec /\ WF_vars(Invocation)

-----------------------------------------------------------------------------
(* Properties.                                                             *)

Views == [meta : BOOLEAN, windows : SUBSET (0 .. LastWindow),
          tables : [Tables -> Contents \cup {NoTable}]]

\* Type invariant; in particular no row ever has more copies than the full
\* export can give it.
TypeOK ==
    /\ warehouse \in Views
    /\ tx \in Views
    /\ pc \in {"idle", "connect", "apply", "commit"}
    /\ window \in 0 .. LastWindow
    /\ delta \in [Tables -> Contents]
    /\ applied \in 0 .. Len(Specs)

\* After every committed window each table is, as a multiset, the full export at
\* that window's end: the drip never diverges from the one-shot export
\* (docs/architecture/incremental.md, "after every window is applied the target
\* equals state(h) as a multiset").
Reconciled ==
    warehouse.windows # {} =>
        \A t \in Tables : warehouse.tables[t] = state[t][NextWindow(warehouse)]

\* The warehouse is well formed and holds what the export would.
WarehouseInv == TypeOK /\ Reconciled

\* A warehouse that no drip created is never written to
\* (docs/architecture/incremental.md:374, "missing `_export_meta` is lost").
ForeignUntouched ==
    [][(~warehouse.meta /\ warehouse # Empty) => warehouse' = warehouse]_vars

\* The drip reaches its end unless a window's key is not unique.
Finishes == <>[](outcome \in {"drained", "duplicate", "invalid"})

Abstract == INSTANCE Drip WITH
    visible <- warehouse.windows, settled <- NextWindow(warehouse)

\* Window and cursor move together: the warehouse implements the abstract drip.
ImplementsDrip == Abstract!Spec
=============================================================================
