------------------------ MODULE DripWarehouse_proofs ------------------------
(***************************************************************************)
(* Proofs about the DuckDB drip, for every set of tables, every delivery   *)
(* class of each, every lawful history and any number of failures.         *)
(*                                                                         *)
(* Reconciled is not inductive: that the next window may be merged into    *)
(* what the last one left rests on the keys having been unique then, and   *)
(* on the transaction having seen nothing but committed windows.  IInv     *)
(* says both, and how far the transaction has got.                         *)
(***************************************************************************)
EXTENDS DripWarehouse, TLAPS

KeysUnique(rows) ==
    \A r, s \in Rows :
        (r[1] = s[1] /\ rows[r] > 0 /\ rows[s] > 0) => (r = s /\ rows[r] <= 1)

\* The history never changes, and it is one of those assumed.
HistoryStands == state \in Histories

\* The committed windows are an initial segment, and NextWindow follows it.
Contiguous ==
    /\ NextWindow(warehouse) \in 0 .. LastWindow + 1
    /\ warehouse.windows = 0 .. NextWindow(warehouse) - 1

\* What was never dripped into is as it was found; the rest is at its horizon.
AtHorizon ==
    IF warehouse.meta
    THEN \A t \in Tables : warehouse.tables[t] = state[t][NextWindow(warehouse)]
    ELSE warehouse \in {Empty, Foreign}

\* The keys of an upsert table are unique wherever its drip stands.
UniqueKeys ==
    \A t \in Tables : Delivery[t] = "upsert" => KeysUnique(state[t][NextWindow(warehouse)])

\* A running invocation applies the next window, compiled and checked.
JobIsNext ==
    pc # "idle" =>
        /\ window = NextWindow(warehouse) /\ window \in 0 .. LastWindow
        /\ ~Invalid
        /\ delta = [t \in Tables |-> CompiledDelta(t, window)]
        /\ \A t \in Tables : Delivery[t] = "upsert" => KeysUnique(state[t][window + 1])

\* The open transaction: the tables applied so far, the others as committed.
TxHalfway ==
    pc = "apply" =>
        /\ tx = [meta |-> TRUE, windows |-> warehouse.windows, tables |-> tx.tables]
        /\ tx.tables \in [Tables -> Contents \cup {NoTable}]
        /\ \A i \in DOMAIN Specs :
            tx.tables[Specs[i]] = IF i <= applied THEN state[Specs[i]][window + 1]
                                  ELSE warehouse.tables[Specs[i]]

TxComplete ==
    pc = "commit" =>
        /\ tx = [meta |-> TRUE, windows |-> warehouse.windows \cup {window},
                 tables |-> tx.tables]
        /\ tx.tables \in [Tables -> Contents \cup {NoTable}]
        /\ \A t \in Tables : tx.tables[t] = state[t][window + 1]

IInv ==
    /\ TypeOK
    /\ HistoryStands
    /\ Contiguous
    /\ AtHorizon
    /\ UniqueKeys
    /\ JobIsNext
    /\ TxHalfway
    /\ TxComplete

-----------------------------------------------------------------------------
(* The merge of a difference.                                              *)

LEMMA Bounds == LastWindow \in Nat /\ MaxCopies \in Nat /\ NoTable \notin Contents
  BY BoundAssumption

\* Updates of the transaction's view, field by field.
LEMMA EditView ==
  ASSUME NEW view \in Views, NEW y
  PROVE  /\ [view EXCEPT !.tables = y]
            = [meta |-> view.meta, windows |-> view.windows, tables |-> y]
         /\ [view EXCEPT !.windows = y]
            = [meta |-> view.meta, windows |-> y, tables |-> view.tables]
  BY DEF Views

LEMMA CopiesAreNat ==
  ASSUME NEW rows \in Contents, NEW r \in Rows
  PROVE  rows[r] \in Nat /\ rows[r] <= MaxCopies
  BY Bounds DEF Contents

\* Two contents that agree on every row are the same content.
LEMMA SameRows ==
  ASSUME NEW rows, rows = [r \in Rows |-> rows[r]], NEW more \in Contents,
         \A r \in Rows : rows[r] = more[r]
  PROVE  rows = more
  BY DEF Contents

LEMMA RowKeys ==
  ASSUME NEW r \in Rows
  PROVE  r[1] \in Keys /\ r[2] \in Values /\ r = <<r[1], r[2]>>
  BY DEF Rows

\* Appending what a later horizon has more of gives the later horizon.
LEMMA AppendOfDifference ==
  ASSUME NEW begin \in Contents, NEW end \in Contents,
         \A r \in Rows : begin[r] <= end[r]
  PROVE  Plus(begin, ExceptAll(end, begin)) = end
  <1> DEFINE sum == Plus(begin, ExceptAll(end, begin))
  <1>1. ASSUME NEW r \in Rows
        PROVE  sum[r] = end[r]
    <2>1. begin[r] \in Nat /\ end[r] \in Nat /\ begin[r] <= end[r]
      BY CopiesAreNat
    <2>2. sum[r] = begin[r] + (IF end[r] > begin[r] THEN end[r] - begin[r] ELSE 0)
      BY DEF Plus, ExceptAll
    <2> QED  BY <2>1, <2>2
  <1>2. sum = [r \in Rows |-> sum[r]]
    BY DEF Plus
  <1> QED  BY <1>1, <1>2, SameRows

\* Deleting the keys of a difference and inserting it gives the later horizon,
\* if keys are unique at both and none disappears.
LEMMA UpsertOfDifference ==
  ASSUME NEW begin \in Contents, NEW end \in Contents,
         KeysUnique(begin), KeysUnique(end),
         KeysOf(begin) \subseteq KeysOf(end)
  PROVE  Upsert(begin, ExceptAll(end, begin)) = end
  <1> DEFINE more == ExceptAll(end, begin)
             merged == Upsert(begin, more)
  <1>1. ASSUME NEW r \in Rows
        PROVE  /\ begin[r] \in Nat /\ end[r] \in Nat
               /\ more[r] = IF end[r] > begin[r] THEN end[r] - begin[r] ELSE 0
               /\ merged[r] = (IF r[1] \in KeysOf(more) THEN 0 ELSE begin[r]) + more[r]
               /\ begin[r] <= 1 /\ end[r] <= 1
    <2>1. begin[r] \in Nat /\ end[r] \in Nat
      BY CopiesAreNat
    <2>2. begin[r] <= 1 /\ end[r] <= 1
      BY <2>1 DEF KeysUnique
    <2>3. more[r] = IF end[r] > begin[r] THEN end[r] - begin[r] ELSE 0
      BY DEF ExceptAll
    <2>4. merged[r] = (IF r[1] \in KeysOf(more) THEN 0 ELSE begin[r]) + more[r]
      BY DEF Upsert
    <2> QED  BY <2>1, <2>2, <2>3, <2>4
  <1>2. ASSUME NEW r \in Rows
        PROVE  merged[r] = end[r]
    <2>1. CASE r[1] \in KeysOf(more)
      <3>1. PICK v \in Values : more[<<r[1], v>>] > 0
        BY <2>1 DEF KeysOf
      <3> DEFINE s == <<r[1], v>>
      <3>2. s \in Rows /\ s[1] = r[1]
        BY RowKeys DEF Rows
      <3>3. end[s] > begin[s] /\ end[s] > 0
        BY <1>1, <3>1, <3>2
      <3>4. CASE r = s
        BY <1>1, <2>1, <3>2, <3>3, <3>4
      <3>5. CASE r # s
        <4>1. ~(end[r] > 0)
          BY <3>2, <3>3, <3>5 DEF KeysUnique
        <4> QED  BY <1>1, <2>1, <4>1
      <3> QED  BY <3>4, <3>5
    <2>2. CASE r[1] \notin KeysOf(more)
      <3>1. ASSUME NEW s \in Rows, s[1] = r[1]
            PROVE  end[s] <= begin[s]
        <4>1. ~(more[s] > 0)
          BY <2>2, <3>1, RowKeys DEF KeysOf
        <4> QED  BY <1>1, <4>1
      <3>2. CASE begin[r] = 0
        BY <1>1, <2>2, <3>1, <3>2
      <3>3. CASE begin[r] # 0
        <4>1. begin[r] > 0
          BY <1>1, <3>3
        <4>2. r[1] \in KeysOf(end)
          BY <4>1, RowKeys DEF KeysOf
        <4>3. PICK v \in Values : end[<<r[1], v>>] > 0
          BY <4>2 DEF KeysOf
        <4> DEFINE s == <<r[1], v>>
        <4>4. s \in Rows /\ s[1] = r[1]
          BY RowKeys DEF Rows
        <4>5. begin[s] > 0
          BY <1>1, <3>1, <4>3, <4>4
        <4>6. s = r
          BY <4>1, <4>4, <4>5 DEF KeysUnique
        <4> QED  BY <1>1, <2>2, <3>1, <4>3, <4>6
      <3> QED  BY <3>2, <3>3
    <2> QED  BY <2>1, <2>2
  <1>3. merged = [r \in Rows |-> merged[r]]
    BY DEF Upsert
  <1> QED  BY <1>2, <1>3, SameRows

-----------------------------------------------------------------------------
(* Types of the pieces.                                                    *)

LEMMA NothingIsContent == Nothing \in Contents
  BY Bounds DEF Nothing, Contents

LEMMA DifferenceIsContent ==
  ASSUME NEW begin \in Contents, NEW end \in Contents
  PROVE  ExceptAll(end, begin) \in Contents
  <1>1. ASSUME NEW r \in Rows
        PROVE  (IF end[r] > begin[r] THEN end[r] - begin[r] ELSE 0) \in 0 .. MaxCopies
    BY CopiesAreNat, Bounds
  <1> QED  BY <1>1 DEF ExceptAll, Contents

\* A difference from the empty tape is the whole horizon.
LEMMA DifferenceFromNothing ==
  ASSUME NEW end \in Contents
  PROVE  ExceptAll(end, Nothing) = end
  <1> DEFINE more == ExceptAll(end, Nothing)
  <1>1. ASSUME NEW r \in Rows
        PROVE  more[r] = end[r]
    <2>1. end[r] \in Nat
      BY CopiesAreNat
    <2>2. more[r] = IF end[r] > 0 THEN end[r] - 0 ELSE 0
      BY DEF ExceptAll, Nothing
    <2> QED  BY <2>1, <2>2
  <1>2. more = [r \in Rows |-> more[r]]
    BY DEF ExceptAll
  <1> QED  BY <1>1, <1>2, SameRows

\* What HistoryAssumption says of the history of the run.
LEMMA HistoryFacts ==
  ASSUME HistoryStands, NEW t \in Tables
  PROVE  /\ \A h \in Horizons : state[t][h] \in Contents
         /\ state[t][0] = Nothing
         /\ \A h \in 0 .. LastWindow :
              /\ h \in Horizons /\ h + 1 \in Horizons
              /\ Delivery[t] = "append" =>
                   \A r \in Rows : state[t][h][r] <= state[t][h + 1][r]
              /\ Delivery[t] = "upsert" =>
                   KeysOf(state[t][h]) \subseteq KeysOf(state[t][h + 1])
  <1>1. state[t] \in [Horizons -> Contents] /\ Lawful(t, state[t])
    BY HistoryAssumption DEF HistoryStands
  <1>2. \A h \in 0 .. LastWindow : h \in Horizons /\ h + 1 \in Horizons
    BY Bounds DEF Horizons
  <1>3. state[t][0] = Nothing
    BY <1>1 DEF Lawful
  <1>4. ASSUME NEW h \in 0 .. LastWindow, Delivery[t] = "append"
        PROVE  \A r \in Rows : state[t][h][r] <= state[t][h + 1][r]
    BY <1>1, <1>4 DEF Lawful
  <1>5. ASSUME NEW h \in 0 .. LastWindow, Delivery[t] = "upsert"
        PROVE  KeysOf(state[t][h]) \subseteq KeysOf(state[t][h + 1])
    BY <1>1, <1>5 DEF Lawful
  <1> QED  BY <1>1, <1>2, <1>3, <1>4, <1>5

\* NextWindow of an initial segment is its length.
LEMMA NextOfSegment ==
  ASSUME NEW w, NEW n \in Nat, w.windows = 0 .. n - 1
  PROVE  NextWindow(w) = n
  <1>1. CASE n = 0
    <2>1. w.windows = {}
      BY <1>1
    <2> QED  BY <1>1, <2>1 DEF NextWindow
  <1>2. CASE n > 0
    <2> DEFINE last == CHOOSE k \in w.windows : \A j \in w.windows : j <= k
    <2>1. n - 1 \in w.windows /\ \A j \in w.windows : j <= n - 1
      BY <1>2
    <2>2. last \in w.windows /\ \A j \in w.windows : j <= last
      BY <2>1
    <2>3. last = n - 1
      BY <2>1, <2>2
    <2>4. w.windows # {}
      BY <2>1
    <2>5. NextWindow(w) = 1 + last
      BY <2>4 DEF NextWindow
    <2> HIDE DEF last
    <2> QED  BY <2>3, <2>5
  <1> QED  BY <1>1, <1>2

LEMMA NothingKept == NextWindow(Empty) = 0 /\ NextWindow(Foreign) = 0
  BY DEF NextWindow, Empty, Foreign

LEMMA EmptyIsView == Empty \in Views /\ Foreign \in Views
  BY NothingIsContent DEF Empty, Foreign, Views

-----------------------------------------------------------------------------
(* The invariant.                                                          *)

LEMMA InitIInv == Init => IInv
  <1> SUFFICES ASSUME Init PROVE IInv
    OBVIOUS
  <1>1. warehouse \in {Empty, Foreign} /\ NextWindow(warehouse) = 0
    BY NothingKept DEF Init
  <1>2. HistoryStands
    BY DEF Init, HistoryStands
  <1>3. TypeOK
    <2>1. warehouse \in Views /\ tx \in Views
      BY EmptyIsView DEF Init
    <2>2. window \in 0 .. LastWindow
      BY Bounds DEF Init
    <2>3. delta \in [Tables -> Contents]
      BY NothingIsContent DEF Init
    <2>4. applied \in 0 .. Len(Specs)
      BY SpecsAssumption DEF Init
    <2> QED  BY <2>1, <2>2, <2>3, <2>4 DEF Init, TypeOK
  <1>4. Contiguous
    <2>1. warehouse.windows = {}
      BY <1>1 DEF Empty, Foreign
    <2> QED  BY <1>1, <2>1, Bounds DEF Contiguous
  <1>5. AtHorizon
    BY <1>1 DEF AtHorizon, Empty, Foreign
  <1>6. UniqueKeys
    <2>1. ASSUME NEW t \in Tables PROVE KeysUnique(state[t][0])
      <3>1. state[t][0] = Nothing
        BY <1>2, HistoryFacts
      <3> QED  BY <3>1 DEF KeysUnique, Nothing
    <2> QED  BY <1>1, <2>1 DEF UniqueKeys
  <1> QED  BY <1>2, <1>3, <1>4, <1>5, <1>6
           DEF Init, IInv, JobIsNext, TxHalfway, TxComplete

\* A step that commits nothing leaves what is said of the committed file.
LEMMA SameWarehouse ==
  ASSUME IInv, UNCHANGED state, UNCHANGED warehouse
  PROVE  HistoryStands' /\ Contiguous' /\ AtHorizon' /\ UniqueKeys'
  BY DEF IInv, HistoryStands, Contiguous, AtHorizon, UniqueKeys

\* An invocation that ends without a commit leaves the invariant.
LEMMA IdleKeeps ==
  ASSUME IInv, Idle, UNCHANGED warehouse
  PROVE  IInv'
  <1>1. UNCHANGED state /\ UNCHANGED window /\ UNCHANGED delta /\ UNCHANGED applied
        /\ pc' = "idle" /\ tx' = Empty
    BY DEF Idle
  <1>2. TypeOK'
    BY <1>1, EmptyIsView DEF IInv, TypeOK
  <1> QED  BY <1>1, <1>2, SameWarehouse DEF IInv, JobIsNext, TxHalfway, TxComplete

\* The window that is compiled is a content of every table.
LEMMA CompiledIsContent ==
  ASSUME HistoryStands, NEW t \in Tables, NEW k \in 0 .. LastWindow
  PROVE  CompiledDelta(t, k) \in Contents
  <1>1. state[t][k] \in Contents /\ state[t][k + 1] \in Contents
    BY HistoryFacts
  <1> QED  BY <1>1, DifferenceIsContent DEF CompiledDelta

LEMMA NoDuplicateMeansUnique ==
  ASSUME NEW t \in Tables, NEW k, Delivery[t] = "upsert", ~KeyDuplicate(t, k),
         state[t][k + 1] \in Contents
  PROVE  KeysUnique(state[t][k + 1])
  BY CopiesAreNat DEF KeyDuplicate, KeysUnique

\* A file that is neither invalid nor dripped into is empty.
LEMMA FreshIsEmpty ==
  ASSUME AtHorizon, ~warehouse.meta, ~Invalid
  PROVE  warehouse = Empty
  <1>1. \A t \in Tables : warehouse.tables[t] = NoTable
    BY DEF Invalid, FreshCatalog
  <1>2. CASE warehouse = Foreign
    <2>1. \A t \in Tables : warehouse.tables[t] = Nothing
      BY <1>2 DEF Foreign
    <2>2. Tables = {}
      BY <1>1, <2>1, NothingIsContent, Bounds
    <2>3. Empty.tables = Foreign.tables
      BY <2>2 DEF Empty, Foreign
    <2> QED  BY <1>2, <2>3 DEF Empty, Foreign
  <1> QED  BY <1>2 DEF AtHorizon

\* What _apply_spec makes of a table is the table at the window's end.
LEMMA WrittenIsNext ==
  ASSUME IInv, pc # "idle", NEW t \in Tables
  PROVE  Written(t, warehouse.tables[t], delta[t]) = state[t][window + 1]
  <1> DEFINE begin == state[t][window]
             end == state[t][window + 1]
  <1>1. /\ window = NextWindow(warehouse) /\ window \in 0 .. LastWindow
        /\ delta[t] = CompiledDelta(t, window)
        /\ Delivery[t] = "upsert" => KeysUnique(begin) /\ KeysUnique(end)
    BY DEF IInv, JobIsNext, UniqueKeys
  <1>2. begin \in Contents /\ end \in Contents
    BY <1>1, HistoryFacts DEF IInv
  <1>3. Delivery[t] \in {"snapshot", "upsert", "append"}
    BY DeliveryAssumption
  <1>4. CASE ~warehouse.meta
    <2>1. warehouse = Empty /\ window = 0
      BY <1>1, <1>4, FreshIsEmpty, NothingKept DEF IInv, JobIsNext
    <2>2. Written(t, warehouse.tables[t], delta[t]) = delta[t]
      BY <2>1 DEF Written, Empty
    <2>3. begin = Nothing
      BY <2>1, HistoryFacts DEF IInv
    <2> QED  BY <1>1, <1>2, <2>2, <2>3, DifferenceFromNothing DEF CompiledDelta
  <1>5. CASE warehouse.meta
    <2>1. warehouse.tables[t] = begin
      BY <1>1, <1>5 DEF IInv, AtHorizon
    <2>2. begin # NoTable
      BY <1>2, Bounds
    <2>3. CASE Delivery[t] = "snapshot"
      <3>1. delta[t] = end
        BY <1>1, <2>3 DEF CompiledDelta
      <3> QED  BY <2>1, <2>2, <2>3, <3>1 DEF Written
    <2>4. CASE Delivery[t] = "append"
      <3>1. delta[t] = ExceptAll(end, begin)
        BY <1>1, <2>4 DEF CompiledDelta
      <3>2. Plus(begin, ExceptAll(end, begin)) = end
        BY <1>1, <1>2, <2>4, HistoryFacts, AppendOfDifference DEF IInv
      <3> QED  BY <2>1, <2>2, <2>4, <3>1, <3>2 DEF Written
    <2>5. CASE Delivery[t] = "upsert"
      <3>1. delta[t] = ExceptAll(end, begin)
        BY <1>1, <2>5 DEF CompiledDelta
      <3>2. KeysOf(begin) \subseteq KeysOf(end)
        BY <1>1, <2>5, HistoryFacts DEF IInv
      <3>3. Upsert(begin, ExceptAll(end, begin)) = end
        BY <1>1, <1>2, <2>5, <3>2, UpsertOfDifference
      <3> QED  BY <2>1, <2>2, <2>5, <3>1, <3>3 DEF Written
    <2> QED  BY <1>3, <2>3, <2>4, <2>5
  <1> QED  BY <1>4, <1>5

\* Nothing is open but for the writing of one window.
LEMMA StartKeeps == ASSUME IInv, Start PROVE IInv'
  <1> DEFINE k == NextWindow(warehouse)
  <1>1. /\ pc = "idle" /\ ~Invalid /\ k <= LastWindow
        /\ \A t \in Tables : ~KeyDuplicate(t, k)
        /\ window' = k
        /\ delta' = [t \in Tables |-> CompiledDelta(t, window')]
        /\ pc' = "connect"
        /\ UNCHANGED state /\ UNCHANGED warehouse /\ UNCHANGED tx /\ UNCHANGED applied
    BY DEF Start
  <1>2. k \in 0 .. LastWindow
    BY <1>1, Bounds DEF IInv, Contiguous
  <1>3. TypeOK'
    <2>1. \A t \in Tables : CompiledDelta(t, k) \in Contents
      BY <1>2, CompiledIsContent DEF IInv
    <2>2. delta' \in [Tables -> Contents]
      BY <1>1, <2>1
    <2> QED  BY <1>1, <1>2, <2>2 DEF IInv, TypeOK
  <1>4. JobIsNext'
    <2>1. ASSUME NEW t \in Tables, Delivery[t] = "upsert"
          PROVE  KeysUnique(state[t][k + 1])
      <3>1. state[t][k + 1] \in Contents
        BY <1>2, HistoryFacts DEF IInv
      <3> QED  BY <1>1, <2>1, <3>1, NoDuplicateMeansUnique
    <2>2. window' = NextWindow(warehouse)'
      BY <1>1
    <2>3. ~Invalid'
      BY <1>1 DEF Invalid, FreshCatalog
    <2>4. delta' = [t \in Tables |-> CompiledDelta(t, window)']
      BY <1>1 DEF CompiledDelta
    <2>5. \A t \in Tables : Delivery[t] = "upsert" => KeysUnique(state[t][window + 1])'
      BY <1>1, <2>1 DEF KeysUnique
    <2> QED  BY <1>1, <1>2, <2>2, <2>3, <2>4, <2>5 DEF JobIsNext
  <1> QED  BY <1>1, <1>3, <1>4, SameWarehouse DEF IInv, TxHalfway, TxComplete

\* What an invocation knows of its window stays while it writes.
LEMMA SameJob ==
  ASSUME IInv, pc # "idle", UNCHANGED state, UNCHANGED warehouse,
         UNCHANGED window, UNCHANGED delta
  PROVE  JobIsNext'
  BY DEF IInv, JobIsNext, Invalid, FreshCatalog, NextWindow, CompiledDelta, KeysUnique

LEMMA BeginKeeps == ASSUME IInv, Begin PROVE IInv'
  <1>1. /\ pc = "connect" /\ pc' = "apply"
        /\ tx' = [warehouse EXCEPT !.meta = TRUE] /\ applied' = 0
        /\ UNCHANGED state /\ UNCHANGED warehouse /\ UNCHANGED window /\ UNCHANGED delta
    BY DEF Begin
  <1>2. warehouse \in Views
    BY DEF IInv, TypeOK
  <1>3. /\ tx' = [meta |-> TRUE, windows |-> warehouse.windows, tables |-> warehouse.tables]
        /\ warehouse.tables \in [Tables -> Contents \cup {NoTable}]
        /\ warehouse.windows \in SUBSET (0 .. LastWindow)
    BY <1>1, <1>2 DEF Views
  <1>4. TypeOK'
    <2>1. tx' \in Views
      BY <1>3 DEF Views
    <2>2. applied' \in 0 .. Len(Specs)
      BY <1>1, SpecsAssumption
    <2> QED  BY <1>1, <2>1, <2>2 DEF IInv, TypeOK
  <1>5. TxHalfway'
    <2>1. tx'.tables = warehouse.tables
      BY <1>3
    <2>2. \A i \in DOMAIN Specs : ~(i <= 0)
      BY SpecsAssumption
    <2> QED  BY <1>1, <1>3, <2>1, <2>2 DEF TxHalfway
  <1> QED  BY <1>1, <1>4, <1>5, SameWarehouse, SameJob DEF IInv, TxComplete

LEMMA ApplyKeeps == ASSUME IInv, ApplySpec PROVE IInv'
  <1> DEFINE i == applied + 1
             t == Specs[i]
             new == state[t][window + 1]
  <1>1. /\ pc = "apply" /\ applied < Len(Specs)
        /\ tx' = [tx EXCEPT !.tables[t] = Written(t, @, delta[t])]
        /\ applied' = applied + 1 /\ pc' = "apply"
        /\ UNCHANGED state /\ UNCHANGED warehouse /\ UNCHANGED window /\ UNCHANGED delta
    BY DEF ApplySpec
  <1>2. applied \in Nat /\ i \in DOMAIN Specs /\ t \in Tables
    BY <1>1, SpecsAssumption DEF IInv, TypeOK, Tables
  <1>3. /\ tx = [meta |-> TRUE, windows |-> warehouse.windows, tables |-> tx.tables]
        /\ tx.tables \in [Tables -> Contents \cup {NoTable}]
        /\ \A j \in DOMAIN Specs :
            tx.tables[Specs[j]] = IF j <= applied THEN state[Specs[j]][window + 1]
                                  ELSE warehouse.tables[Specs[j]]
    BY <1>1 DEF IInv, TxHalfway
  <1>4. tx.tables[t] = warehouse.tables[t]
    BY <1>2, <1>3
  <1>5. Written(t, tx.tables[t], delta[t]) = new
    BY <1>1, <1>2, <1>4, WrittenIsNext
  <1>6. new \in Contents
    BY <1>1, <1>2, HistoryFacts DEF IInv, JobIsNext
  <1>7. tx' = [meta |-> TRUE, windows |-> warehouse.windows,
               tables |-> [tx.tables EXCEPT ![t] = new]]
    <2>1. tx' = [tx EXCEPT !.tables = [tx.tables EXCEPT ![t] = new]]
      BY <1>1, <1>5
    <2>2. [tx EXCEPT !.tables = [tx.tables EXCEPT ![t] = new]]
            = [meta |-> TRUE, windows |-> warehouse.windows,
               tables |-> [tx.tables EXCEPT ![t] = new]]
      <3>1. tx \in Views /\ tx.meta = TRUE /\ tx.windows = warehouse.windows
        BY <1>3 DEF IInv, TypeOK
      <3> QED  BY <3>1, EditView, ZenonT(30)
    <2> QED  BY <2>1, <2>2, Zenon
  <1>8. tx'.tables = [tx.tables EXCEPT ![t] = new]
    BY <1>7
  <1>9. tx'.tables \in [Tables -> Contents \cup {NoTable}]
    BY <1>3, <1>6, <1>8
  <1>10. TypeOK'
    <2>1. tx' \in Views
      BY <1>7, <1>8, <1>9 DEF Views, IInv, TypeOK
    <2>2. applied' \in 0 .. Len(Specs)
      BY <1>1, <1>2, SpecsAssumption
    <2> QED  BY <1>1, <2>1, <2>2 DEF IInv, TypeOK
  <1>11. TxHalfway'
    <2>1. ASSUME NEW j \in DOMAIN Specs
          PROVE  tx'.tables[Specs[j]] = IF j <= applied + 1 THEN state[Specs[j]][window + 1]
                                        ELSE warehouse.tables[Specs[j]]
      <3>1. j \in Nat /\ Specs[j] \in Tables
        BY SpecsAssumption DEF Tables
      <3>2. CASE j = i
        BY <1>2, <1>3, <1>8, <3>2
      <3>3. CASE j # i
        <4>1. Specs[j] # t
          BY <1>2, <3>3, SpecsAssumption
        <4>2. tx'.tables[Specs[j]] = tx.tables[Specs[j]]
          BY <1>3, <1>8, <3>1, <4>1
        <4>3. j <= applied + 1 <=> j <= applied
          BY <1>2, <3>1, <3>3
        <4> QED  BY <1>3, <4>2, <4>3
      <3> QED  BY <3>2, <3>3
    <2>2. tx' = [meta |-> TRUE, windows |-> warehouse.windows, tables |-> tx'.tables]
      BY <1>7, <1>8
    <2> QED  BY <1>1, <1>9, <2>1, <2>2 DEF TxHalfway
  <1> QED  BY <1>1, <1>10, <1>11, SameWarehouse, SameJob DEF IInv, TxComplete

LEMMA LogKeeps == ASSUME IInv, LogWindow PROVE IInv'
  <1>1. /\ pc = "apply" /\ applied = Len(Specs) /\ pc' = "commit"
        /\ tx' = [tx EXCEPT !.windows = @ \cup {window}]
        /\ UNCHANGED state /\ UNCHANGED warehouse /\ UNCHANGED window
        /\ UNCHANGED delta /\ UNCHANGED applied
    BY DEF LogWindow
  <1>2. /\ tx = [meta |-> TRUE, windows |-> warehouse.windows, tables |-> tx.tables]
        /\ tx.tables \in [Tables -> Contents \cup {NoTable}]
        /\ \A j \in DOMAIN Specs :
            tx.tables[Specs[j]] = IF j <= applied THEN state[Specs[j]][window + 1]
                                  ELSE warehouse.tables[Specs[j]]
    BY <1>1 DEF IInv, TxHalfway
  <1>3. tx' = [meta |-> TRUE, windows |-> warehouse.windows \cup {window},
               tables |-> tx.tables]
    <2>1. tx \in Views /\ tx.meta = TRUE /\ tx.windows = warehouse.windows
      BY <1>2 DEF IInv, TypeOK
    <2>2. tx' = [tx EXCEPT !.windows = warehouse.windows \cup {window}]
      BY <1>1, <2>1
    <2>3. [tx EXCEPT !.windows = warehouse.windows \cup {window}]
            = [meta |-> TRUE, windows |-> warehouse.windows \cup {window},
               tables |-> tx.tables]
      <3> DEFINE more == warehouse.windows \cup {window}
      <3>1. [tx EXCEPT !.windows = more]
              = [meta |-> tx.meta, windows |-> more, tables |-> tx.tables]
        <4> HIDE DEF more
        <4> QED  BY <2>1, EditView, Zenon
      <3> QED  BY <2>1, <3>1, Zenon
    <2> QED  BY <2>2, <2>3, Zenon
  <1>4. tx'.tables = tx.tables
    BY <1>3
  <1>5. window \in 0 .. LastWindow /\ warehouse.windows \subseteq 0 .. LastWindow
    BY <1>1 DEF IInv, JobIsNext, TypeOK, Views
  <1>6. TypeOK'
    <2>1. tx' \in Views
      BY <1>2, <1>3, <1>5 DEF Views
    <2> QED  BY <1>1, <2>1 DEF IInv, TypeOK
  <1>7. TxComplete'
    <2>1. ASSUME NEW t \in Tables
          PROVE  tx.tables[t] = state[t][window + 1]
      <3>1. PICK j \in DOMAIN Specs : t = Specs[j]
        BY DEF Tables
      <3>2. j <= applied
        BY <1>1, SpecsAssumption
      <3> QED  BY <1>2, <3>1, <3>2
    <2> QED  BY <1>1, <1>2, <1>3, <1>4, <2>1 DEF TxComplete
  <1> QED  BY <1>1, <1>6, <1>7, SameWarehouse, SameJob DEF IInv, TxHalfway

\* The commit takes the warehouse one window on.
LEMMA CommitFacts ==
  ASSUME IInv, Commit
  PROVE  /\ warehouse' = tx /\ tx.meta = TRUE
         /\ tx \in Views
         /\ NextWindow(warehouse) \in 0 .. LastWindow
         /\ tx.windows = warehouse.windows \cup {NextWindow(warehouse)}
         /\ NextWindow(tx) = NextWindow(warehouse) + 1
         /\ tx.windows = 0 .. NextWindow(tx) - 1
         /\ \A t \in Tables : tx.tables[t] = state[t][NextWindow(warehouse) + 1]
  <1> DEFINE k == NextWindow(warehouse)
  <1>1. pc = "commit" /\ warehouse' = tx
    BY DEF Commit
  <1>2. window = k /\ k \in 0 .. LastWindow
    BY <1>1 DEF IInv, JobIsNext
  <1>3. /\ tx = [meta |-> TRUE, windows |-> warehouse.windows \cup {window},
                 tables |-> tx.tables]
        /\ \A t \in Tables : tx.tables[t] = state[t][window + 1]
    BY <1>1 DEF IInv, TxComplete
  <1>4. tx.meta = TRUE /\ tx.windows = warehouse.windows \cup {k}
    BY <1>2, <1>3
  <1>5. warehouse.windows = 0 .. k - 1
    BY DEF IInv, Contiguous
  <1>6. tx.windows = 0 .. (k + 1) - 1
    BY <1>2, <1>4, <1>5, Bounds
  <1>7. NextWindow(tx) = k + 1
    BY <1>2, <1>6, Bounds, NextOfSegment
  <1>8. tx \in Views
    BY DEF IInv, TypeOK
  <1> QED  BY <1>1, <1>2, <1>3, <1>4, <1>6, <1>7, <1>8

LEMMA CommitKeeps == ASSUME IInv, Commit PROVE IInv'
  <1>1. /\ warehouse' = tx /\ pc' = "idle" /\ tx' = Empty
        /\ UNCHANGED state /\ UNCHANGED window /\ UNCHANGED delta /\ UNCHANGED applied
    BY DEF Commit, Idle
  <1>2. NextWindow(warehouse)' = NextWindow(tx)
    BY <1>1
  <1>3. TypeOK'
    BY <1>1, CommitFacts, EmptyIsView DEF IInv, TypeOK
  <1>4. HistoryStands'
    BY <1>1 DEF IInv, HistoryStands
  <1>5. Contiguous'
    <2>1. NextWindow(tx) \in 0 .. LastWindow + 1
      BY CommitFacts, Bounds
    <2> QED  BY <1>1, <1>2, <2>1, CommitFacts DEF Contiguous
  <1>6. AtHorizon'
    BY <1>1, <1>2, CommitFacts DEF AtHorizon
  <1>7. UniqueKeys'
    <2>1. pc = "commit"
      BY DEF Commit
    <2>2. \A t \in Tables : Delivery[t] = "upsert" => KeysUnique(state[t][NextWindow(tx)])
      BY <2>1, CommitFacts DEF IInv, JobIsNext
    <2> QED  BY <1>1, <1>2, <2>2 DEF UniqueKeys, KeysUnique
  <1> QED  BY <1>1, <1>3, <1>4, <1>5, <1>6, <1>7 DEF IInv, JobIsNext, TxHalfway, TxComplete

LEMMA StepIInv == IInv /\ [Next]_vars => IInv'
  <1> SUFFICES ASSUME IInv, [Next]_vars PROVE IInv'
    OBVIOUS
  <1>1. CASE Drained
    BY <1>1, IdleKeeps DEF Drained
  <1>2. CASE RefuseCursor
    BY <1>2, IdleKeeps DEF RefuseCursor
  <1>3. CASE RefuseKey
    BY <1>3, IdleKeeps DEF RefuseKey
  <1>4. CASE Start
    BY <1>4, StartKeeps
  <1>5. CASE Begin
    BY <1>5, BeginKeeps
  <1>6. CASE ApplySpec
    BY <1>6, ApplyKeeps
  <1>7. CASE LogWindow
    BY <1>7, LogKeeps
  <1>8. CASE Commit
    BY <1>8, CommitKeeps
  <1>9. CASE Fail
    BY <1>9, IdleKeeps DEF Fail
  <1>10. CASE CommitFails
    BY <1>10, IdleKeeps DEF CommitFails
  <1>11. CASE Die
    BY <1>11, IdleKeeps DEF Die
  <1>12. CASE UNCHANGED vars
    <2>1. /\ UNCHANGED state /\ UNCHANGED warehouse /\ UNCHANGED tx /\ UNCHANGED pc
          /\ UNCHANGED window /\ UNCHANGED delta /\ UNCHANGED applied
      BY <1>12 DEF vars
    <2>2. TypeOK'
      BY <2>1 DEF IInv, TypeOK
    <2>3. JobIsNext'
      BY <2>1, SameJob DEF JobIsNext
    <2>4. TxHalfway' /\ TxComplete'
      BY <2>1 DEF IInv, TxHalfway, TxComplete
    <2> QED  BY <2>1, <2>2, <2>3, <2>4, SameWarehouse DEF IInv
  <1> QED  BY <1>1, <1>2, <1>3, <1>4, <1>5, <1>6, <1>7, <1>8, <1>9, <1>10, <1>11,
              <1>12 DEF Next, Invocation

\* The invariant holds throughout.
THEOREM Invariant == Spec => []IInv
  BY InitIInv, StepIInv, PTL DEF Spec

-----------------------------------------------------------------------------
(* What it gives.                                                          *)

\* Type correctness; in particular no row ever gets more copies than the full
\* export can have.
THEOREM TypeCorrect == Spec => []TypeOK
  <1>1. IInv => TypeOK
    BY DEF IInv
  <1> QED  BY <1>1, Invariant, PTL

\* After every committed window each table is the full export at its end.
THEOREM WarehouseReconciled == Spec => []Reconciled
  <1>1. IInv => Reconciled
    <2> SUFFICES ASSUME IInv, warehouse.windows # {}
                 PROVE  \A t \in Tables :
                          warehouse.tables[t] = state[t][NextWindow(warehouse)]
      BY DEF Reconciled
    <2>1. warehouse.meta
      BY DEF IInv, AtHorizon, Empty, Foreign
    <2> QED  BY <2>1 DEF IInv, AtHorizon
  <1> QED  BY <1>1, Invariant, PTL

\* Only a commit changes the committed file.
LEMMA OnlyCommitCommits ==
  ASSUME [Next]_vars, warehouse' # warehouse
  PROVE  Commit
  BY DEF Next, Invocation, vars, Drained, RefuseCursor, RefuseKey, Start, Begin,
         ApplySpec, LogWindow, Fail, CommitFails, Die

\* The two together: the warehouse is well formed and reconciled.
THEOREM WarehouseIsSound == Spec => []WarehouseInv
  BY TypeCorrect, WarehouseReconciled, PTL DEF WarehouseInv

\* A warehouse that no drip created is never written to.
THEOREM ForeignStands == Spec => ForeignUntouched
  <1>1. IInv /\ [Next]_vars
          => ((~warehouse.meta /\ warehouse # Empty) => warehouse' = warehouse)
    <2> SUFFICES ASSUME IInv, [Next]_vars, ~warehouse.meta, warehouse' # warehouse
                 PROVE  warehouse = Empty
      OBVIOUS
    <2>1. Commit
      BY OnlyCommitCommits
    <2>2. ~Invalid
      BY <2>1 DEF Commit, IInv, JobIsNext
    <2> QED  BY <2>2, FreshIsEmpty DEF IInv
  <1>2. IInv /\ [Next]_vars
          => [(~warehouse.meta /\ warehouse # Empty) => warehouse' = warehouse]_vars
    BY <1>1
  <1> QED  BY <1>2, Invariant, PTL DEF Spec, ForeignUntouched

LEMMA InitAbstract == Init => Abstract!Init
  <1> SUFFICES ASSUME Init PROVE warehouse.windows = {} /\ NextWindow(warehouse) = 0
    BY DEF Abstract!Init
  <1>1. warehouse \in {Empty, Foreign}
    BY DEF Init
  <1>2. NextWindow(warehouse) = 0
    BY <1>1, NothingKept, Zenon
  <1>3. warehouse.windows = {}
    BY <1>1 DEF Empty, Foreign
  <1> QED  BY <1>2, <1>3

LEMMA StepAbstract == IInv /\ [Next]_vars => [Abstract!Next]_(Abstract!vars)
  <1> SUFFICES ASSUME IInv, [Next]_vars PROVE [Abstract!Next]_(Abstract!vars)
    OBVIOUS
  <1>1. CASE warehouse' = warehouse
    <2>1. NextWindow(warehouse)' = NextWindow(warehouse)
      BY <1>1
    <2> QED  BY <1>1, <2>1 DEF Abstract!vars
  <1>2. CASE warehouse' # warehouse
    <2> DEFINE k == NextWindow(warehouse)
    <2>1. Commit
      BY <1>2, OnlyCommitCommits
    <2>2. /\ warehouse' = tx /\ k \in 0 .. LastWindow
          /\ tx.windows = warehouse.windows \cup {k}
          /\ NextWindow(tx) = k + 1
      BY <2>1, CommitFacts
    <2>3. warehouse.windows = 0 .. k - 1
      BY DEF IInv, Contiguous
    <2>4. k \notin warehouse.windows
      BY <2>2, <2>3, Bounds
    <2>5. NextWindow(warehouse)' = k + 1 /\ (warehouse.windows)' = warehouse.windows \cup {k}
      BY <2>2
    <2>6. Abstract!DeliverAndSettle
      BY <2>2, <2>4, <2>5 DEF Abstract!DeliverAndSettle
    <2> QED  BY <2>6 DEF Abstract!Next
  <1> QED  BY <1>1, <1>2

\* The warehouse refines the abstract drip: each commit delivers and settles the
\* next window, and no other step changes either.
THEOREM WarehouseImplementsDrip == Spec => ImplementsDrip
  BY InitAbstract, StepAbstract, Invariant, PTL DEF Spec, ImplementsDrip, Abstract!Spec
=============================================================================
