-------------------------- MODULE MCDripWarehouse ---------------------------
(***************************************************************************)
(* An instance of DripWarehouse with a table of each delivery class:       *)
(* every history of an upsert table over two keys and two values, every    *)
(* history of an append table whose one row may repeat, and two histories  *)
(* of a snapshot table that loses rows.                                    *)
(***************************************************************************)
EXTENDS DripWarehouse, TLC

ThreeTables == <<"dim", "facts", "log">>

ThreeDeliveries == [dim |-> "snapshot", facts |-> "upsert", log |-> "append"]

\* The lawful histories of t whose horizons are taken from contents.
HistoriesOver(t, contents) ==
    {horizon \in {(0 :> Nothing) @@ later : later \in [1 .. LastWindow + 1 -> contents]} :
        Lawful(t, horizon)}

Single == {rows \in Contents : \A r \in Rows : rows[r] <= 1}
Logs == {rows \in Contents : \A r \in Rows \ {<<"a", 1>>} : rows[r] = 0}
Dims == {[Nothing EXCEPT ![<<"a", 1>>] = 2], [Nothing EXCEPT ![<<"a", 1>>] = 1, ![<<"b", 1>>] = 1]}

ThreeHistories ==
    {[dim |-> dim, facts |-> facts, log |-> log] :
        dim \in {horizon \in HistoriesOver("dim", Dims) : horizon[1] # horizon[2]},
        facts \in HistoriesOver("facts", Single),
        log \in HistoriesOver("log", Logs)}
=============================================================================
