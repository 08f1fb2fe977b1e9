-------------------------------- MODULE Drip --------------------------------
(***************************************************************************)
(* What an incremental drip promises its consumer, whatever the output     *)
(* format.  The windows 0 .. LastWindow of one run are delivered one at a  *)
(* time and in order: a window is settled only once it is visible, settled *)
(* windows never leave, and the one window that may be visible without     *)
(* being settled is the next one, which may be withdrawn and delivered     *)
(* again.  DripCsv and DripWarehouse implement it.                         *)
(***************************************************************************)
EXTENDS Naturals

CONSTANT LastWindow     \* index of the last window with start_ns <= slice_at

VARIABLES
    visible,            \* windows a consumer of the target can read, whole
    settled             \* windows the cursor of record has moved past

vars == <<visible, settled>>

Init == visible = {} /\ settled = 0

Deliver ==
    /\ settled \in (0 .. LastWindow) \ visible
    /\ visible' = visible \cup {settled}
    /\ UNCHANGED settled

\* A re-run of an interrupted invocation replaces the window it left behind.
Withdraw ==
    /\ settled \in visible
    /\ visible' = visible \ {settled}
    /\ UNCHANGED settled

Settle ==
    /\ settled \in visible
    /\ settled' = settled + 1
    /\ UNCHANGED visible

\* Data and cursor in one transaction.
DeliverAndSettle ==
    /\ settled \in (0 .. LastWindow) \ visible
    /\ visible' = visible \cup {settled}
    /\ settled' = settled + 1

\* Deleting the target is the one way back to the start.
Reset == visible' = {} /\ settled' = 0

Next == Deliver \/ Withdraw \/ Settle \/ DeliverAndSettle \/ Reset

Spec == Init /\ [][Next]_vars
=============================================================================
