--------------------------- MODULE MCDripWindows ----------------------------
(***************************************************************************)
(* Days of four hours, weeks of three days, months of unequal length that  *)
(* repeat; a change of one hour either way at every hour of the second and *)
(* third day and at each midnight, or none.                                *)
(***************************************************************************)
EXTENDS DripWindows

Months == {0, 3, 5}

Changes == [at : 4 .. 12, shift : {-1, 1}] \cup {[at |-> 0, shift |-> 0]}

Origins == 0 .. 9

Ends == 0 .. 13
=============================================================================
