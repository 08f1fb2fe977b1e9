----------------------------- MODULE MCDripCsv ------------------------------
(***************************************************************************)
(* Instances of DripCsv: two configurations of one anchor date and one of  *)
(* another, so that labels both can and cannot tell configurations apart.  *)
(***************************************************************************)
EXTENDS DripCsv

CONSTANTS june, juneEdited, july

ThreeConfigs == {june, juneEdited, july}

AnchorDates == [c \in Configs |-> IF c = july THEN "July" ELSE "June"]
=============================================================================
