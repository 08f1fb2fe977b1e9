--------------------------- MODULE MCMixerConsumer ---------------------------
(***************************************************************************)
(* Two topics with jumps in event time; one already holds a record when    *)
(* the run begins.                                                         *)
(***************************************************************************)
EXTENDS MixerConsumer, TLC

CONSTANTS a, b

TwoTopics == {a, b}
TwoLogs   == a :> <<1, 2, 6>> @@ b :> <<2, 5>>
OneBefore == a :> 1 @@ b :> 0
AllGating == Topics
TwoSizes  == <<2, 3>>
BothJoins == <<[fact |-> a, dim |-> b], [fact |-> a, dim |-> a]>>
=============================================================================
