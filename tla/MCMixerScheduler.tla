-------------------------- MODULE MCMixerScheduler --------------------------
(* Small instances of MixerScheduler for TLC.                              *)
EXTENDS MixerScheduler

CONSTANTS a, b

(* Two streams whose events interleave, with two events at one time.       *)
TwoTopics   == {a, b}
TwoInOrder  == <<a, b>>
ShortTapes  == [t \in TwoTopics |-> IF t = a THEN <<0, 2>> ELSE <<1>>]
=============================================================================
