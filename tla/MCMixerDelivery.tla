--------------------------- MODULE MCMixerDelivery ---------------------------
(* Two topics; the first has events on both sides of the second's.         *)
EXTENDS MixerDelivery

CONSTANTS a, b

MCTopics == {a, b}
MCFeed   == <<a, b, a, a>>
AllFaults == {"broker", "consume", "close", "open"}
=============================================================================
