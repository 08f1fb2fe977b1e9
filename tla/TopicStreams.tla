---------------------------- MODULE TopicStreams ----------------------------
(***************************************************************************)
(* What the mixer promises to whoever reads its topics: the log of every   *)
(* topic only ever grows, one event at a time, by the next event of that   *)
(* topic's tape.  Nothing is skipped, repeated, reordered or invented; the *)
(* order between two topics is free, and delivery may stop at any point.   *)
(***************************************************************************)
EXTENDS Naturals, Sequences

CONSTANTS
    Topics,     \* the routed topics
    Tape        \* Tape[t]: the events of topic t, in the order of their seq

VARIABLE arrived    \* arrived[t]: what the log of topic t holds so far

StreamsInit == arrived = [t \in Topics |-> << >>]

(* The next event of topic t reaches its log.                              *)
Arrive(t) ==
    /\ Len(arrived[t]) < Len(Tape[t])
    /\ arrived' = [arrived EXCEPT ![t] = Append(@, Tape[t][Len(@) + 1])]

StreamsNext == \E t \in Topics : Arrive(t)

StreamsSpec == StreamsInit /\ [][StreamsNext]_arrived
=============================================================================
