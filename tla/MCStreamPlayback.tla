-------------------------- MODULE MCStreamPlayback --------------------------
(***************************************************************************)
(* Two records, two properties and four instants.  Record 1 takes every    *)
(* life and every history; record 2 is there to be ordered against it.     *)
(* The streams overlap, and their change scopes cover what they show, or   *)
(* more, or less.                                                          *)
(***************************************************************************)
EXTENDS StreamPlayback, TLC

CONSTANTS p, q

Both == {p, q}

Lives == {life \in {0, 1} \X ({1, 3} \cup {Never}) : life[2] # Never => life[1] <= life[2]}

Alive(life) == life[1] .. (IF life[2] = Never THEN LastTime ELSE life[2])

Histories(life) ==
    [Both -> {{life[1]} \cup later : later \in SUBSET (Alive(life) \ {life[1]})}]

Tape(life1, history1, life2, history2) ==
    [created     |-> 1 :> life1[1] @@ 2 :> life2[1],
     deactivated |-> 1 :> life1[2] @@ 2 :> life2[2],
     written     |-> 1 :> history1 @@ 2 :> history2]

Others == {<<1, Never>>, <<0, 1>>}

AllTapes ==
    UNION {{Tape(life, history, other, [x \in Both |-> Alive(other)]) :
        history \in Histories(life), other \in Others} : life \in Lives}

Stream(selected, shown, scope) ==
    [selected |-> selected, properties |-> shown, scope |-> scope]

\* The default scope, a narrower one, and one that covers no more than is shown.
AllConfigs ==
    {1 :> Stream({1, 2}, {p}, scope) @@ 2 :> Stream({1}, Both, other) :
        scope \in {Both, {p}}, other \in {Both, {q}}}
=============================================================================
