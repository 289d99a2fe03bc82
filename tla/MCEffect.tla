------------------------------ MODULE MCEffect ------------------------------
(* A small instance of ModelEffect. *)
EXTENDS ModelEffect

CONSTANTS a1, a2, p1, p2

\* The request the act is for; the same words under another limit; other
\* words; and a limit the profile does not allow.
Calls == {[prompt |-> p1, cap |-> 1], [prompt |-> p1, cap |-> 2],
          [prompt |-> p2, cap |-> 1], [prompt |-> p1, cap |-> 3]}

AllP1 == [a \in Acts |-> p1]
=============================================================================
