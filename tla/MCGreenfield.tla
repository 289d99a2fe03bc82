---------------------------- MODULE MCGreenfield ----------------------------
(* Small instances of Greenfield. *)
EXTENDS Greenfield

CONSTANTS project, space, soc1, soc2, k1, k2, k3

\* A project and a space in it.
Nested == {<<project, space>>, <<space, project>>}

OwnEndpoints == [so \in Societies |-> so]

Request(k, s, so, x, w) == [key |-> k, scope |-> s, society |-> so, expects |-> x, wants |-> w]

\* One key for each scope, and one that claims the project for another Society
\* once the first enablement was rolled back (the owner row is at 1) or
\* disabled (at 3).
ThreeKeys ==
    {Request(k1, project, soc1, 0, 0)}
        \union {Request(k2, space, soc1, x, 0) : x \in {0, 3}}
        \union {Request(k3, project, soc2, x, w) : x \in {1, 3}, w \in {0, 1}}
=============================================================================
