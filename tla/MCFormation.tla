---------------------------- MODULE MCFormation -----------------------------
(* Small instances of Formation. *)
EXTENDS Formation

CONSTANTS f1, s1, s2, q1, d1, o1, o2

Starts(k, f, o)  == [key |-> k, op |-> "start", formation |-> f, observation |-> o, deny |-> FALSE]
Recovers(k, f, d) == [key |-> k, op |-> "reconcile", formation |-> f, observation |-> o1, deny |-> d]

\* Two starts with different authentications, a reconcile, and one that denies.
OneFormation ==
    {Starts(s1, f1, o1), Starts(s2, f1, o2), Recovers(q1, f1, FALSE), Recovers(d1, f1, TRUE)}
=============================================================================
