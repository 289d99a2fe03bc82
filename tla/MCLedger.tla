------------------------------ MODULE MCLedger ------------------------------
(* Small instances of CapacityLedger. *)
EXTENDS CapacityLedger

CONSTANTS k1, k2, calls, tokens

\* Two reservations whose byom parents are worth 2 each, against a realm that
\* is granted 3: the second one may or may not fit.
ParentOfTwo == [k \in Keys |-> [d \in Dims |-> 2]]

\* For properties that do not look at the events: the steps do not look at
\* them either, so states that differ only in `announced` are one state.
WithoutEvents == <<accountVars, recordVars, holdVars, saga, handler>>
============================================================================
