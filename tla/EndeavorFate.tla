---------------------------- MODULE EndeavorFate ----------------------------
(***************************************************************************)
(* What a promotion promises of the Endeavors it asks byom for: byom       *)
(* decides each of them once, and Kovee ends one only as byom decided it,  *)
(* or before it ever asked.  No Endeavor that exists, or may still come to *)
(* exist, is given up, and none is linked that does not exist.             *)
(*                                                                         *)
(* Formation, which models crates/koveed/src/formation.rs, is shown to     *)
(* implement this module.                                                  *)
(***************************************************************************)
CONSTANT Formations

VARIABLES
    fate,    \* what became of each: open, committed or denied
    known    \* what Kovee has concluded, for good

vars == <<fate, known>>

Init ==
    /\ fate  = [f \in Formations |-> "open"]
    /\ known = [f \in Formations |-> "open"]

\* byom decides.
Decide(f, what) ==
    /\ fate[f] = "open"
    /\ fate' = [fate EXCEPT ![f] = what]
    /\ UNCHANGED known

\* Kovee gives up what it never asked for.
Forgo(f) ==
    /\ fate[f] = "open"
    /\ fate'  = [fate EXCEPT ![f] = "denied"]
    /\ known' = [known EXCEPT ![f] = "denied"]

\* Kovee concludes as byom decided.
Conclude(f) ==
    /\ known[f] = "open" /\ fate[f] # "open"
    /\ known' = [known EXCEPT ![f] = fate[f]]
    /\ UNCHANGED fate

Next ==
    \E f \in Formations :
        Decide(f, "committed") \/ Decide(f, "denied") \/ Forgo(f) \/ Conclude(f)

Spec == Init /\ [][Next]_vars
=============================================================================
