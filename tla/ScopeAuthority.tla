--------------------------- MODULE ScopeAuthority ---------------------------
(***************************************************************************)
(* What governed ownership promises of a realm's scopes (byom section 16.6 *)
(* as Kovee freezes it): a scope is opened under a fresh epoch, an epoch   *)
(* takes authority at most once and never after it is spent, and no two    *)
(* overlapping scopes hold authority at the same time.                     *)
(*                                                                         *)
(* Greenfield, which models crates/koveed/src/governance.rs, is shown to   *)
(* implement this module; Formation takes one scope of it as the seam its  *)
(* commands cross.                                                         *)
(***************************************************************************)
EXTENDS Naturals

CONSTANTS
    Scopes,    \* the exact scope selectors of the realm
    Overlap    \* the pairs of distinct scopes that cover a common resource

VARIABLES
    opened,    \* of each scope, the latest epoch
    spent,     \* of each scope, the epochs that can never hold it again
    holder     \* of each scope, the epoch that holds it, or 0

vars == <<opened, spent, holder>>

Init ==
    /\ opened = [s \in Scopes |-> 0]
    /\ spent  = [s \in Scopes |-> {}]
    /\ holder = [s \in Scopes |-> 0]

\* A new epoch, inert, once the one before it is spent.
Open(s) ==
    /\ holder[s] = 0
    /\ opened[s] # 0 => opened[s] \in spent[s]
    /\ opened' = [opened EXCEPT ![s] = @ + 1]
    /\ UNCHANGED <<spent, holder>>

\* The latest epoch takes authority.
Take(s) ==
    /\ holder[s] = 0
    /\ opened[s] # 0 /\ opened[s] \notin spent[s]
    /\ \A t \in Scopes : <<s, t>> \in Overlap => holder[t] = 0
    /\ holder' = [holder EXCEPT ![s] = opened[s]]
    /\ UNCHANGED <<opened, spent>>

\* The latest epoch is rolled back, or disabled.
Spend(s) ==
    /\ opened[s] # 0 /\ opened[s] \notin spent[s]
    /\ spent'  = [spent EXCEPT ![s] = @ \union {opened[s]}]
    /\ holder' = [holder EXCEPT ![s] = 0]
    /\ UNCHANGED opened

Next == \E s \in Scopes : Open(s) \/ Take(s) \/ Spend(s)

Spec == Init /\ [][Next]_vars
=============================================================================
