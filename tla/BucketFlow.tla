----------------------------- MODULE BucketFlow -----------------------------
(***************************************************************************)
(* What Kovee's capacity ledger promises, before any reservation exists.   *)
(* A ledger row, one per (account, dimension), has a ceiling and five      *)
(* buckets; a transition moves quantity along a fixed set of pipes and     *)
(* never along any other:                                                  *)
(*                                                                         *)
(*      grant --> remaining <--> reserved --> committed                    *)
(*                 |  ^  ^           |                                     *)
(*                 v  |  |           v                                     *)
(*              delegated +------ uncertain                                *)
(*                                                                         *)
(* `committed` has no way out.  CapacityLedger, which models               *)
(* crates/koveed/src/budget.rs, is shown to implement this module.         *)
(***************************************************************************)
EXTENDS Integers

CONSTANT Rows   \* the (account, dimension) pairs that can hold capacity

VARIABLE ledger

Buckets == {"remaining", "reserved", "committed", "uncertain", "delegated"}
Fields  == Buckets \union {"ceiling"}

Init == ledger = [r \in Rows |-> [f \in Fields |-> 0]]

Pipes ==
    { <<"remaining", "reserved">>,  <<"reserved",  "remaining">>,
      <<"reserved",  "committed">>, <<"reserved",  "uncertain">>,
      <<"uncertain", "remaining">>, <<"remaining", "delegated">>,
      <<"delegated", "remaining">> }

\* Some quantity, never a negative one, runs down one pipe of row r.
Pour(r) ==
    \E p \in Pipes :
        LET n == ledger[r][p[1]] - ledger'[r][p[1]]
        IN  /\ n >= 0
            /\ ledger'[r] = [ledger[r] EXCEPT ![p[1]] = @ - n, ![p[2]] = @ + n]

\* A grant raises the ceiling and `remaining` together; the rollup of a child
\* account lowers both together.  A row nobody touches is resized by zero.
Resize(r) ==
    LET n == ledger'[r]["ceiling"] - ledger[r]["ceiling"]
    IN  ledger'[r] = [ledger[r] EXCEPT !["ceiling"] = @ + n, !["remaining"] = @ + n]

Next == \A r \in Rows : Pour(r) \/ Resize(r)

Spec == Init /\ [][Next]_ledger
=============================================================================
