------------------------------ MODULE MCEpisode ------------------------------
(* Small instances of EpisodeTail. *)
EXTENDS EpisodeTail

CONSTANTS e1, e2, unit

\* byom parents worth 4, so each Episode's items are narrowed to 2.
ParentOfFour == [k \in Keys |-> [d \in Dims |-> 4]]

\* ... and worth 2: one Episode's items are 1, all the capacity there is.
ParentOfTwo == [k \in Keys |-> [d \in Dims |-> 2]]

\* Every settlement key of every Episode; no model calls; or a model call of
\* one Episode only.
AllSagas      == Keys \X {"attempt", "model", "complete", "terminal"}
OneModelSagas == Keys \X {"complete", "terminal"} \union {<<e1, "model">>}
NoModelSagas  == Keys \X {"attempt", "complete", "terminal"}

\* The steps do not look at the events: see MCLedger!WithoutEvents.
WithoutEvents ==
    <<accountVars, recordVars, holdVars, saga, handler, created, localVars, sweepVars,
      call, byomVars>>
==============================================================================
