----------------------------- MODULE EpisodeTail -----------------------------
(***************************************************************************)
(* An Episode's life on Kovee's side of the boundary to byom, from its     *)
(* admission to the release of its capacity: the pipeline operations of    *)
(* crates/koveed/src/episode.rs, the metering of model_broker.rs and the   *)
(* start-up reconciliation of dispatch.rs, over CapacityLedger.            *)
(*                                                                         *)
(* Every key of the ledger is one Episode: its reservation, its binding    *)
(* and its byom bridge.  The daemon runs one operation at a time; `call`   *)
(* is the running operation and the step it has reached, each step one SQL *)
(* transaction or one call to byom, and a Crash may fall between any two.  *)
(* Every step waits until the ledger's own transactions are through        *)
(* (handler = Idle).                                                       *)
(*                                                                         *)
(* byom is external: what is here is what the code relies on.  A bridge is *)
(* settled once and then replays its charge; terminalizing a bridge that   *)
(* was never settled charges its conservative maximum; a terminal Episode  *)
(* has no workload token, so it answers nothing.  A call may go unanswered *)
(* (bpp.rs gives up after CALL_TIMEOUT) and be processed later, or never.  *)
(***************************************************************************)
EXTENDS CapacityLedger, Sequences

CONSTANTS
    Unit,       \* the one dimension Episodes are metered in
    Usages      \* what one model call may be measured to have used

ASSUME UnitAssumption  == Dims = {Unit}
ASSUME SagasAssumption ==
    /\ Keys \X {"complete", "terminal"} \subseteq Sagas
    /\ Sagas \subseteq Keys \X {"attempt", "model", "complete", "terminal"}
ASSUME UsageAssumption == Usages \subseteq Nat

VARIABLES
    created,      \* the rows of kovee_settlement_saga, in the order of created_at
    binding,      \* byom_episode_bindings.state
    tail,         \* kovee_episode_terminal_saga.phase
    effect,       \* model_effects.state of the Episode's one model call
    spent,        \* the usage that call was measured to have had
    reported,     \* is that usage a row of model_usage_reports?
    mode,         \* where the daemon is: down, sweeping, or serving
    sagasToDo,    \* unresolved_sagas the start-up sweep has not come to
    tailsToDo,    \* unfinished_tails it has not come to
    call,         \* the running operation
    bridge,       \* byom: the ExternalBudgetBridge
    byomCharged,  \* byom: what its settlement charged
    terminal,     \* byom: the Episode is terminal, its tokens withdrawn
    late,         \* byom: settlements asked for and not answered
    lateComplete  \* byom: an episode_complete asked for and not answered

sagaVars  == <<ledgerVars, created>>
localVars == <<binding, tail, effect, spent, reported>>
sweepVars == <<mode, sagasToDo, tailsToDo>>
byomVars  == <<bridge, byomCharged, terminal, late, lateComplete>>
vars      == <<sagaVars, localVars, sweepVars, call, byomVars>>

NoAnswer == [is |-> "none", charge |-> 0]
NoCall   == [op |-> "none", key |-> None, kind |-> "none", charge |-> 0,
             step |-> "none", from |-> "none", answer |-> NoAnswer]

TailPhase == {"none", "settling", "peer_pending", "releasing", "done", "abandoned"}
Unfinished == {"settling", "peer_pending", "releasing"}

EpisodeInit ==
    /\ LedgerInit
    /\ created      = <<>>
    /\ binding      = [e \in Keys |-> "none"]
    /\ tail         = [e \in Keys |-> "none"]
    /\ effect       = [e \in Keys |-> "none"]
    /\ spent        = [e \in Keys |-> 0]
    /\ reported     = [e \in Keys |-> FALSE]
    /\ mode         = "down"
    /\ sagasToDo    = {}
    /\ tailsToDo    = {}
    /\ call         = NoCall
    /\ bridge       = [e \in Keys |-> "none"]
    /\ byomCharged  = [e \in Keys |-> 0]
    /\ terminal     = [e \in Keys |-> FALSE]
    /\ late         = [e \in Keys |-> {}]
    /\ lateComplete = [e \in Keys |-> FALSE]

Serving == mode = "serving" /\ call = NoCall /\ handler = Idle
At(step) == call.step = step /\ handler = Idle
Goto(step) == call' = [call EXCEPT !.step = step]
Return == call' = NoCall

-----------------------------------------------------------------------------
(* byom.                                                                   *)

\* The bridge settles once: at the first charge it admits.
SettleBridge(e, c) ==
    /\ bridge[e] = "confirmed"
    /\ ~terminal[e]
    /\ bridge'      = [bridge EXCEPT ![e] = "settled"]
    /\ byomCharged' = [byomCharged EXCEPT ![e] = c]
    /\ late'        = [late EXCEPT ![e] = {}]
    /\ UNCHANGED <<terminal, lateComplete>>

\* Terminal: a settled bridge releases its remainder, any other is charged
\* the conservative maximum c.
Terminalize(e, c) ==
    /\ ~terminal[e]
    /\ terminal' = [terminal EXCEPT ![e] = TRUE]
    /\ IF bridge[e] = "settled"
       THEN c = byomCharged[e] /\ UNCHANGED <<bridge, byomCharged>>
       ELSE /\ bridge'      = [bridge EXCEPT ![e] = "maxed"]
            /\ byomCharged' = [byomCharged EXCEPT ![e] = c]
    /\ late'         = [late EXCEPT ![e] = {}]
    /\ lateComplete' = [lateComplete EXCEPT ![e] = FALSE]

\* What a terminal Episode may have been charged: what its bridge settled at,
\* or a maximum between the subordinate's items and the parent's worst case.
TerminalCharges(e) ==
    IF bridge[e] = "settled" THEN {byomCharged[e]}
    ELSE amount[e][Unit] .. ParentItem[e][Unit]

\* A request whose caller gave up, or died, is processed after all.
ByomCatchesUp(e) ==
    /\ \/ \E c \in late[e] : SettleBridge(e, c)
       \/ /\ lateComplete[e]
          /\ \E c \in TerminalCharges(e) : Terminalize(e, c)
    /\ UNCHANGED <<sagaVars, localVars, sweepVars, call>>

-----------------------------------------------------------------------------
(* Admission and binding.                                                  *)

\* admit: the items are narrowed and the reservation committed first; a retry
\* narrows again, against what is left now, and finds the reservation.
Admit(e) ==
    /\ Serving
    /\ bridge[e] = "none"
    /\ Narrows(e)
    /\ IF state[e] = "absent" THEN Reserve(e, Realm, Narrowed(e)) ELSE UNCHANGED ledgerVars
    /\ call' = [NoCall EXCEPT !.op = "admit", !.key = e, !.step = "admit"]
    /\ UNCHANGED <<created, localVars, sweepVars, byomVars>>

\* placement_admit carries the outcome `confirmed`, whatever state the row is
\* in.  Lost, it is asked again under the same key.
PlacementAdmit(e) ==
    /\ At("admit") /\ call.key = e
    /\ \/ bridge' = [bridge EXCEPT ![e] = "confirmed"]
       \/ UNCHANGED bridge
    /\ Return
    /\ UNCHANGED <<sagaVars, localVars, sweepVars, byomCharged, terminal, late, lateComplete>>

\* episode_claim, answered, and the binding at that CAS.
Bind(e) ==
    /\ Serving
    /\ bridge[e] = "confirmed"
    /\ binding[e] = "none"
    /\ binding' = [binding EXCEPT ![e] = "bound"]
    /\ UNCHANGED <<sagaVars, tail, effect, spent, reported, sweepVars, call, byomVars>>

\* fenced_mutation, the stale half: any operation that presents a stale fence
\* pair fences the binding and does nothing else.
Fence(e) ==
    /\ Serving
    /\ binding[e] = "bound"
    /\ binding' = [binding EXCEPT ![e] = "fenced"]
    /\ UNCHANGED <<sagaVars, tail, effect, spent, reported, sweepVars, call, byomVars>>

-----------------------------------------------------------------------------
(* One settlement across the boundary.                                     *)

\* settle_begin admits the charge, or finds the same settlement recorded.
Begins(s, c) ==
    IF saga[s].phase # "none" THEN saga[s].charge = c
    ELSE /\ state[s[1]] = "confirmed"
         /\ WithinItems(s[1], Unit, c)
         /\ Fits(c, HeldIn(s[1], Unit))

Begin(s, c) ==
    IF saga[s].phase # "none" THEN UNCHANGED sagaVars
    ELSE SettleBegin(s, s[1], Unit, c) /\ created' = Append(created, s)

Asking(op, e, kind, c) ==
    [NoCall EXCEPT !.op = op, !.key = e, !.kind = kind, !.charge = c, !.step = "ask"]

\* settle: the attempt's own measured charge.
Settle(e, c) ==
    /\ Serving
    /\ binding[e] = "bound"
    /\ <<e, "attempt">> \in Sagas
    /\ Begins(<<e, "attempt">>, c)
    /\ Begin(<<e, "attempt">>, c)
    /\ call' = Asking("settle", e, "attempt", c)
    /\ UNCHANGED <<localVars, sweepVars, byomVars>>

\* dispatch_effect: the attempt is `dispatching` before the socket opens.
ModelCall(e) ==
    /\ Serving
    /\ binding[e] = "bound"
    /\ <<e, "model">> \in Sagas
    /\ effect[e] = "none"
    /\ effect' = [effect EXCEPT ![e] = "dispatching"]
    /\ call' = [NoCall EXCEPT !.op = "meter", !.key = e, !.kind = "model",
                              !.step = "dispatch"]
    /\ UNCHANGED <<sagaVars, binding, tail, spent, reported, sweepVars, byomVars>>

\* The exchange: an observed outcome has a usage and goes on to be metered; an
\* ambiguous one is not reported at all.
Exchange ==
    LET e == call.key
    IN  /\ At("dispatch")
        /\ \/ \E u \in Usages :
                 /\ effect' = [effect EXCEPT ![e] = "observed"]
                 /\ spent'  = [spent EXCEPT ![e] = u]
                 /\ call'   = [call EXCEPT !.step = "meter", !.charge = u]
           \/ /\ effect' = [effect EXCEPT ![e] = "ambiguous"]
              /\ Return
              /\ UNCHANGED spent
        /\ UNCHANGED <<sagaVars, binding, tail, reported, sweepVars, byomVars>>

\* Mutant: whatever refuses the settlement, the report still goes to byom.
ReportRefused ==
    LET s == <<call.key, call.kind>>
    IN  /\ At("meter")
        /\ \/ /\ Begins(s, call.charge)
              /\ Begin(s, call.charge)
              /\ Goto("ask")
           \/ /\ ~Begins(s, call.charge)
              /\ UNCHANGED sagaVars
              /\ call' = [call EXCEPT !.op = "evidence", !.step = "ask"]
        /\ UNCHANGED <<localVars, sweepVars, byomVars>>

\* report_usage begins the settlement; a reservation that is not confirmed
\* makes the report evidence, which goes to byom all the same; any other
\* refusal is returned, and the usage is not reported.
ReportUsage ==
    LET s == <<call.key, call.kind>>
    IN  /\ At("meter")
        /\ \/ /\ Begins(s, call.charge)
              /\ Begin(s, call.charge)
              /\ Goto("ask")
           \/ /\ state[call.key] # "confirmed"
              /\ UNCHANGED sagaVars
              /\ call' = [call EXCEPT !.op = "evidence", !.step = "ask"]
           \/ /\ state[call.key] = "confirmed"
              /\ ~Begins(s, call.charge)
              /\ UNCHANGED sagaVars
              /\ Return
        /\ UNCHANGED <<localVars, sweepVars, byomVars>>

Answered(is, c) ==
    call' = [call EXCEPT !.step = "apply", !.answer = [is |-> is, charge |-> c]]

\* report_and_resolve: byom settles, replays, refuses or stays silent.
AskSettlement ==
    LET e == call.key
    IN  /\ At("ask")
        /\ \/ SettleBridge(e, call.charge) /\ Answered("settled", call.charge)
           \/ /\ bridge[e] = "settled" /\ ~terminal[e]
              /\ Answered("settled", byomCharged[e])
              /\ UNCHANGED byomVars
           \/ /\ bridge[e] = "confirmed" /\ ~terminal[e]
              /\ Answered("denied", 0)
              /\ UNCHANGED byomVars
           \/ /\ ~terminal[e]
              /\ Answered("unknown", 0)
              /\ late' = IF bridge[e] = "confirmed"
                         THEN [late EXCEPT ![e] = @ \union {call.charge}] ELSE late
              /\ UNCHANGED <<bridge, byomCharged, terminal, lateComplete>>
           \/ /\ terminal[e]
              /\ Answered("no_token", 0)
              /\ UNCHANGED byomVars
        /\ UNCHANGED <<sagaVars, localVars, sweepVars>>

\* Where an operation goes when its settlement is settled on both sides.
StepAfterSettled ==
    CASE call.kind = "terminal"              -> "release"
      [] call.op \in {"complete", "resume"}  -> "settled"
      [] call.op = "meter"                   -> "report"
      [] OTHER                               -> "none"

Proceed(step) == IF step = "none" THEN Return ELSE Goto(step)

\* The error path: a resumed tail is stamped with the phase it was found in.
Fail ==
    /\ tail' = IF call.op = "resume" THEN [tail EXCEPT ![call.key] = call.from] ELSE tail
    /\ Return

\* Mutant: what was asked is applied, not what byom answered.
ApplyAsked ==
    LET s == <<call.key, call.kind>>
        c == call.charge
    IN  /\ At("apply")
        /\ call.op # "evidence"
        /\ call.answer.is = "settled"
        /\ \/ state[call.key] = "settled" /\ UNCHANGED ledgerVars
           \/ SettleCommit(s, c)
        /\ Proceed(StepAfterSettled)
        /\ UNCHANGED <<created, localVars, sweepVars, byomVars>>

\* settle_commit is Ok for a settled reservation, and then leaves its saga row
\* as it is; an error of it ends a whole reconciliation sweep.
ApplySettled ==
    LET s == <<call.key, call.kind>>
        c == call.answer.charge
    IN  /\ At("apply")
        /\ call.op # "evidence"
        /\ call.answer.is = "settled"
        /\ \/ /\ \/ state[call.key] = "settled" /\ UNCHANGED ledgerVars
                 \/ SettleCommit(s, c)
              /\ Proceed(StepAfterSettled)
              /\ UNCHANGED <<tail, sagasToDo>>
           \/ /\ PeerAboveCap(s, c)
              /\ Fail
              /\ sagasToDo' = IF call.op = "sweep" THEN {} ELSE sagasToDo
        /\ UNCHANGED <<created, binding, effect, spent, reported, mode, tailsToDo, byomVars>>

\* Mutant: an unknown outcome makes the reservation uncertain as well.
ApplyUncertain ==
    LET s == <<call.key, call.kind>>
    IN  /\ At("apply")
        /\ call.op # "evidence"
        /\ \/ call.answer.is = "denied" /\ SettleDenied(s)
           \/ call.answer.is = "unknown" /\ MarkUncertain(call.key)
           \/ call.answer.is = "no_token" /\ UNCHANGED ledgerVars
        /\ Fail
        /\ UNCHANGED <<created, binding, effect, spent, reported, sweepVars, byomVars>>

\* A definite refusal, an unknown outcome, or no token to ask with.  A metered
\* report byom kept as evidence is still recorded as a report.
ApplyUnsettled ==
    LET s == <<call.key, call.kind>>
    IN  /\ At("apply")
        /\ call.op # "evidence"
        /\ \/ call.answer.is = "denied" /\ SettleDenied(s)
           \/ call.answer.is = "unknown" /\ SettleUnknown(s)
           \/ call.answer.is = "no_token" /\ call.op = "sweep" /\ SettleUnknown(s)
           \/ call.answer.is = "no_token" /\ call.op # "sweep" /\ UNCHANGED ledgerVars
        /\ IF call.op = "meter" /\ call.answer.is = "denied"
           THEN Goto("report") /\ UNCHANGED tail
           ELSE Fail
        /\ UNCHANGED <<created, binding, effect, spent, reported, sweepVars, byomVars>>

\* A report without a local settlement changes nothing but its own row.
ApplyEvidence ==
    /\ At("apply")
    /\ call.op = "evidence"
    /\ IF call.answer.is \in {"settled", "denied"} THEN Goto("report") ELSE Return
    /\ UNCHANGED <<sagaVars, localVars, sweepVars, byomVars>>

\* The row of model_usage_reports.
RecordReport ==
    /\ At("report")
    /\ reported' = [reported EXCEPT ![call.key] = TRUE]
    /\ Return
    /\ UNCHANGED <<sagaVars, binding, tail, effect, spent, sweepVars, byomVars>>

-----------------------------------------------------------------------------
(* The terminal tail.                                                      *)

MeteredTotal(e) == IF reported[e] THEN spent[e] ELSE 0

\* complete: tail_begin opens the tail, or reopens it where it begins.
Complete(e) ==
    /\ Serving
    /\ binding[e] = "bound"
    /\ tail' = [tail EXCEPT ![e] = "settling"]
    /\ call' = [NoCall EXCEPT !.op = "complete", !.key = e, !.kind = "complete",
                              !.step = "settle", !.from = "settling"]
    /\ UNCHANGED <<sagaVars, binding, effect, spent, reported, sweepVars, byomVars>>

\* terminal_settlement: only a confirmed reservation has anything to settle,
\* at what the meter has measured; zero is a measurement.
TerminalSettlement ==
    LET s == <<call.key, "complete">>
        c == MeteredTotal(call.key)
    IN  /\ At("settle")
        /\ \/ /\ state[call.key] # "confirmed"
              /\ Goto("settled")
              /\ UNCHANGED <<sagaVars, tail>>
           \/ /\ state[call.key] = "confirmed"
              /\ Begins(s, c)
              /\ Begin(s, c)
              /\ call' = [call EXCEPT !.step = "ask", !.charge = c]
              /\ UNCHANGED tail
           \/ /\ state[call.key] = "confirmed"
              /\ ~Begins(s, c)
              /\ Fail
              /\ UNCHANGED sagaVars
        /\ UNCHANGED <<binding, effect, spent, reported, sweepVars, byomVars>>

\* settled locally; byom has not been asked to terminalize yet
TailSettled ==
    /\ At("settled")
    /\ tail' = [tail EXCEPT ![call.key] = "peer_pending"]
    /\ Goto("terminalize")
    /\ UNCHANGED <<sagaVars, binding, effect, spent, reported, sweepVars, byomVars>>

\* Mutant: a resume asks byom like anybody else, and gives up like anybody else.
LicensedNever(e) == FALSE

\* byom's silence is a state answer only to a tail resumed past its
\* settlement, and only if this side has settled.
Licensed(e) == call.from # "settling" /\ state[e] \in {"settled", "released"}

\* episode_complete: answered with what byom charged, or not answered.
AskComplete ==
    LET e == call.key
    IN  /\ At("terminalize")
        /\ \/ /\ \E c \in TerminalCharges(e) :
                    /\ Terminalize(e, c)
                    /\ call' = [call EXCEPT !.step = "unbind",
                                   !.answer = [is |-> bridge'[e], charge |-> c]]
              /\ UNCHANGED tail
           \/ /\ lateComplete' = [lateComplete EXCEPT ![e] = ~terminal[e]]
              /\ IF Licensed(e) THEN Goto("unbind") /\ UNCHANGED tail ELSE Fail
              /\ UNCHANGED <<bridge, byomCharged, terminal, late>>
        /\ UNCHANGED <<sagaVars, binding, effect, spent, reported, sweepVars>>

\* Mutant: the phase is advanced and the binding left for later.
UnbindPhaseOnly ==
    /\ At("unbind")
    /\ tail' = [tail EXCEPT ![call.key] = "releasing"]
    /\ Goto(IF call.answer.is = "maxed" THEN "adopt" ELSE "release")
    /\ UNCHANGED <<sagaVars, binding, effect, spent, reported, sweepVars, byomVars>>

\* Mutant: nobody looks at how byom terminalized.
UnbindUnread ==
    /\ At("unbind")
    /\ binding' = [binding EXCEPT ![call.key] = "released"]
    /\ tail'    = [tail EXCEPT ![call.key] = "releasing"]
    /\ Goto("release")
    /\ UNCHANGED <<sagaVars, effect, spent, reported, sweepVars, byomVars>>

\* The binding is released and the phase advanced in one transaction,
\* whatever state the binding was in.
Unbind ==
    /\ At("unbind")
    /\ binding' = [binding EXCEPT ![call.key] = "released"]
    /\ tail'    = [tail EXCEPT ![call.key] = "releasing"]
    /\ Goto(IF call.answer.is = "maxed" THEN "adopt" ELSE "release")
    /\ UNCHANGED <<sagaVars, effect, spent, reported, sweepVars, byomVars>>

\* adopt_terminal_charge: byom's maximum is applied through this side's cap
\* or, when the cap refuses it, the capacity stays held.
Adopt ==
    LET s == <<call.key, "terminal">>
        c == call.answer.charge
    IN  /\ At("adopt")
        /\ IF Begins(s, c)
           THEN /\ Begin(s, c)
                /\ call' = [call EXCEPT !.kind = "terminal", !.step = "apply",
                               !.answer = [is |-> "settled", charge |-> c]]
                /\ UNCHANGED tail
           ELSE /\ Fail
                /\ UNCHANGED sagaVars
        /\ UNCHANGED <<binding, effect, spent, reported, sweepVars, byomVars>>

\* Mutant: the tail closes over whatever is still held.
ReleaseNothing ==
    /\ At("release")
    /\ Goto("close")
    /\ UNCHANGED <<sagaVars, localVars, sweepVars, byomVars>>

\* A released reservation has nothing more to release; an uncertain one is
\* left to the R38 seat, and the tail goes on.
ReleaseRemainder ==
    /\ At("release")
    /\ IF state[call.key] \in {"absent", "uncertain", "released"}
       THEN UNCHANGED ledgerVars ELSE Release(call.key)
    /\ Goto("close")
    /\ UNCHANGED <<created, localVars, sweepVars, byomVars>>

\* Mutant: the tail is closed with the binding's word.
CloseReleased ==
    /\ At("close")
    /\ tail' = [tail EXCEPT ![call.key] = "released"]
    /\ Return
    /\ UNCHANGED <<sagaVars, binding, effect, spent, reported, sweepVars, byomVars>>

\* Only now is the tail closed.
CloseTail ==
    /\ At("close")
    /\ tail' = [tail EXCEPT ![call.key] = "done"]
    /\ Return
    /\ UNCHANGED <<sagaVars, binding, effect, spent, reported, sweepVars, byomVars>>

-----------------------------------------------------------------------------
(* The daemon.                                                             *)

\* The process dies wherever it is.
Die ==
    /\ mode # "down"
    /\ mode'      = "down"
    /\ sagasToDo' = {}
    /\ tailsToDo' = {}
    /\ handler'   = Idle
    /\ Return
    /\ UNCHANGED <<created, accountVars, recordVars, holdVars, saga, announced,
                   localVars, byomVars>>

Unresolved == {s \in Sagas : saga[s].phase \in {"remote_pending", "unknown"}}
UnfinishedTails == {e \in Keys : tail[e] \in Unfinished}

\* Daemon::new: a model call the process died in is ambiguous, the realm has
\* its ceiling, then the sweeps; without a byom runtime the sweeps are deferred
\* to the next start.
Start ==
    /\ mode = "down"
    /\ \E c \in Ceilings :
          \/ Grant(Unit, c)
          \/ /\ <<Realm, Unit>> \in opened
             /\ ledger[<<Realm, Unit>>]["ceiling"] >= c
             /\ UNCHANGED ledgerVars
    /\ effect' = [e \in Keys |-> IF effect[e] = "dispatching" THEN "ambiguous" ELSE effect[e]]
    /\ \/ mode' = "settlements" /\ sagasToDo' = Unresolved
       \/ mode' = "serving" /\ UNCHANGED sagasToDo
    /\ UNCHANGED <<created, tailsToDo, binding, tail, spent, reported, call, byomVars>>

\* No other row of S is older than s.
Oldest(s, S) ==
    \E n \in DOMAIN created : created[n] = s /\ \A m \in 1 .. n - 1 : created[m] \notin S

\* reconcile_settlements: each unresolved row is asked about again, oldest
\* first, under the same key and with the charge it recorded.
SweepSaga ==
    /\ mode = "settlements" /\ call = NoCall /\ handler = Idle
    /\ \E s \in sagasToDo :
          /\ Oldest(s, sagasToDo)
          /\ call' = Asking("sweep", s[1], s[2], saga[s].charge)
          /\ sagasToDo' = sagasToDo \ {s}
    /\ UNCHANGED <<sagaVars, localVars, mode, tailsToDo, byomVars>>

\* reconcile_terminations starts, whatever the first sweep came to.
SweepTails ==
    /\ mode = "settlements" /\ call = NoCall /\ handler = Idle
    /\ sagasToDo = {}
    /\ mode' = "tails"
    /\ tailsToDo' = UnfinishedTails
    /\ UNCHANGED <<sagaVars, localVars, sagasToDo, call, byomVars>>

\* Mutant: a tail stays on the list until it is done.
ResumeUntilDone ==
    /\ mode = "tails" /\ call = NoCall /\ handler = Idle
    /\ \E e \in tailsToDo :
          /\ tailsToDo' = IF tail[e] = "done" THEN tailsToDo \ {e} ELSE tailsToDo
          /\ call' = [NoCall EXCEPT
                !.op = "resume", !.key = e, !.kind = "complete", !.from = tail[e],
                !.step = IF tail[e] = "settling" THEN "settle" ELSE "terminalize"]
    /\ UNCHANGED <<sagaVars, localVars, mode, sagasToDo, byomVars>>

\* A tail is resumed where it stopped; one byom refused to settle is given up.
ResumeTail ==
    /\ mode = "tails" /\ call = NoCall /\ handler = Idle
    /\ \E e \in tailsToDo :
          /\ tailsToDo' = tailsToDo \ {e}
          /\ IF /\ tail[e] = "settling"
                /\ saga[<<e, "complete">>].phase = "denied"
             THEN /\ tail' = [tail EXCEPT ![e] = "abandoned"]
                  /\ UNCHANGED call
             ELSE /\ call' = [NoCall EXCEPT
                        !.op = "resume", !.key = e, !.kind = "complete", !.from = tail[e],
                        !.step = IF tail[e] = "settling" THEN "settle" ELSE "terminalize"]
                  /\ UNCHANGED tail
    /\ UNCHANGED <<sagaVars, binding, effect, spent, reported, mode, sagasToDo, byomVars>>

Serve ==
    /\ mode = "tails" /\ call = NoCall /\ handler = Idle
    /\ tailsToDo = {}
    /\ mode' = "serving"
    /\ UNCHANGED <<sagaVars, localVars, sagasToDo, tailsToDo, call, byomVars>>

LedgerGoesOn == Continue /\ UNCHANGED <<created, localVars, sweepVars, call, byomVars>>

\* What a daemon that is up does next on its own.
Work ==
    \/ \E e \in Keys : PlacementAdmit(e)
    \/ Exchange \/ ReportUsage \/ AskSettlement \/ ApplySettled \/ ApplyUnsettled
    \/ ApplyEvidence \/ RecordReport
    \/ TerminalSettlement \/ TailSettled \/ AskComplete \/ Unbind \/ Adopt
    \/ ReleaseRemainder \/ CloseTail
    \/ SweepSaga \/ SweepTails \/ ResumeTail \/ Serve
    \/ LedgerGoesOn

\* What its clients ask of it.
Requests ==
    \E e \in Keys :
        \/ Admit(e) \/ Bind(e) \/ Fence(e) \/ ModelCall(e) \/ Complete(e)
        \/ \E c \in 0 .. amount[e][Unit] : Settle(e, c)

EpisodeNext == Work \/ Requests \/ Start \/ Die \/ \E e \in Keys : ByomCatchesUp(e)

EpisodeSpec == EpisodeInit /\ [][EpisodeNext]_vars

\* No crash falls between the two transactions of reserve.
ReserveCompletes ==
    handler.step \in {"requested", "confirm"} => mode' # "down"

SteadySpec == EpisodeInit /\ [][EpisodeNext /\ ReserveCompletes]_vars

-----------------------------------------------------------------------------
(* Properties.                                                             *)

\* Every variable keeps its shape; a running operation names a real Episode.
EpisodeTypeOK ==
    /\ LedgerTypeOK
    /\ binding \in [Keys -> {"none", "bound", "fenced", "released"}]
    /\ tail \in [Keys -> TailPhase]
    /\ effect \in [Keys -> {"none", "dispatching", "observed", "ambiguous"}]
    /\ spent \in [Keys -> Nat]
    /\ reported \in [Keys -> BOOLEAN]
    /\ mode \in {"down", "settlements", "tails", "serving"}
    /\ created \in Seq(Sagas)
    /\ sagasToDo \subseteq Sagas
    /\ tailsToDo \subseteq Keys
    /\ call = NoCall \/ call.key \in Keys
    /\ bridge \in [Keys -> {"none", "confirmed", "settled", "maxed"}]
    /\ byomCharged \in [Keys -> Nat]
    /\ terminal \in [Keys -> BOOLEAN]
    /\ late \in [Keys -> SUBSET Nat]
    /\ lateComplete \in [Keys -> BOOLEAN]

\* "Two ledgers, one truth": once this side has settled or returned a
\* reservation, what it charged is what byom charged, whichever calls were
\* lost, late or repeated and wherever the daemon died.
OneLedger ==
    \A e \in Keys : state[e] \in {"settled", "released"} =>
        bridge[e] = "settled" /\ charged[e] = byomCharged[e]

\* Local cap first: while byom has settled a bridge and this side has not yet
\* heard of it, the reservation still holds all that byom charged.
PeerChargeIsHeld ==
    \A e \in Keys : bridge[e] = "settled" /\ state[e] = "confirmed" =>
        byomCharged[e] <= HeldIn(e, Unit)

\* A conservative maximum is never answered by releasing: capacity byom
\* charged on its own authority stays held here, or was charged here too.
MaxedIsHeld ==
    \A e \in Keys : bridge[e] = "maxed" =>
        holdState[e] = "reserved" \/ charged[e] = byomCharged[e]

\* A closed tail leaves nothing held, and nothing is let go before the binding
\* is released by a tail: a crash between the two is a tail at `releasing`.
ReleasedByTail ==
    \A e \in Keys :
        /\ tail[e] = "done" => holdState[e] = "released"
        /\ holdState[e] = "released" =>
              binding[e] = "released" /\ tail[e] \in {"releasing", "done"}

\* Capacity comes home: once every Episode's tail is done, what is missing
\* from the realm's account is what byom charged, Episode by Episode.
CapacityComesHome ==
    (\A e \in Keys : state[e] = "absent" \/ tail[e] = "done") =>
        LET row == ledger[<<Realm, Unit>>]
        IN  row["remaining"] = row["ceiling"] - SumFunctionOnSet(byomCharged, Keys)

\* A start-up sweep finishes every tail it finds past its settlement, whether
\* or not byom still answers for the Episode.
SweptTailsFinish ==
    \A e \in Keys :
        /\ mode = "tails" /\ e \notin tailsToDo /\ call.key # e
        /\ tail[e] \in {"peer_pending", "releasing"}
        => state[e] \notin {"settled", "released"}

\* The daemon keeps the order that CapacityLedger leaves to its callers: it
\* settles, marks and releases only where the ledger stays exact.
KeepsTheOrder == OrderlySpec

\* A resumed tail whose Episode is terminal at byom and settled here is
\* finished by the resume.
TerminalConverges ==
    [][call.op = "resume" /\ call' = NoCall /\ mode' # "down"
       /\ terminal[call.key] /\ state[call.key] = "settled"
       => tail'[call.key] = "done"]_vars

\* The daemon's thread goes on while it is up; nobody need ask it anything,
\* byom need not answer, and nothing need restart it.
FairSpec == EpisodeSpec /\ WF_vars(Work)

\* A start-up sweep ends: silence, refusals and failed resumes included.
SweepEnds == mode \in {"settlements", "tails"} ~> mode \in {"serving", "down"}
=============================================================================
