---------------------------- MODULE ModelEffect ----------------------------
(***************************************************************************)
(* One governed model call of a worker, from its disclosure to its meter   *)
(* report: crates/koveed/src/model_broker.rs, and the decisions it takes   *)
(* from crates/kovee-effects (attempt, permit, broker, transport, driver,  *)
(* binding, disclosure, manifest).                                         *)
(*                                                                         *)
(* `complete` holds the store's mutex from beginning to end, so one call   *)
(* is in flight at a time; `at` is where it stands.  But every SQL         *)
(* statement of it commits on its own, so each is a step, and the daemon   *)
(* may die between any two.  byom, which consumes the act's one use, and   *)
(* the provider answer, refuse, or are not heard.  The worker may ask      *)
(* again for the same act, with other words or another limit.              *)
(*                                                                         *)
(* A digest is what it digests: a request stands for its exact bytes and   *)
(* `prompt` for what the disclosure manifest covers of them.               *)
(***************************************************************************)
EXTENDS Naturals, FiniteSets

CONSTANTS
    Acts,         \* byom's model_egress acts, each with one stable execution key
    Prompts,      \* what may be disclosed
    Requests,     \* the calls a worker may make: a prompt and an output limit
    Allowed,      \* the prompts the act's seats assented to, of each act
    OutputLimit,  \* request_limits.output_tokens of the profile
    MaxFence,     \* bound: byom's fence epochs
    Usages,       \* token totals a provider may report
    None

ASSUME RequestsAssumption ==
    /\ Requests \subseteq [prompt : Prompts, cap : Nat]
    /\ Allowed \in [Acts -> Prompts]
ASSUME NumbersAssumption ==
    Usages \subseteq Nat /\ MaxFence \in Nat /\ OutputLimit \in Nat

VARIABLES
    at,           \* where the daemon's one call stands
    act, req,     \* the act and the request of that call
    outcome,      \* what `dispatch` returned to it: a state and a usage
    reply,        \* byom's receipt, before it is stored
    row,          \* model_effects: the request it was prepared with
    effect,       \* model_effects.state
    consumption,  \* external_authorization_consumptions: state and receipt
    attempt,      \* model_effect_attempts.state of the act's only attempt
    events,       \* the event types appended for the effect
    reported,     \* model_usage_reports has a row
    reconciled,   \* model_effect_attempts.reconciliation is set
    localFence,   \* byom's fence epoch, as the Episode binding has it
    configured,   \* the daemon was started with the provider's credential
    byomFence,    \* byom's own fence epoch
    peer,         \* byom's consumption of the act: the request and the fence
    expired,      \* the receipt's expires_at has passed
    metered,      \* the usage byom's meter channel was told
    sent,         \* how often the act's request has left for the provider
    wire,         \* the request that left last
    heard         \* the provider's whole answer, when one was heard

callVars     == <<at, act, req, outcome, reply>>
effectVars   == <<row, effect, attempt, events, reported, reconciled>>
ownVars      == <<callVars, effectVars, consumption, configured>>
fenceVars    == <<localFence, byomFence, expired>>
byomVars     == <<peer, metered>>
providerVars == <<sent, wire, heard>>
vars         == <<ownVars, fenceVars, byomVars, providerVars>>

-----------------------------------------------------------------------------
(* kovee-effects.                                                          *)

\* attempt.rs: EffectState, and `next`.
Terminal == {"completed", "failed", "ambiguous", "canceled"}
States   == {"prepared", "dispatching"} \union Terminal
NextState(state, event) ==
    CASE state = "prepared" /\ event = "Dispatch"           -> "dispatching"
      [] state = "prepared" /\ event = "Cancel"             -> "canceled"
      [] state = "dispatching" /\ event = "Complete"        -> "completed"
      [] state = "dispatching" /\ event = "Fail"            -> "failed"
      [] state = "dispatching"
           /\ event \in {"MarkAmbiguous", "RecoverAfterCrash", "Cancel"} -> "ambiguous"
      [] OTHER                                              -> None

\* ModelProfile::check_against and the limits of `plan`: the seeded profile
\* pins the binding it was made from, so what is left is the caller's limit.
Plannable(r) == r.cap > 0 /\ r.cap <= OutputLimit

\* What the disclosure manifest digests of a request: the items that leave,
\* and not the limit they leave under.
Disclosed(r) == r.prompt

\* byom's record of a consumption, and the receipt made of it.  byom may
\* leave out the digests (disclosure and Episode fence) of a receipt.
Use        == [req : Requests, fence : 0..MaxFence]
Receipt    == [req : Requests, fence : 0..MaxFence, reports : BOOLEAN]
Consumption == [state : {"consumed", "spent"}, receipt : Receipt]

\* Mutant: the gate takes the digests of the receipt for granted.
AuthorizesUnread(receipt, r, a) == attempt[a] = None /\ ~expired[a]

\* ConsumptionAuthority::authorize, for a receipt that was admitted here.
Authorizes(receipt, r, a) ==
    /\ attempt[a] = None
    /\ receipt.reports => Disclosed(receipt.req) = Disclosed(r) /\ receipt.fence = localFence
    /\ ~expired[a]

\* Outcome: a state and the usage counted for it; Usage::default() is zero.
Result(state, usage) == [state |-> state, usage |-> usage]
Unmeasured(state)    == Result(state, 0)
Results == [state : {"completed", "failed", "ambiguous"}, usage : Usages \union {0}]

\* TransportError: up to the connection nothing has left (NotSent); the
\* handshake is made by the first write, and its failure is Uncertain.
Unsent == {Unmeasured("failed"), Unmeasured("ambiguous")}
\* What a provider answers in full: with a reply (a 2xx response with a text)
\* or without one (an error status, not JSON, no text), and either way with
\* the usage it reports, or none.
Answers == [reply : BOOLEAN, usage : Usages \union {None}]
\* What the driver reads in it and dispatch makes of that: the usage of a reply
\* is counted, as zero where it has none; an answer that is no reply is a
\* definite failure and counts zero, whatever usage it reports.
Counted(answer) ==
    IF answer.reply THEN Result("completed", IF answer.usage = None THEN 0 ELSE answer.usage)
    ELSE Unmeasured("failed")
\* No whole response comes: a read fails or times out, the peer closes, the
\* response is over the cap, or its framing never ends.
Unheard == Unmeasured("ambiguous")

ASSUME NoneAssumption ==
    /\ None \notin Acts /\ None \notin Requests /\ None \notin Nat /\ None \notin States
    /\ None \notin Use /\ None \notin Receipt /\ None \notin Consumption /\ None \notin Results
    /\ None \notin Answers

-----------------------------------------------------------------------------
Init ==
    /\ at = "idle" /\ act = None /\ req = None /\ outcome = None /\ reply = None
    /\ row         = [a \in Acts |-> None]
    /\ effect      = [a \in Acts |-> None]
    /\ consumption = [a \in Acts |-> None]
    /\ attempt     = [a \in Acts |-> None]
    /\ events      = [a \in Acts |-> {}]
    /\ reported    = [a \in Acts |-> FALSE]
    /\ reconciled  = [a \in Acts |-> FALSE]
    /\ localFence = 0 /\ byomFence = 0
    /\ configured \in BOOLEAN
    /\ peer     = [a \in Acts |-> None]
    /\ expired  = [a \in Acts |-> FALSE]
    /\ metered  = [a \in Acts |-> None]
    /\ sent     = [a \in Acts |-> 0]
    /\ wire     = [a \in Acts |-> None]
    /\ heard    = [a \in Acts |-> None]

\* The call goes on to `next`; or ends, with a reply or a refusal.
Go(next) == at' = next /\ UNCHANGED <<act, req, outcome, reply>>
Ends     == at' = "idle" /\ act' = None /\ req' = None /\ outcome' = None /\ reply' = None

\* emit: one command transaction under the key <effect>:<type>, so a second
\* event of a type is a replay.
Announce(from, type, next) ==
    /\ at = from
    /\ events' = [events EXCEPT ![act] = @ \union {type}]
    /\ IF next = "idle" THEN Ends ELSE Go(next)
    /\ UNCHANGED <<row, effect, attempt, reported, reconciled, consumption, configured,
                   fenceVars, byomVars, providerVars>>

-----------------------------------------------------------------------------
(* `complete`.                                                             *)

\* check_binding and `stage`.  A worker whose attempt has ended is refused
\* before anything is written: it makes no call.
Complete(a, r) ==
    /\ at = "idle"
    /\ at' = "plan" /\ act' = a /\ req' = r
    /\ UNCHANGED <<outcome, reply, effectVars, consumption, configured, fenceVars, byomVars,
                   providerVars>>

\* `prepare`, as far as it writes nothing.  It is refused for its limit, or
\* because the Episode binding or the profile is gone; an effect under the
\* execution key is found again, whatever request it was prepared with.
Plan ==
    /\ at = "plan"
    /\ \/ Plannable(req) /\ Go(IF row[act] = None THEN "row" ELSE "permit")
       \/ Ends
    /\ UNCHANGED <<effectVars, consumption, configured, fenceVars, byomVars, providerVars>>

\* The provider context chain and the effect, over this request.
Prepare ==
    /\ at = "row"
    /\ row'    = [row EXCEPT ![act] = req]
    /\ effect' = [effect EXCEPT ![act] = "prepared"]
    /\ Go("prepared")
    /\ UNCHANGED <<attempt, events, reported, reconciled, consumption, configured, fenceVars,
                   byomVars, providerVars>>

\* execution_permit_consume: byom spends the act's one use, or finds that this
\* very request spent it.  It compares what the act's seats assented to and
\* the fence; the answer may be lost, and then the call has failed.
PeerConsumes ==
    /\ at = "permit" /\ consumption[act] = None
    /\ IF peer[act] = None
       THEN /\ Disclosed(req) = Allowed[act] /\ localFence = byomFence
            /\ peer' = [peer EXCEPT ![act] = [req |-> req, fence |-> byomFence]]
       ELSE peer[act].req = req /\ UNCHANGED peer
    /\ \/ Ends
       \/ \E reports \in BOOLEAN :
             /\ reply' = [req |-> req, fence |-> peer'[act].fence, reports |-> reports]
             /\ at' = "store" /\ UNCHANGED <<act, req, outcome>>
    /\ UNCHANGED <<effectVars, consumption, configured, fenceVars, metered,
                   providerVars>>

\* byom refuses, or is not heard.
PeerRefuses ==
    /\ at = "permit" /\ consumption[act] = None
    /\ Ends
    /\ UNCHANGED <<effectVars, consumption, configured, fenceVars, byomVars,
                   providerVars>>

\* Mutant: the call keeps the receipt in hand after it has stored it.
StoreLate ==
    /\ at = "store"
    /\ at' = "gate" /\ UNCHANGED <<act, req, outcome, reply>>
    /\ consumption' = [consumption EXCEPT ![act] = [state |-> "consumed", receipt |-> reply]]
    /\ UNCHANGED <<effectVars, configured, fenceVars, byomVars, providerVars>>

StoreConsumption ==
    /\ at = "store"
    /\ consumption' = [consumption EXCEPT ![act] = [state |-> "consumed", receipt |-> reply]]
    /\ at' = "gate" /\ reply' = None /\ UNCHANGED <<act, req, outcome>>
    /\ UNCHANGED <<effectVars, configured, fenceVars, byomVars, providerVars>>

\* A stored consumption is not asked for again.
Recovered ==
    /\ at = "permit" /\ consumption[act] # None
    /\ Go("gate")
    /\ UNCHANGED <<effectVars, consumption, configured, fenceVars, byomVars,
                   providerVars>>

\* consume_permit's gate: attest, authorize, and the permit is minted.
Authorize ==
    /\ at = "gate"
    /\ IF Authorizes(consumption[act].receipt, req, act) THEN Go("authorized") ELSE Ends
    /\ UNCHANGED <<effectVars, consumption, configured, fenceVars, byomVars,
                   providerVars>>

\* dispatch_effect: the credential first.
ResolveCredential ==
    /\ at = "credential"
    /\ IF configured THEN Go("attempt") ELSE Ends
    /\ UNCHANGED <<effectVars, consumption, configured, fenceVars, byomVars,
                   providerVars>>

InsertAttempt ==
    /\ at = "attempt"
    /\ attempt' = [attempt EXCEPT ![act] = "dispatching"]
    /\ Go("dispatch")
    /\ UNCHANGED <<row, effect, events, reported, reconciled, consumption, configured,
                   fenceVars, byomVars, providerVars>>

\* set_effect_state.
SetEffect(from, state, next) ==
    /\ at = from
    /\ effect' = [effect EXCEPT ![act] = state]
    /\ Go(next)
    /\ UNCHANGED <<row, attempt, events, reported, reconciled, consumption, configured,
                   fenceVars, byomVars, providerVars>>

\* Mutant: the claim reads the row, and does not write it.
ClaimUnwritten ==
    /\ at = "claim" /\ consumption[act].state # "spent"
    /\ Go("send")
    /\ UNCHANGED <<effectVars, consumption, configured, fenceVars, byomVars, providerVars>>

\* claim_single_use, the conditional UPDATE on the consumption row.
ClaimUse ==
    /\ at = "claim"
    /\ IF consumption[act].state # "spent"
       THEN /\ consumption' = [consumption EXCEPT ![act].state = "spent"]
            /\ Go("send")
       ELSE /\ UNCHANGED consumption
            /\ at' = "outcome" /\ outcome' = Unmeasured("failed") /\ UNCHANGED <<act, req, reply>>
    /\ UNCHANGED <<effectVars, configured, fenceVars, byomVars, providerVars>>

Concludes(result) == at' = "outcome" /\ outcome' = result /\ UNCHANGED <<act, req, reply>>

\* dispatch's one exchange: the request leaves, or does not.
Send ==
    /\ at = "send"
    /\ \/ /\ sent' = [sent EXCEPT ![act] = @ + 1]
          /\ wire' = [wire EXCEPT ![act] = req]
          /\ Go("answer")
       \/ /\ \E result \in Unsent : Concludes(result)
          /\ UNCHANGED <<sent, wire>>
    /\ UNCHANGED <<effectVars, consumption, configured, fenceVars, byomVars, heard>>

\* Mutant: a request whose answer did not come is a clean failure.
HearSilence ==
    /\ at = "answer"
    /\ \/ \E answer \in Answers :
             Concludes(Counted(answer)) /\ heard' = [heard EXCEPT ![act] = answer]
       \/ Concludes(Unmeasured("failed")) /\ UNCHANGED heard
    /\ UNCHANGED <<effectVars, consumption, configured, fenceVars, byomVars, sent, wire>>

\* ... and its answer is heard, or is not.
Hear ==
    /\ at = "answer"
    /\ \/ \E answer \in Answers :
             Concludes(Counted(answer)) /\ heard' = [heard EXCEPT ![act] = answer]
       \/ Concludes(Unheard) /\ UNCHANGED heard
    /\ UNCHANGED <<effectVars, consumption, configured, fenceVars, byomVars, sent, wire>>

RecordOutcome ==
    /\ at = "outcome"
    /\ attempt' = [attempt EXCEPT ![act] = outcome.state]
    /\ Go("record")
    /\ UNCHANGED <<row, effect, events, reported, reconciled, consumption, configured,
                   fenceVars, byomVars, providerVars>>

\* Mutant: every outcome is metered, an unobserved one as zero.
ObservedAll == outcome.state \in Terminal

\* Only an observed outcome is metered.
Observed == outcome.state \in {"completed", "failed"}

\* report_usage: byom's meter channel is told; the answer may not come back,
\* or the report may not have arrived.
Meter ==
    /\ at = "meter"
    /\ \/ metered' = [metered EXCEPT ![act] = outcome.usage] /\ (Go("report") \/ Ends)
       \/ UNCHANGED metered /\ Ends
    /\ UNCHANGED <<effectVars, consumption, configured, fenceVars, peer,
                   providerVars>>

RecordReport ==
    /\ at = "report"
    /\ reported' = [reported EXCEPT ![act] = TRUE]
    /\ Go("reported")
    /\ UNCHANGED <<row, effect, attempt, events, reconciled, consumption, configured,
                   fenceVars, byomVars, providerVars>>

CallStep ==
    \/ \E a \in Acts, r \in Requests : Complete(a, r)
    \/ Plan \/ Prepare \/ Announce("prepared", "prepared", "permit")
    \/ PeerConsumes \/ PeerRefuses \/ StoreConsumption \/ Recovered \/ Authorize
    \/ Announce("authorized", "authorized", "credential")
    \/ ResolveCredential \/ InsertAttempt
    \/ SetEffect("dispatch", "dispatching", "dispatching")
    \/ Announce("dispatching", "dispatching", "claim")
    \/ ClaimUse \/ Send \/ Hear \/ RecordOutcome
    \/ SetEffect("record", outcome.state, "announce")
    \/ Announce("announce", outcome.state, IF Observed THEN "meter" ELSE "idle")
    \/ Meter \/ RecordReport \/ Announce("reported", "reported", "idle")

-----------------------------------------------------------------------------
(* The operator, the restart, and what happens around the daemon.          *)

\* reconcile: the operator saw what became of an ambiguous attempt.
Reconcile(a, state) ==
    /\ at = "idle" /\ attempt[a] = "ambiguous" /\ state \in {"completed", "failed"}
    /\ attempt' = [attempt EXCEPT ![a] = state]
    /\ reconciled' = [reconciled EXCEPT ![a] = TRUE]
    /\ at' = "reconcile" /\ act' = a /\ outcome' = Unmeasured(state)
    /\ UNCHANGED <<req, reply, row, effect, events, reported, consumption,
                   configured, fenceVars, byomVars, providerVars>>

Crash ==
    /\ at # "down"
    /\ at' = "down" /\ act' = None /\ req' = None /\ outcome' = None /\ reply' = None
    /\ UNCHANGED <<effectVars, consumption, configured, fenceVars, byomVars,
                   providerVars>>

\* Daemon::new, to its sweep; the environment may have the credential now.
Restart ==
    /\ at = "down" /\ Go("spend")
    /\ configured' \in BOOLEAN
    /\ UNCHANGED <<effectVars, consumption, fenceVars, byomVars, providerVars>>

\* recover_dispatching: first the uses, in one statement, ...
SweepUses ==
    /\ at = "spend" /\ Go("sweep")
    /\ consumption' = [a \in Acts |->
          IF attempt[a] = "dispatching" THEN [consumption[a] EXCEPT !.state = "spent"]
          ELSE consumption[a]]
    /\ UNCHANGED <<effectVars, configured, fenceVars, byomVars, providerVars>>

\* ... then one attempt after the other, ...
SweepAttempt(a) ==
    /\ at = "sweep" /\ attempt[a] = "dispatching"
    /\ attempt' = [attempt EXCEPT ![a] = NextState("dispatching", "RecoverAfterCrash")]
    /\ at' = "swept" /\ act' = a /\ UNCHANGED <<req, outcome, reply>>
    /\ UNCHANGED <<row, effect, events, reported, reconciled, consumption, configured,
                   fenceVars, byomVars, providerVars>>

\* Mutant: the daemon serves, and leaves the sweep for later.
ServeUnswept ==
    /\ at = "sweep" /\ Ends
    /\ UNCHANGED <<effectVars, consumption, configured, fenceVars, byomVars, providerVars>>

\* ... and the daemon serves.
Serve ==
    /\ at = "sweep" /\ \A a \in Acts : attempt[a] # "dispatching"
    /\ Ends
    /\ UNCHANGED <<effectVars, consumption, configured, fenceVars, byomVars,
                   providerVars>>

SweepStep ==
    \/ Restart \/ SweepUses \/ Serve
    \/ \E a \in Acts : SweepAttempt(a)
    \/ SetEffect("swept", "ambiguous", "frozen")
    \/ Announce("frozen", "ambiguous", "sweep")

\* reconcile's other two statements.
ReconcileStep ==
    \/ SetEffect("reconcile", outcome.state, "reconciled")
    \/ Announce("reconciled", "reconciled", "idle")

\* byom advances its fence, which the Episode pipeline learns later; a receipt
\* grows old.  The pipeline needs the store; only the permit reads byom's
\* fence and only the gate the clock, so nothing is lost by letting them move
\* just where they are read.
Around ==
    /\ \/ at = "idle" /\ localFence' = byomFence /\ UNCHANGED <<byomFence, expired>>
       \/ /\ at = "permit" /\ byomFence < MaxFence
          /\ byomFence' = byomFence + 1 /\ UNCHANGED <<localFence, expired>>
       \/ /\ at = "gate"
          /\ expired' = [expired EXCEPT ![act] = TRUE] /\ UNCHANGED <<localFence, byomFence>>
    /\ UNCHANGED <<ownVars, byomVars, providerVars>>

EffectNext ==
    \/ CallStep \/ SweepStep \/ ReconcileStep \/ Crash \/ Around
    \/ \E a \in Acts, state \in States : Reconcile(a, state)

EffectSpec == Init /\ [][EffectNext]_vars

\* The daemon's thread runs on, and a dead daemon is started again.
Daemon   == (CallStep /\ at # "idle") \/ SweepStep \/ ReconcileStep
FairSpec == EffectSpec /\ WF_vars(Daemon)

-----------------------------------------------------------------------------
(* Properties.                                                             *)

\* Types, and what a call has in hand: byom's receipt until it is stored, an
\* outcome from the exchange to the report.
EffectTypeOK ==
    /\ act \in Acts \union {None} /\ req \in Requests \union {None}
    /\ outcome \in Results \union {None} /\ reply \in Receipt \union {None}
    /\ row \in [Acts -> Requests \union {None}]
    /\ effect \in [Acts -> States \union {None}]
    /\ attempt \in [Acts -> States \union {None}]
    /\ consumption \in [Acts -> Consumption \union {None}]
    /\ events \in [Acts -> SUBSET (States \union {"authorized", "reported", "reconciled"})]
    /\ reported \in [Acts -> BOOLEAN] /\ reconciled \in [Acts -> BOOLEAN]
    /\ localFence \in 0..MaxFence /\ byomFence \in 0..MaxFence
    /\ configured \in BOOLEAN /\ expired \in [Acts -> BOOLEAN]
    /\ peer \in [Acts -> Use \union {None}]
    /\ metered \in [Acts -> Nat \union {None}]
    /\ sent \in [Acts -> Nat]
    /\ wire \in [Acts -> Requests \union {None}]
    /\ heard \in [Acts -> Answers \union {None}]
    /\ reply # None <=> at = "store"
    /\ outcome # None <=>
          at \in {"outcome", "record", "announce", "meter", "report", "reported",
                  "reconcile", "reconciled"}

\* A request leaves at most once for an act, whatever crashes, restarts and
\* retries there are; and what has left was first prepared here, consumed at
\* byom, put down as an attempt, and spent in this daemon's own ledger: the
\* chain of complete, consume_permit, dispatch_effect and claim_consumption.
SentOnce ==
    \A a \in Acts :
        /\ sent[a] <= 1
        /\ sent[a] = 1 =>
              /\ row[a] # None /\ peer[a] # None /\ attempt[a] # None
              /\ consumption[a] # None /\ consumption[a].state = "spent"

\* Unless an operator said so, an attempt is completed only when the provider
\* answered with a reply, and failed only when nothing left or the provider
\* answered otherwise.  A request that left and of which no answer was heard
\* is never written off: its attempt is dispatching or ambiguous, also when the
\* daemon dies before it can put down what it saw (dispatch,
\* recover_dispatching).  A failed attempt may thus have been transmitted and
\* billed (broker.rs:673), although EffectState::Failed is documented as "no
\* possible transmission" (attempt.rs:44): README, section 5.
HonestOutcome ==
    \A a \in Acts : ~reconciled[a] =>
        /\ attempt[a] = "completed" => heard[a] # None /\ heard[a].reply
        /\ attempt[a] = "failed" => sent[a] = 0 \/ (heard[a] # None /\ ~heard[a].reply)

\* When byom's receipt reports its digests, what leaves discloses just what
\* the act's seats assented to, under the fence the Episode still has: also
\* for a receipt that was stored before a crash and is used by a retry with
\* other words (ConsumptionAuthority::authorize).
SendsAreCovered ==
    [][\A a \in Acts : sent'[a] # sent[a] /\ consumption[a].receipt.reports =>
              /\ Disclosed(wire'[a]) = Allowed[a]
              /\ peer[a].fence = localFence]_vars

\* byom's meter is told a number only for an outcome somebody here saw, and
\* then not more than the provider reported: of a call it answered with a
\* reply, the usage it reported; zero when nothing left.  Nothing is metered
\* for an attempt that was ever ambiguous, not even once an operator has said
\* what became of it (dispatch_effect, reconcile).  Of an answer that is no
\* reply the number is zero even where the provider reported a usage
\* (driver.rs:246, broker.rs:681): README, section 5.
SeenIsMetered ==
    \A a \in Acts :
        /\ metered[a] # None =>
              /\ attempt[a] \in {"completed", "failed"} /\ ~reconciled[a]
              /\ sent[a] = 0 => metered[a] = 0
              /\ sent[a] = 1 =>
                    /\ heard[a] # None
                    /\ metered[a] \in {0, heard[a].usage}
                    /\ heard[a].reply /\ heard[a].usage # None => metered[a] = heard[a].usage
        /\ reported[a] => metered[a] # None

\* Once the daemon stops dying, no attempt stays in dispatching: the call that
\* made it, or the next start, settles it (recover_dispatching).
Settles ==
    (<>[](at # "down")) =>
        \A a \in Acts : attempt[a] = "dispatching" ~> attempt[a] # "dispatching"
=============================================================================
