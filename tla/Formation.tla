----------------------------- MODULE Formation ------------------------------
(***************************************************************************)
(* The promotion of a proposal to a byom Endeavor (byom section 16.3 as    *)
(* Kovee carries it out): endeavor_promotion_prepare, _cancel, _start and  *)
(* _reconcile of crates/koveed/src/formation.rs, with the machine of       *)
(* crates/kovee-byom/src/formation.rs.                                     *)
(*                                                                         *)
(* A start or a reconcile is a chain of transactions, each under a receipt *)
(* of its own (key#attempt, key#query, ...), with calls to byom between    *)
(* them.  The store's mutex keeps other commands out, but the daemon may   *)
(* die between any two steps, byom may act on a command long after Kovee   *)
(* stopped waiting for it, and any command may be sent again.  Every       *)
(* command crosses the realm's seam, one scope of ScopeAuthority.          *)
(***************************************************************************)
EXTENDS Naturals, Sequences, FiniteSets

CONSTANTS
    Formations,    \* the explicit human formation commands (client_formation_key)
    Scope,         \* the governed scope of the realm
    Commands,      \* the starts and reconciles clients may send, with their keys
    MaxEpoch,      \* bound: enablements of the scope
    None

Command ==
    [key : {c.key : c \in Commands}, op : {"start", "reconcile"}, formation : Formations,
     observation : {c.observation : c \in Commands}, deny : BOOLEAN]

ASSUME CommandsAssumption == Commands \subseteq Command
ASSUME BoundAssumption == MaxEpoch \in Nat

VARIABLES
    opened, spent, holder,   \* the seam: see ScopeAuthority
    intent,      \* endeavor_formation_intents, with the slot each is paired with
    attempts,    \* endeavor_formation_attempts, in the order of their ordinals
    links,       \* external_links: the formations that have one
    receipts,    \* command receipts: the key and the step committed under it
    domain,      \* byom: what claimed the IdempotencyDomain of each formation
    wire,        \* commands that left Kovee and byom has not acted on
    at           \* the running command and what it remembers

Seam == INSTANCE ScopeAuthority WITH Scopes <- {Scope}, Overlap <- {}

seam    == <<opened, spent, holder>>
durable == <<intent, attempts, links, receipts>>
byom    == <<domain, wire>>
vars    == <<seam, durable, byom, at>>

-----------------------------------------------------------------------------
(* The machine of kovee-byom.                                              *)

Unsettled == {"submitting", "remote_unknown", "awaiting_principal", "ambiguous"}
Terminal  == {"linked", "canceled"}
States    == {"prepared", "byom_committed", "linking"} \union Unsettled \union Terminal
Facts     == {"committed", "absent", "unknown", "tombstone", "fenced", "not_terminalizable"}

\* IntentState::slot.
SlotOf(state) ==
    IF state = "prepared" THEN "held"
    ELSE IF state \in Terminal THEN "released" ELSE state

\* resolve: the state a fact moves a formation to, or None.
Resolve(state, fact) ==
    CASE fact = "committed" /\ state \in Unsettled \union {"prepared", "byom_committed"}
             -> "byom_committed"
      [] fact = "committed" /\ state = "linking"                 -> "linking"
      [] fact = "absent" /\ state \in Unsettled                  -> "awaiting_principal"
      [] fact = "unknown" /\ state \in Unsettled                 -> "ambiguous"
      [] fact \in {"tombstone", "fenced"} /\ state \in Unsettled \union {"prepared"}
             -> "canceled"
      [] fact = "not_terminalizable" /\ state \in Unsettled      -> state
      [] OTHER                                                   -> None

MaySubmit == {"prepared", "awaiting_principal"}

\* Mutant: what is not known to be sent may be canceled locally.
CancelUnsent == {"prepared", "awaiting_principal"}

MayCancel == {"prepared"}

-----------------------------------------------------------------------------
Intent ==
    [state : States, slot : {SlotOf(s) : s \in States}, pin : Nat, result : BOOLEAN,
     observation : {c.observation : c \in Commands} \union {None}]
Attempt ==
    [state : {"sent", "reply_received", "transport_unknown", "reconciled"},
     pin : Nat, observation : {c.observation : c \in Commands}]
Message == [op : {"form", "terminalize"}, formation : Formations, n : Nat]
Work ==
    [step : {"idle", "attempt", "submit", "await", "conclude", "linking", "link",
             "query", "apply", "mint", "deny"},
     cmd : Commands \union {None},
     fact : Facts \union {"refused", None},
     sent : Message \union {None}]

ASSUME NoneAssumption ==
    /\ None \notin Commands /\ None \notin {c.observation : c \in Commands}
    /\ None \notin States /\ None \notin Facts /\ None # "refused"
    /\ None \notin Intent /\ None \notin Message

Idle == [step |-> "idle", cmd |-> None, fact |-> None, sent |-> None]
End  == at' = Idle

\* active_seam: the epoch that holds the scope, or 0.
ActiveSeam == holder[Scope]

\* commit_pair: intent and slot move together, with the columns of the step.
CommitPair(i, state) == [i EXCEPT !.state = state, !.slot = SlotOf(state)]
WithAttempt(i, o) == [CommitPair(i, "submitting") EXCEPT !.observation = o]
WithResult(i, state, fact) ==
    [CommitPair(i, state) EXCEPT !.result = i.result \/ fact = "committed"]

\* One step of a command under its own receipt: a stored receipt is replayed.
Replayed(step) == <<at.cmd.key, step>> \in receipts
Receipt(step)  == receipts' = receipts \union {<<at.cmd.key, step>>}

\* The formation of the running command.
Current == at.cmd.formation

\* close_attempt, of the latest attempt.
Closed(f, state) ==
    IF attempts[f] = <<>> THEN attempts
    ELSE [attempts EXCEPT ![f][Len(attempts[f])].state = state]

FormationInit ==
    /\ Seam!Init
    /\ intent   = [f \in Formations |-> None]
    /\ attempts = [f \in Formations |-> <<>>]
    /\ links    = {}
    /\ receipts = {}
    /\ domain   = [f \in Formations |-> "open"]
    /\ wire     = {}
    /\ at       = Idle

-----------------------------------------------------------------------------
(* endeavor_promotion_prepare and endeavor_promotion_cancel.               *)

\* prepare_pair: the intent and its slot, pinned to the active seam.
NewPair ==
    [state |-> "prepared", slot |-> "held", pin |-> ActiveSeam, result |-> FALSE,
     observation |-> None]

\* The pair is created under the active seam; the same formation key finds it.
Prepare(f) ==
    /\ at = Idle /\ intent[f] = None
    /\ ActiveSeam # 0
    /\ intent' = [intent EXCEPT ![f] = NewPair]
    /\ UNCHANGED <<seam, attempts, links, receipts, byom, at>>

Cancel(f) ==
    /\ at = Idle /\ intent[f] # None
    /\ intent[f].state \in MayCancel
    /\ intent[f].slot = SlotOf(intent[f].state)
    /\ intent' = [intent EXCEPT ![f] = CommitPair(@, "canceled")]
    /\ UNCHANGED <<seam, attempts, links, receipts, byom, at>>

-----------------------------------------------------------------------------
(* endeavor_promotion_start.                                               *)

\* What is committed is linked; only what may be submitted is, and only with
\* another authentication than the latest attempt's.
Start(c) ==
    LET i == intent[c.formation]
    IN  /\ at = Idle /\ c.op = "start" /\ i # None
        /\ \/ /\ i.state \in {"byom_committed", "linking"}
              /\ at' = [Idle EXCEPT !.cmd = c,
                            !.step = IF i.state = "linking" THEN "link" ELSE "linking"]
           \/ /\ i.state \in MaySubmit
              /\ i.observation # c.observation
              /\ at' = [Idle EXCEPT !.cmd = c, !.step = "attempt"]
        /\ UNCHANGED <<seam, durable, byom>>

\* Mutant: the pair moves to submitting only once byom has answered.
SubmitUnrecorded(f) ==
    /\ UNCHANGED <<intent, attempts>>
    /\ Receipt("attempt")
    /\ at' = [at EXCEPT !.step = "submit"]

\* open_attempt: the append-only attempt row and `submitting`, in one
\* transaction, before any byte leaves.
OpenAttempt(f) ==
    /\ attempts' = [attempts EXCEPT ![f] = Append(@,
          [state |-> "sent", pin |-> ActiveSeam, observation |-> at.cmd.observation])]
    /\ intent' = [intent EXCEPT ![f] = WithAttempt(@, at.cmd.observation)]
    /\ Receipt("attempt")
    /\ at' = [at EXCEPT !.step = "submit"]

\* The binding must still be the one the intent pinned.  A replayed attempt
\* leaves the state where it is, and the command reports it.
BeginAttempt ==
    /\ at.step = "attempt"
    /\ IF Replayed("attempt") \/ ActiveSeam # intent[Current].pin
       THEN End /\ UNCHANGED <<intent, attempts, receipts>>
       ELSE OpenAttempt(Current)
    /\ UNCHANGED <<seam, links, byom>>

\* submit: the stable command, in this attempt's envelope.
Submit ==
    LET m == [op |-> "form", formation |-> Current, n |-> Len(attempts[Current])]
    IN  /\ at.step = "submit"
        /\ wire' = wire \union {m}
        /\ at' = [at EXCEPT !.step = "await", !.sent = m]
        /\ UNCHANGED <<seam, durable, domain>>

\* What an answer to a submission means: the state, and the attempt's.
Concluded ==
    [committed |-> "byom_committed", tombstone |-> "canceled",
     unknown |-> "remote_unknown", refused |-> "ambiguous"]

\* #result, #tombstone, #unknown or #refused.
Conclude ==
    LET f == Current
    IN  /\ at.step = "conclude"
        /\ attempts' = Closed(f, IF at.fact = "unknown" THEN "transport_unknown"
                                 ELSE "reply_received")
        /\ intent' = [intent EXCEPT ![f] = WithResult(@, Concluded[at.fact], at.fact)]
        /\ Receipt(at.fact)
        /\ IF at.fact = "committed" THEN at' = [at EXCEPT !.step = "linking"] ELSE End
        /\ UNCHANGED <<seam, links, byom>>

-----------------------------------------------------------------------------
(* commit_link, reached by a start or by a reconcile.                      *)

BeginLink ==
    /\ at.step = "linking"
    /\ IF Replayed("linking") THEN UNCHANGED <<intent, receipts>>
       ELSE /\ intent' = [intent EXCEPT ![Current] = CommitPair(@, "linking")]
            /\ Receipt("linking")
    /\ at' = [at EXCEPT !.step = "link"]
    /\ UNCHANGED <<seam, attempts, links, byom>>

\* link_and_finish: the ExternalLink, once per digest, and the slot released.
Link ==
    /\ at.step = "link"
    /\ IF Replayed("link") THEN UNCHANGED <<intent, links, receipts>>
       ELSE /\ links' = links \union {Current}
            /\ intent' = [intent EXCEPT ![Current] = CommitPair(@, "linked")]
            /\ Receipt("link")
    /\ End
    /\ UNCHANGED <<seam, attempts, byom>>

-----------------------------------------------------------------------------
(* endeavor_promotion_reconcile.                                           *)

\* A pair that is not terminal, through the current seam.
Reconcile(c) ==
    /\ at = Idle /\ c.op = "reconcile" /\ intent[c.formation] # None
    /\ intent[c.formation].state \notin Terminal
    /\ ActiveSeam # 0
    /\ at' = [Idle EXCEPT !.cmd = c, !.step = "query"]
    /\ UNCHANGED <<seam, durable, byom>>

\* What byom's recovery query says of a domain.
Truth(f) ==
    CASE domain[f] = "open"       -> "absent"
      [] domain[f] = "committed"  -> "committed"
      [] domain[f] = "tombstoned" -> "tombstone"
      [] domain[f] = "fenced"     -> "fenced"

\* query_fact; no answer is the fact `unknown`, and a refusal ends the command.
Query ==
    /\ at.step = "query"
    /\ \/ \E fact \in {Truth(Current), "unknown"} :
             at' = [at EXCEPT !.step = "apply", !.fact = fact]
       \/ End
    /\ UNCHANGED <<seam, durable, byom>>

\* What follows a fact that was applied: a committed one is linked, and the
\* query of a reconcile that denies goes on to terminalize.
AfterFact(state) ==
    IF state \in {"byom_committed", "linking"}
    THEN at' = [at EXCEPT !.step = IF state = "linking" THEN "link" ELSE "linking"]
    ELSE IF at.sent = None /\ at.cmd.deny /\ state \in Unsettled \union {"prepared"}
         THEN at' = [at EXCEPT !.step = "mint", !.fact = None]
         ELSE End

\* apply_fact, after the query or after the terminalization.  A fact without a
\* row for the state changes nothing, and does not resume a link.
ApplyFact ==
    LET f    == Current
        now  == intent[f].state
        next == Resolve(now, at.fact)
        step == IF at.sent = None THEN "query" ELSE "terminalize"
    IN  /\ at.step = "apply"
        /\ IF next = None
           THEN /\ IF now \in {"byom_committed", "linking"} THEN End ELSE AfterFact(now)
                /\ UNCHANGED <<intent, attempts, receipts>>
           ELSE IF Replayed(step)
           THEN AfterFact(now) /\ UNCHANGED <<intent, attempts, receipts>>
           ELSE /\ attempts' = Closed(f, "reconciled")
                /\ intent' = [intent EXCEPT ![f] = WithResult(@, next, at.fact)]
                /\ Receipt(step)
                /\ AfterFact(next)
        /\ UNCHANGED <<seam, links, byom>>

\* mint_terminalize_credential: a replayed receipt answers for another nonce
\* than the one just drawn, and the credential is not found.
Mint ==
    /\ at.step = "mint"
    /\ IF Replayed("terminalize-credential") THEN End /\ UNCHANGED receipts
       ELSE Receipt("terminalize-credential") /\ at' = [at EXCEPT !.step = "deny"]
    /\ UNCHANGED <<seam, intent, attempts, links, byom>>

\* external_command_terminalize, by the same human.
Deny ==
    LET m == [op |-> "terminalize", formation |-> Current, n |-> 0]
    IN  /\ at.step = "deny"
        /\ wire' = wire \union {m}
        /\ at' = [at EXCEPT !.step = "await", !.sent = m]
        /\ UNCHANGED <<seam, durable, domain>>

\* The call returns: byom's answer if it acted, and silence at any time.
Hear ==
    /\ at.step = "await"
    /\ \E fact \in {at.fact, "unknown"} \ {None} :
          at' = IF at.sent.op = "form" THEN [at EXCEPT !.step = "conclude", !.fact = fact]
                ELSE IF fact = "refused" THEN Idle
                ELSE [at EXCEPT !.step = "apply", !.fact = fact]
    /\ UNCHANGED <<seam, durable, byom>>

-----------------------------------------------------------------------------
(* byom, the seam, and the daemon's death.                                 *)

\* What byom makes of a command: the domain afterwards and its answer.
Acts(m) ==
    LET d == domain[m.formation]
    IN  CASE d = "committed"  -> {<<d, "committed">>}
          [] d = "tombstoned" -> {<<d, "tombstone">>}
          [] d = "fenced"     -> {<<d, "refused">>}
          [] d = "open" /\ m.op = "form" ->
                {<<"committed", "committed">>, <<"tombstoned", "tombstone">>, <<d, "refused">>}
          [] d = "open" /\ m.op = "terminalize" ->
                {<<"tombstoned", "tombstone">>, <<d, "not_terminalizable">>, <<d, "refused">>}

\* byom acts on a command it was sent, whether anyone still waits or not.
Act(m) ==
    /\ \E act \in Acts(m) :
          /\ domain' = [domain EXCEPT ![m.formation] = act[1]]
          /\ at' = IF at.step = "await" /\ at.sent = m THEN [at EXCEPT !.fact = act[2]]
                   ELSE at
    /\ wire' = wire \ {m}
    /\ UNCHANGED <<seam, durable>>

\* A restore fences what it finds absent.
Fence(f) ==
    /\ domain[f] = "open"
    /\ domain' = [domain EXCEPT ![f] = "fenced"]
    /\ UNCHANGED <<seam, durable, wire, at>>

\* Governance opens, takes or spends an epoch of the scope between commands.
MoveSeam ==
    /\ at = Idle
    /\ Seam!Next
    /\ opened'[Scope] <= MaxEpoch
    /\ UNCHANGED <<durable, byom, at>>

Crash == at # Idle /\ End /\ UNCHANGED <<seam, durable, byom>>

FormationNext ==
    \/ \E f \in Formations : Prepare(f) \/ Cancel(f) \/ Fence(f)
    \/ \E c \in Commands : Start(c) \/ Reconcile(c)
    \/ BeginAttempt \/ Submit \/ Conclude \/ BeginLink \/ Link
    \/ Query \/ ApplyFact \/ Mint \/ Deny \/ Hear
    \/ \E m \in wire : Act(m)
    \/ MoveSeam \/ Crash

FormationSpec == FormationInit /\ [][FormationNext]_vars

-----------------------------------------------------------------------------
(* Properties.                                                             *)

\* Every variable keeps its shape.
FormationTypeOK ==
    /\ opened \in [{Scope} -> Nat] /\ holder \in [{Scope} -> Nat]
    /\ spent \in [{Scope} -> SUBSET Nat]
    /\ intent \in [Formations -> Intent \union {None}]
    /\ attempts \in [Formations -> Seq(Attempt)]
    /\ links \subseteq Formations
    /\ domain \in [Formations -> {"open", "committed", "tombstoned", "fenced"}]
    /\ wire \subseteq Message
    /\ at \in Work

\* "`submitting` is DURABLE before any byte leaves Kovee": whatever of a
\* formation byom has acted on or may still act on, the records show that it
\* was sent and under which seam, after any crash.
SentIsRecorded ==
    \A f \in Formations :
        /\ \A m \in wire : m.op = "form" /\ m.formation = f =>
              /\ m.n \in 1 .. Len(attempts[f])
              /\ intent[f].state # "prepared"
              /\ attempts[f][m.n].pin = intent[f].pin
        /\ domain[f] = "committed" => attempts[f] # <<>> /\ intent[f].state # "prepared"

\* Kovee ends a formation only as byom decided it, or before it ever asked.
Fate == INSTANCE EndeavorFate WITH
    fate  <- [f \in Formations |->
                IF domain[f] = "committed" THEN "committed"
                ELSE IF \/ domain[f] # "open"
                        \/ intent[f] # None /\ intent[f].state = "canceled" THEN "denied"
                ELSE "open"],
    known <- [f \in Formations |->
                IF intent[f] = None THEN "open"
                ELSE IF intent[f].state = "linked" THEN "committed"
                ELSE IF intent[f].state = "canceled" THEN "denied"
                ELSE "open"]
FateSpec == Fate!Spec
=============================================================================
