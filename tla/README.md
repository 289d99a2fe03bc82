# A verification project for Kovee

Kovee (`src/crates/`) is a local daemon, `koveed`, that keeps collaborative
spaces, runs assistants in them and spends budget on their behalf. The budget
and the authority to spend it belong to another daemon, byom, which Kovee calls
over a socket. This directory holds TLA+ models of Kovee's core, TLC
configurations that check them on small instances, and TLAPS proofs of the
theorems that should hold for every instance.

Line numbers below are those of the files under `src/`.

## 1. Inventory

### The process

One process, one SQLite store behind one mutex, one thread per connection. A
handler takes the mutex at its beginning and keeps it to its end, the calls to
byom included (`koveed/src/dispatch.rs:358-1452`), so handlers do not
interleave. What is hard is elsewhere: one handler commits several SQL
transactions, makes several remote calls and moves files; the process can die
between any two of them; a remote call can be refused, lost, or processed after
its caller gave up; byom moves on its own meanwhile; and the same thing is asked
again, by a client that saw no answer or by the sweeps that `Daemon::new`
(`dispatch.rs:205-256`) runs at start-up.

### Components

| Component | State | Operations | Hard behaviour | Modelled in |
|---|---|---|---|---|
| Capacity ledger, `koveed/budget.rs`, `kovee-byom/budget.rs` | accounts with a ceiling and five buckets; subordinate reservations and their holds; settlement sagas | grant, delegate, rollup, reserve, deny, mark_uncertain, settle_begin/commit/denied/unknown, release, reconcile_uncertain | conservation; a hold that explains each reserved unit; two transactions per operation; sagas over a peer | `CapacityLedger` |
| Episode pipeline, `koveed/episode.rs` | placement and episode bindings, the terminal tail's saga row | request, place, admit, claim, begin, bind, checkpoint, settle, yield, complete; two sweeps | two fences, two ledgers that must agree, a five-step commit across two daemons | `EpisodeTail`, in part |
| Model broker, `koveed/model_broker.rs`, `kovee-effects` | effects, attempts, permits and their consumption, usage reports | complete, recover_dispatching, reconcile | an external call with an unknown outcome; a permit used once | `ModelEffect` |
| Command transaction, `kovee-store/lib.rs` | idempotency records, events, outbox, audit chain | command_transaction(_guarded), append_event | replay, crash before and after the commit, dense sequences | `WorkerCommands`, in part |
| Worker invocations, `koveed/invoke.rs`, `credentials.rs` | invocations, attempts, leases | create, claim, complete, cancel | fences, a dead worker's replayed call | `WorkerCommands`, in part |
| Endeavor formation, `koveed/formation.rs` | intents, slots, attempts, links | prepare, start, cancel, reconcile | a saga whose remote command may act after everybody stopped waiting | `Formation` |
| Greenfield governance, `koveed/governance.rs` | enablements with their bindings and mappings, owner bindings | enable, disable, show | three transactions of one command; scopes that overlap; a Society that is recovered meanwhile | `Greenfield` |
| Artifact pipeline, `kovee-artifacts` | uploads, artifacts, files on disk | begin, finalize, abort, erase, sweep | a file system and a database that commit separately | `Artifacts` |
| Spaces, dispositions, administration, lifecycle | contributions, relations, reactions, participants, grants, lenses, prepared changes of access | the operations of `disposition_ops.rs`, `lifecycle_ops.rs`, `space_admin_ops.rs` | a redaction that must leave nothing; a change confirmed over something else than was reviewed | `SpaceContent` |
| Erasure, `kovee-store/privacy.rs`, `objkey.rs` | tombstones, privacy chain, pending compaction | erase, compact | a crash between the commit and the compaction | `Artifacts`, in part |
| Protocol core, socket front, MCP, command line, stub crates | none, or none that is shared | parsing, formatting, pure I/O | | not modelled |

How they meet: the episode pipeline and the model broker both call the ledger,
and both call byom; the ledger's sagas are resolved by the episode sweep; the
start-up runs the compaction and the staging sweep, the broker's recovery, the
ledger's provisioning and both sweeps in a fixed order; a promotion crosses the
seam that greenfield governance opens and closes; a contribution cites an
artifact, and its redaction erases it; everything goes through the command
transaction.

What makes each correct is in the `hazards` list of `PROJECT.json`, at the line
where it bites, with the property that would catch it.

## 2. Modules

| Module | What it is |
|---|---|
| `BucketFlow` | What the ledger promises: quantity in five buckets, moved only down the pipes between them, a ceiling that is their sum. |
| `CapacityLedger` | `budget.rs`, one action per operation, with the crashes inside an operation. Implements `BucketFlow`. |
| `EpisodeTail` | `episode.rs`, the metering of `model_broker.rs` and the start-up of `dispatch.rs`, over `CapacityLedger` (which it EXTENDS), against an external byom. |
| `ModelEffect` | `model_broker.rs` and the decisions it takes from `kovee-effects`: one governed model call, statement by statement, with byom and the provider outside. |
| `WorkerCommands` | `kovee-store/lib.rs`'s command transaction, and the commands of an owner and of workers that meet in one project (`invoke.rs`, and parts of `assistant_ops.rs`, `handlers.rs`, `space_ops.rs`). |
| `ScopeAuthority` | What governed ownership of a realm's scopes promises. |
| `Greenfield` | `governance.rs`, transaction by transaction. Implements `ScopeAuthority`. |
| `EndeavorFate` | What a promotion promises of the Endeavors it asks byom for. |
| `Formation` | `koveed/formation.rs` and the machine of `kovee-byom/formation.rs`. Implements `EndeavorFate`; its environment is one scope of `ScopeAuthority`. |
| `Artifacts` | `kovee-artifacts`, its files and its rows, and the compaction of `kovee-store`. |
| `SpaceContent` | `disposition_ops.rs`, `lifecycle_ops.rs`, `space_admin_ops.rs` and the creations they stand on, over `Artifacts` (which it EXTENDS). |
| `SumProofs` | Facts about sums over finite sets, which the proofs about the ledger's accounts need. |
| `*Proofs` | Theorems about the module of that name; `ContentProofs` about `SpaceContent` and `Artifacts`. |
| `MCLedger`, `MCEpisode`, `MCEffect`, `MCCommands`, `MCGreenfield`, `MCFormation`, `MCContent` | Small instances. |

A definition that starts with "Mutant:" in its comment is not a part of the model:
it is a plausible bug that breaks one property, kept to show that the property
says something.

### CapacityLedger and the code

* `ledger[<<account, dimension>>]` is a row of `kovee_capacity_accounts`, with
  `opened` the rows that exist; `state`, `account`, `amount`, `charged` a row of
  `byom_subordinate_reservations`, under its stable external key; `holdState`
  and `holdCharged` the rows of `kovee_capacity_reservations` it owns (all holds
  of a reservation change state in one statement, so there is one state for
  all); `saga` a row of `kovee_settlement_saga`.
* An operation is one action. A refused call changes nothing and is a disabled
  action. Where an operation commits a second or a third transaction (the
  confirmation in `reserve`, the event at the end of every operation), `handler`
  says what is left, `Continue` is that transaction, and `Crash` forgets it.
* `announced` is the set of reservation events appended. Events are keyed by
  (stable key, event type) as in `event()` (`budget.rs:1954`).
* An item's dimension occurs once in a reservation; the account is the realm's
  or one child's.

### EpisodeTail and the code

* Every key of the ledger is one Episode. `binding`, `tail`, `effect`,
  `reported` are columns; `spent` is what the provider measured, known to the
  process that made the call. `created` is the order of the saga rows'
  `created_at`, which the sweep follows; ties are not modelled.
* `call` is the running handler's program counter: each step is one SQL
  transaction or one call to byom. `mode` is where the daemon is in its life.
* byom is external. `SettleBridge`, `Terminalize` and `TerminalCharges` state
  what `episode.rs` and `model_broker.rs` rely on and say of it: a bridge
  settles once and replays its charge; a terminal Episode has no token; a bridge
  never settled is charged a maximum, at least the subordinate's items and at
  most the parent's worst case; its answer names that charge. `late` and
  `lateComplete` are requests whose caller gave up (`bpp.rs:52`, 20 seconds) or
  died; byom processes them later or never.
* `Bind` stands for claim, begin, start and bind, of which only the last one
  touches what is modelled here. A model makes at most one model call in an
  Episode, and yields and checkpoints (no budget) are left out.
* The Episode operations are called by the pipeline's library interface; the
  sweeps by `Daemon::new`. `Requests` are the former, in any order.

### ModelEffect and the code

* `at` is the program counter of `complete`: `Plan`, `Prepare`, `PeerConsumes`,
  `StoreConsumption`, `Authorize`, `InsertAttempt`, `ClaimUse`, `Send`, `Hear`,
  `RecordOutcome`, `Meter` and the others are its SQL statements and its two
  remote calls, in the order of `model_broker.rs`. The
  rows are `row` and `effect` (`model_effects`), `consumption`
  (`external_authorization_consumptions` with byom's stored receipt), `attempt`
  (`model_effect_attempts`), `reported` (`model_usage_reports`).
* `NextState`, `Authorizes`, `Plannable`, `Disclosed` and the sets of answers are
  the pure functions of `kovee-effects` (`attempt.rs`, `permit.rs`, `broker.rs`,
  `manifest.rs`, `transport.rs`, `driver.rs`).
* The environment: byom's fence moves, a receipt expires, byom keeps its own
  record of a consumption and replays it, the provider's answer may not be
  heard. `sent`, `wire` and `heard` are history of the wire. `heard` is the whole
  answer of the provider: whether it is a reply that the driver can read and what
  usage it reports, if any. `Counted` is what the driver and the broker make of it,
  which is not the same: the usage of an answer without text is dropped
  (`driver.rs:245`), and a reply without a usage counts zero (`driver.rs:258`).

### WorkerCommands and the code

* `invocation`, `revision` and `attempt` are columns of `invocations` and
  `invocation_attempts` (one attempt for each invocation, `att-<invocation>`, as
  `invocation_claim` makes it); `branch` and `spaceRevision` one open branch and
  its space; `events`, `streamNext`, `projectNext`, `records` are the tables of
  the store. `answered` is history: the successful replies that left the daemon.
* A command is one SQL transaction behind the store's mutex: one action, whose
  guard is every check of the handler. A refusal changes nothing and is a
  disabled action. A crash before the commit changes nothing either; one after
  it loses the reply, which `Reply` may always do.
* A request is a record of what the request digest covers, and of its
  idempotency key. Clients send any request of `Requests`, at any time, any
  number of times: retries, delays and reordering need no action of their own.
* Left out: the result caps (a refusal more), the audit chain, the outbox,
  deployments, and other statuses of a space than open. `claimed` and `failed`
  are states no code sets.

### Greenfield, Formation and the code

* `enabled[s]` is the `greenfield_enablements` rows of a scope, each with the
  states of its realm binding and Society mapping; row n is epoch n. `owner` is
  `kovee_governance_owner_bindings`. `asked` and `taken` are the command receipts
  of the three transactions of an enablement: `key`, `key#rollback`,
  `key#activate`. `at` is the running command with what it read from byom
  before. Byom's Society may be recovered or replaced at any step.
* The refinement of `ScopeAuthority` reads a scope's epochs off the rows: the
  latest, those no row can make active again, and the one that is active with an
  owner row.
* In `Formation`, `intent` is a row of `endeavor_formation_intents` with its slot,
  `attempts` the `endeavor_formation_attempts` in the order of their ordinals,
  `links` the external links, `receipts` the receipts of every step of a start or
  a reconcile. `Resolve` is the machine of `kovee-byom/formation.rs`. `wire` holds
  commands byom has not acted on: it may act on one at any later time. The seam
  (`opened`, `spent`, `holder`) moves by `ScopeAuthority`'s steps, which
  `Greenfield` is shown to implement: the two compose through it.

### Artifacts, SpaceContent and the code

* The rows are variables named after their columns; `staging`, `partial` and
  `sealed` are what is in the two directories, keyed by upload and by content.
  `job` is the running command and its step: a finalize is the transaction that
  commits `sealing`, a read, a write to `.tmp`, a rename, the final transaction
  and the removal of the staging file; `Crash` falls before any of them, and
  `Start` runs the compaction and the sweep. The uploader owns the staging path
  and writes, truncates or removes it whenever it likes.
* `residue` says whether a freed page or a WAL image still holds erased
  plaintext: a deletion sets it, VACUUM clears it; `pending` is the row of `meta`
  that makes the next start run it again. The compaction may fail at any of its
  statements (`Fails`): a redaction is then answered with the error and the daemon
  serves on (`disposition_ops.rs:469`), a start is over (`kovee-store/lib.rs:435`).
* A file may stay: every `remove_file` of the pipeline drops its error. `Removed`
  and `EraseFiles` let any file stay that is there; `stray` is history of the
  staging files an uploader wrote after the end of their upload or that could not
  be removed, `stuck` of the sealed objects an erasure could not remove.
* A redaction removes the files while its transaction is open (`Redact`) and
  commits or rolls back afterwards (`RedactCommit`, `RedactFails`); `torn` is
  history: artifacts whose bytes went in a redaction, committed or not.
* A revision is only compared with one pinned before: `current` holds the
  prepared changes whose pinned revision is still the row's, and `Bump` takes out
  those of the row that moved. The item set of a prepared change is the set of
  contributions in its scope.
* Left out: contributions older than schema V5, built-in lenses, reactions on
  relations, the outbox, the privacy chain, a crash between the removals of two
  files of one sweep (each is repeated by the next start).

## 3. Runs

Deadlock is checked in `greenfield` and `content`. The other daemons stop where
nothing is asked of them, or a bound of the model is reached. In the ledger and
Episode runs, states that differ only in `announced` are one state (`VIEW
WithoutEvents`): no step reads it.

| Run | Question | Bounds |
|---|---|---|
| `ledger_api` | Any order of calls, any crash: is quantity conserved, never promised twice, never unspent, are children what was delegated to them, is an event true when it is appended? Does the ledger implement `BucketFlow`? | two reservations worth 2 each, a ceiling of 2 or 3, one child, one saga: either both fit or they compete |
| `ledger_two_dims` | a violation, see 5 | one reservation, two dimensions |
| `episode_one` | One Episode, all its settlements, any crash. Does a start-up sweep end? | all four saga keys; a reservation of 1; usage 1 (fits) or 2 (does not) |
| `episode_two` | Two Episodes over capacity for one or for both, without a crash between the two transactions of `reserve` | ceiling 1 or 2, each Episode needs 1, usage 1 or 2; a model call of one of them only |
| `episode_split`, `episode_resume` | violations, see 5 | usage 1 |
| `worker_commands` | Any requests in any order, repeated, late, altered, with replies lost | an owner and one worker, two invocations; 13 requests, among them two under one key, two heads, a stale fence and another invocation's binding |
| `worker_reclaim` | a violation, see 5 | the same |
| `model_effect` | Any call repeated or altered, any crash, any silence: does a request leave at most once, and as assented? | one act, four calls (as assented, another limit, other words, a limit too high), one move of the fence; an answer is a reply or is not, and reports a usage of 2 or none |
| `greenfield` | Any race of two overlapping scopes and of commands sent again: is there one owner at most, and is the seam the owner's? Does the saga implement `ScopeAuthority`? | a project and its space, two Societies, seven requests under three keys; three epochs for each scope (the third follows one that was rolled back and one that was disabled), one recovery of byom |
| `formation` | A promotion repeated, reconciled, denied, canceled, with a late byom: does it implement `EndeavorFate`? | one formation, two starts under different authentications, a reconcile, one that denies; two epochs of the seam (the pinned one and a later one) |
| `content` | Do rows and files agree at rest, and has every freed page its mark, whatever dies or fails? Is a change of access confirmed only over what was prepared? | one artifact and three contents (right, wrong, too large), two contributions, two prepared changes, one each of the rest; see below |

The bounds: a settlement has three outcomes that matter (zero, within the items,
above them), all of which occur with a reservation of 1 and usages 1 and 2. Two
reservations are needed for a competition, and two sagas for a settlement that
finds the reservation settled under another key. In `worker_commands` each kind
of request occurs once, or twice where two of them can meet: two claims, two
cancels, two appends for one head, two requests under one key. `MaxFence`,
`MaxEpoch` and `MaxEra` cap counters the code does not cap; each lets the counter
move once past every value something was pinned at.

`content` explores the parts of the state in the combinations of `Together`
(`CONSTRAINT InOnePart`), because most of them do not meet: contributions,
redactions and crashes go with each, the files of an upload and a
compaction that fails or is cut short (`pages`) go with each other only, prepared
changes go with each thing that can make one stale (the life of a space,
dispositions, another change). Contributions are alike and so are changes
(`SYMMETRY Twins`); the run has no liveness property.

`Orderly` (in `CapacityLedger`) is the order the ledger does not enforce itself:
a settled reservation stays settled until it is released, an uncertain one
uncertain until it is released, and a released one keeps its charge, even where
it is settled again. `episode_one` checks that the episode code keeps it
(`KeepsTheOrder`), and `KeepsTheOrderHolds` proves it.

`ReserveCompletes`, in `SteadySpec`, excludes one crash, the one between the two
transactions of `reserve`. With it, the ledgers do part (`episode_split`);
`episode_two` shows on its instance, and `OneLedgerHolds` proves for every one,
that it is the only way they do.

Fairness: in `EpisodeTail`, `FairSpec` is weak fairness of `Work`, the steps of
the daemon's own thread. The code has no lock a running handler waits for, and
every call to byom ends after 20 seconds, with or without an answer. No answer of
byom, no request and no restart is fair. In `ModelEffect`, `FairSpec` is weak
fairness of `Daemon`: a call under way goes on, and a start-up goes through its
sweep. That includes `Restart`: a dead daemon is started again. No request and no
answer is fair there either. `Settles` does not lean on the restart, because it is
about a daemon that in the end stays up.

What the properties say:

* The ledger: `Conservation` (each ceiling is the sum of its buckets),
  `NeverOverdrawn`, `HoldsExplainReserved` (no bucket holds what no hold
  explains), `ChildrenAreFunded`, `NextEventIsTrue`, `SpendingIsFinal`,
  `FlowSpec` (`BucketFlow` is implemented). `RecordMatchesLedger` (a record's
  charge is what its holds committed) and `ReleaseIsExact` (a release returns
  what is unspent) need the order of `KeepsTheOrder` and are checked over the
  Episodes.
* `OneLedger`: once this side has settled or released, it charged what byom
  charged. `PeerChargeIsHeld`: until it has heard of it, it holds at least
  that. `MaxedIsHeld`: a maximum byom charged on its own is not answered by
  releasing. `ReleasedByTail`: nothing is let go outside a tail, and a done tail
  holds nothing. `CapacityComesHome`: what the realm lacks in the end is what
  byom charged. `SweptTailsFinish`: a start-up sweep finishes what is past its
  settlement. `SweepEnds`: and it ends.
* `OnceEach`: a key takes effect at most once. `AnswersStand`: a reply names the
  event of that very request, and replies to one request are the same.
  `DenseSequences`: the numbers of the project and of each stream have no gap.
  `RowsFollowEvents`: invocations and the branch can be rebuilt from the events.
  `FencedWrites`: what a worker wrote lies between the claim and the end of its
  invocation. `NoReceiptForTheDead`: after the end it is not answered either.
* `SentOnce`: a request leaves once, after byom's consumption, the attempt and
  the local claim. `SendsAreCovered`: with the words assented to, under the fence
  the Episode has. `HonestOutcome`: no attempt is completed without a reply, nor
  failed unless nothing left or an answer that is no reply was heard.
  `SeenIsMetered`: byom is told a number of observed outcomes only; of a reply the
  usage it reported, zero when nothing left, never more than was reported. What of
  an answer that is no reply both allow, and what the code's comments say of it,
  is in 5. `Settles`: nothing stays in `dispatching`.
* `NoOverlappingActiveOwners`: two overlapping scopes are not owned at once.
  `SeamIsOwned`: the binding and mapping that `active_seam` reads belong to the
  owner's epoch. `AuthoritySpec`: an epoch is opened, taken once, spent for good.
* `SentIsRecorded`: what byom acted on or may act on has its attempt row, under
  the pinned epoch. `FateSpec`: Kovee links only what byom committed, and gives
  up only what byom denied or was never asked for.
* `FilesFollowRows`: at rest, an available artifact is what was declared and has
  its sealed bytes, unless an erasure took them, and no staging file outlives its
  upload, unless it was written afterwards or could not be removed.
  `RedactionLeavesNothing`: at rest, of a redacted contribution no event, receipt,
  secret or half-sealed byte is left, a sealed one only where it could not be
  removed, and freed pages only with the mark by which they are compacted again;
  no start goes on to its sweep with them. `ConfirmedAsPrepared`: a change is confirmed over the items and the
  access it was prepared over.

## 4. Proofs

What is proved holds for every value of the constants that meets the
assumptions stated with them, every order of steps and every crash. Each module
has an inductive invariant, since what is worth knowing is seldom inductive: it
adds what a running command has established, because a crash may end it
anywhere.

`CapacityLedgerProofs`: `TypeCorrect`, `ConservationHolds`,
`NextEventIsTrueHolds`, `EventsAreTrueHolds` from the assumptions on the constants
alone; in one dimension (`OneDimension`), `NeverOverdrawnHolds`,
`LedgerImplementsFlow` (initial states and steps of `BucketFlow`) and
`SpendingIsFinalHolds`, and the sums below. `SafeLedger`, the inductive invariant, adds to the type
what each operation needs to know of the others: a hold is charged no more than
its amount, an existing reservation names an opened row, what a saga recorded was
within the hold when it began. Every operation changes a row of the ledger by one
of the moves of `RowMoves` (lemma `StepRow`), and a move between two buckets
keeps a row's sum and, when covered, its sign. One dimension is assumed because
the code charges every hold of the account whatever its dimension (run
`ledger_two_dims`): with two, a hold is overdrawn.

What adds up, over any finite set of reservations and children (`FiniteAssumption`,
the tables being finite): `ChildrenAreFundedHolds` in any number of dimensions;
`HoldsExplainReservedHolds` in one; and for the specification whose callers keep
the order (`OrderlySpec`), `RecordMatchesLedgerHolds` and `ReleaseIsExactHolds`.
`HoldsInv` adds to the sums what an existing reservation is (`Placement`: it names an
account and reserves something, and is `uncertain` only with its holds); `OrderlyInv`
adds when a record has its charge (`Told`) and that it is its holds' (`Recorded`),
which without the order is false: a late settlement charges a reservation again. Every
step changes the hold of one reservation and one row by the same quantity
(`KeepsHolds`), or a child's ceiling and the realm's `delegated` (`KeepsFunding`).

`SumProofs` has what the provers lack for that: the sum over a finite set
(`SumFunctionOnSet`, a fold that takes its elements in an order of its own) is any
element's term plus the sum of the others (`SumRemove`). The library's induction
over finite sets takes an operator as a parameter, so the proofs use its
set form instead: a set of subsets in which none is least is empty (`NoLeast`, from
the well-foundedness of strict inclusion).

`EpisodeTailProofs`, for any set of Episodes, any items and usages, any answer of
byom and a crash after any step: `EpisodeTypeCorrect`, `KeepsTheOrderHolds`,
`PipelineImplementsFlow`, `PeerChargeIsHeldHolds`, `MaxedIsHeldHolds`,
`ReleasedByTailHolds`, `SweptTailsFinishHolds`, `EpisodeRecordMatches`,
`EpisodeReleaseIsExact`, and under `SteadySpec` `OneLedgerHolds` and
`CapacityComesHomeHolds`. Since `EpisodeTail` extends the ledger, its invariant `Inv` is the
ledger's (`SafeLedger`, `NextEventIsTrue`) with `TailInv`, which says

- of each Episode, what its reservation means: nothing is charged before it is
  settled, and its hold follows its state (`LocalOK`); what byom's bridge and the
  answers still under way may be while this side stands there (`BridgeOK`: byom
  knows no Episode without a reservation, has settled whatever this side has
  settled, and a charge not yet heard of is within the items); and that a tail lets
  go of nothing before its binding, nor of the binding before its settlement
  (`TailOK`);
- of each settlement row, that it is within the items and, once the reservation is
  settled, that both sides charged the same (`SagasOK`);
- of the running operation, what its earlier steps have established, step by step
  (`CallOK`), and of an operation that carries a tail, the phase it was found in
  (`ResumeOK`). A step reads rows that the operation wrote or that byom answered for
  some transactions earlier; these conjuncts are what makes that sound;
- of the daemon, that an operation runs in its mode only and that a sweep's list holds
  what is unfinished (`ModeOK`), and that an admit waits while `reserve` is between
  its two transactions (`HandlerOK`).

A `Die` forgets the operation and falsifies nothing the rest says, so the same
invariant carries the restart and both sweeps. `KeepsTheOrder` then says that the
pipeline calls the ledger only as `ApiSpec` allows, so `LedgerImplementsFlow` gives
`PipelineImplementsFlow` by implication: whatever is proved of the ledger under any
admissible client holds under this one. `OneLedger` needs `SteadyInv` besides, that
a reservation byom knows of is confirmed; it fails without the assumption that no
crash falls inside `reserve` (run `episode_split`).

By the same implication the sums of the ledger hold under the pipeline, which keeps
the order (`PipelineIsOrderly`). `CapacityComesHome` puts the two sides together:
nothing is held when every tail is done, so the realm lacks what is `committed`,
which is the sum of the holds' charges (`HoldsExplainReserved`), which are the
records' (`RecordMatchesLedger`), which are byom's (`OneLedger`). `HomeInv` adds that
the pipeline leaves `uncertain` and `delegated` empty and that byom charges no bridge
it has not opened.

One step of the proof confirms a comment of the code. `adopt_terminal_charge` is
called there a defensive arm that "this ordering does not produce"
(`episode.rs:2176`); lemma `AdoptTail` shows that it never begins a settlement: a tail
reaches byom's completion with its reservation either settled, and then byom has
settled too and takes no maximum, or never confirmed, and then `settle_begin` refuses.

`WorkerCommandsProofs`, for any invocations and any set of requests the
dispatcher can scope (`RequestsAssumption`): `TypeCorrect`, `OnceEachHolds`,
`AnswersStandHolds`, `DenseSequencesHolds`, `FencedWritesHolds`,
`NoReceiptForTheDeadHolds`, `RowsFollowEventsHolds`, `OneHistoryHolds`. Every command is a replay, a claim that only records
(`Quiet`) or an effect with one event (`Effect`; lemma `StepKinds`), and each
invariant is preserved by the three kinds:

* `Linked`: every event's request has the record of its key, every record points
  at its own event, every reply is what its record holds. A fresh key has no
  record, so it has no event and no reply either: at most once, and one answer.
  `OnceEach` alone is not inductive: it does not say that an event leaves a record.
* `Lived`: the end of an invocation is in its row, and a running row has its claim
  in the events. `check_binding` reads the row (lemma `BoundRuns`); the property
  is about the events.
* `Counted`: the heads are the numbers of events plus one.
* `Rebuilt`: the last lifecycle event of an invocation is its row, the n-th append
  is the n-th entry of the branch and carries the space's revision with it. With
  `OnceEach` it gives `OneHistory`, which no run states: each entry's author had
  seen exactly the entries before it, and no key appended two.

`ModelEffectProofs`: `Invariant`, `TypeCorrect`, `SendsOnce`,
`OutcomesAreHonest`, `SeenMetered`, `SendsCovered`. `InHand` says what the
call under way rests on (at the exchange: the attempt is `dispatching`, the
consumption spent, nothing sent), `Chain`, `Seen` and `Decided` what rows, wire and
byom's records keep once it is over. `SentOnce` needs it because nothing in the
act itself forbids a second exchange: the absence of an attempt row does, and the
row is written two transactions earlier.

`GreenfieldProofs`: `GreenfieldTypeSafe`, `NoOverlapSafe`, `SeamSafe`,
`GreenfieldImplements`. `IInv`: only a scope's last enablement can be live
(`RowsFollowState`), the owner row is the last epoch's (`OwnerFollowsLast`), a
receipt names an epoch that exists (`ReceiptsName`), and a handler past its first
transaction has its receipt. `NoOverlap` reads rows and owners, each of its own
scope; that the two tables agree is what makes the check of the last transaction
enough. The refinement follows transaction by transaction.

`FormationProofs`: `FormationTypeSafe`, `SentIsRecordedSafe`,
`FormationImplements`. `Agrees` says what a formation's rows imply of byom's
domain, `Carries` what the running command's facts imply: a fact it read may be
old, but it is `Backed`, since byom's commitments and denials are final.

`ContentProofs`: `ContentTypeSafe`, `ContentSafe`, `FilesFollowRowsSafe`,
`RedactionLeavesNothingSafe`, `ConfirmedAsPreparedSafe`. The first two properties
are about a daemon at rest; `SafeInv` adds what each step of a finalize, a
redaction and a start-up has established (`JobOK`), so that a crash may fall
after any of them and any removal or compaction fail: a page that holds erased
plaintext is always marked pending, and there is none once a VACUUM is through
(`PagesOK`); what a redaction is about to commit has lost its bytes or is `stuck`;
a file being sealed belongs to a row that is `sealing`.

Of the three refinements, `BucketFlow`, `ScopeAuthority` and `EndeavorFate`, each
is proved and model-checked.

Every safety property and every action property of the passing runs is stated by a
theorem. Only model-checked: liveness (`SweepEnds`, `Settles`), which the prover does
not do, and the four properties the code violates, of which the findings speak.

## 5. Findings

Each is a run that TLC refutes; the details and the quotes are in `PROJECT.json`.

* `ledger_two_dims`: a charge lands on the holds of other dimensions.
* `episode_split`: a crash inside `reserve` leaves a reservation `requested` that
  is reported as confirmed; byom charges for it and Kovee does not.
* `episode_resume`: a tail resumed from `settling` whose answer is lost can
  never finish.
* `worker_reclaim`: a claim is answered after its invocation has succeeded.

The models also contain, as the code does, and without a run of their own:

* Ledger: `mark_uncertain` relabels the holds of a settled reservation
  (`budget.rs:1069`); a crash leaves a state no event announces
  (`budget.rs:1954`); a saga row of an already settled reservation is never
  resolved (`budget.rs:1327`), and one that cannot be applied ends the sweep
  (`budget.rs:1547`).
* Episodes: a resumed tail is done though byom never terminalized
  (`episode.rs:1697`) and releases a fenced binding (`episode.rs:1730`); usage
  whose report failed is not charged at completion (`model_broker.rs:1629`), and
  a completion settles zero over an ambiguous call (`model_broker.rs:1682`).
* Model effects: an answered call is `failed` when the answer is no reply
  (`kovee-effects/broker.rs:673`: it "may have been billed"), although `Failed` is
  documented as "no possible transmission" (`attempt.rs:44`, `107`) and as "nothing
  left" (`model_broker.rs:1478`). Of such an answer byom is told a measured zero
  (`broker.rs:681`, `model_broker.rs:1479`) even where it reported a usage: both
  drivers look for the text first and drop the rest (`driver.rs:245`, `308`),
  against "as the provider reported it" (`driver.rs:102`). A reply that reports no
  usage is told as a measured zero as well (`driver.rs:258`, `315`).
* Model effects: a stored receipt that does not report its digests is not
  compared with what a retry sends (`kovee-effects/broker.rs:625`); a crash before
  the report leaves an observed usage unmetered.
* Greenfield: a retried enable whose `#create` receipt is replayed skips
  `slot_targets`, and may be answered with another Society's binding
  (`governance.rs:332`).
* Formation: a terminalizing reconcile sent again under its own key has no fresh
  credential and never gets one; one that queries replays the old answer
  (`formation.rs:1831`).
* Content: a compaction that fails leaves the freed pages of a committed redaction
  to a daemon that serves on (`disposition_ops.rs:469`), until the command is sent
  again, another redaction runs or the daemon starts. Failed removals are dropped
  (`kovee-artifacts/lib.rs:566`, `791`, `949`, `960`, `1025`, `1106`): a staging file that stays
  goes at the next start, a sealed object never, because the row forgets its address
  (`971`).
* Content: a redaction that fails after its files are gone leaves an available
  artifact without bytes (`torn`); sealed objects of rejected or aborted uploads
  and `.tmp` files are never swept, against `DESIGN.md:2256`; a participant whose
  role is changed while proposed keeps the digest of the old one
  (`space_admin_ops.rs:266`); `policy_narrow` takes any policy for a narrower
  one; a revoked lens can be updated; a removed participant cannot be added
  again; `expires_at` of a grant is never enforced.

## 6. Not modelled

* Placement (`episode.rs:346-940`: place, advance_invocation, claim, begin) and
  its two fences, yields and checkpoints. They do not touch the budget; they are
  the next module, with the theorem that a stale fence advances no head.
* Frontier pins and context assembly, which read; the privacy chain, the audit
  chain and the outbox, which are appended to with every command and read by
  nothing that decides.
* Assistant definitions, aliases and deployments: revision checks over the
  command transaction, as `WorkerCommands` has them.
* Contributions older than schema V5 (a redaction re-keys them), built-in lenses,
  reactions on relations; a crash between the removals of two files of one sweep; a
  second connection to the database, which would hold a checkpoint back without an
  error (`kovee-store/lib.rs:883`): the daemon opens one.
* Parsing, canonical encodings and digests (pure functions over byte strings),
  socket I/O, the MCP bridge and the command line (stateless), stub crates
  (empty).

The plan from here: placement fences; an abstract command transaction (a command
takes effect once and has one answer) which `WorkerCommands` implements and the
other modules can stand on.
