--------------------------- MODULE WorkerCommands ---------------------------
(***************************************************************************)
(* Kovee's command transaction (crates/kovee-store/src/lib.rs) and the     *)
(* commands that meet in one project: the owner's invocation_create and    *)
(* invocation_cancel, the worker's invocation_claim, invocation_complete   *)
(* and application_event_emit, and the contribution_append and             *)
(* relation_assert of both (crates/koveed/src: invoke.rs,                  *)
(* assistant_ops.rs, handlers.rs, space_ops.rs).                           *)
(*                                                                         *)
(* A command is one SQL transaction, behind the store's mutex, so one      *)
(* action.  What can go wrong is around it: any client sends any request   *)
(* again, late, or with other arguments under the same idempotency key;    *)
(* the process dies before the commit, which changes nothing and is no     *)
(* step, or after it, and then the reply is lost (Reply).  A refused       *)
(* command changes nothing and is a disabled action; so is one refused for *)
(* something outside the model, a space that is closed or an object that   *)
(* is not there.                                                           *)
(***************************************************************************)
EXTENDS Naturals, FiniteSets, Sequences

CONSTANTS
    Invocations,  \* invocation ids new_id may mint, each with one attempt
    InSpace,      \* the invocations created with a space_id
    Space,        \* the space everybody contributes to, and its event stream
    Owner,        \* the owner's actor scope
    Requests,     \* the requests clients may send
    None          \* no invocation, no record, no expected revision

\* invocation_claim binds every attempt at this epoch, and nothing moves it.
FenceEpoch == 1

OwnerOps  == {"invocation_create", "invocation_cancel"}
BoundOps  == {"invocation_complete", "application_event_emit"}
BranchOps == {"contribution_append", "relation_assert"}
Ops       == OwnerOps \union BoundOps \union BranchOps \union {"invocation_claim"}
Scopes    == Invocations \union {Owner}

\* What the request digest covers, and the key it is sent under.  A worker's
\* scope is its invocation; `attempt` and `fence` are the binding it presents,
\* `head` the branch head it saw, by the number of entries under it (the
\* branch only grows, so that names the digest).
Request ==
    [op : Ops, scope : Scopes, key : STRING, inv : Invocations \union {None},
     attempt : Invocations \union {None}, fence : Nat, head : Nat,
     expected : Nat \union {None}]

\* The dispatcher derives the scope: the owner's socket, the invocation a
\* claim or a completion names, or the one the presented attempt belongs to.
WellScoped(r) ==
    /\ r.op \in OwnerOps => r.scope = Owner
    /\ r.op \in BoundOps \union {"invocation_claim"} => r.scope = r.inv
    /\ r.op = "application_event_emit" => r.scope = r.attempt
    /\ r.op \in BranchOps /\ r.scope # Owner => r.scope = r.inv /\ r.scope = r.attempt
    /\ r.op = "invocation_complete" => r.attempt \in Invocations
    /\ r.op = "invocation_cancel" => r.inv \in Invocations

ASSUME RequestsAssumption ==
    Requests \subseteq Request /\ \A r \in Requests : WellScoped(r)
ASSUME NamesAssumption ==
    /\ InSpace \subseteq Invocations
    /\ {Space, Owner, None} \intersect Invocations = {}
    /\ Owner # None /\ None \notin Requests

VARIABLES
    invocation,     \* invocations.state
    revision,       \* invocations.revision
    attempt,        \* invocation_attempts.state of the invocation's attempt
    branch,         \* branch_entries, each the request that appended it
    spaceRevision,  \* spaces.revision
    events,         \* the events table, in the order of insertion
    streamNext,     \* stream_heads.next_sequence
    projectNext,    \* projects.next_project_sequence
    records,        \* idempotency_records
    answered        \* history: successful replies that left the daemon

aggregateVars == <<invocation, revision, attempt, branch, spaceRevision>>
eventVars     == <<events, streamNext, projectNext>>
vars          == <<aggregateVars, eventVars, records, answered>>

Streams   == Invocations \union {Space}
Terminal  == {"succeeded", "canceled"}
NoRecord  == [request |-> None, result |-> None]

\* The primary key of idempotency_records.
Slot(r) == <<r.scope, r.op, r.key>>
Slots   == {Slot(r) : r \in Requests}

CommandsInit ==
    /\ invocation    = [i \in Invocations |-> "none"]
    /\ revision      = [i \in Invocations |-> 0]
    /\ attempt       = [i \in Invocations |-> "none"]
    /\ branch        = <<>>
    /\ spaceRevision = 1
    /\ events        = <<>>
    /\ streamNext    = [s \in Streams |-> 1]
    /\ projectNext   = 1
    /\ records       = [c \in Slots |-> NoRecord]
    /\ answered      = {}

-----------------------------------------------------------------------------
(* The command transaction.                                                *)

\* The connection may be gone, or the process dead, when the reply is due.
Reply(r, result) == answered' \in {answered, answered \union {<<r, result>>}}

\* Mutant: the stored request is not compared.
SameSlot(r) == records[Slot(r)] # NoRecord

\* The key was used, and for this very request.
Recorded(r) == records[Slot(r)].request = r

\* Mutant: a key is looked up in the table of replies only.
Unanswered(r) == \A a \in answered : a[1] # r

\* The key was never used: another request under a used key is a mismatch.
Fresh(r) == records[Slot(r)] = NoRecord

\* An event by request r about a resource, with its two numbers.
Event(r, stream, resource, state, rev, streamSeq) ==
    [by |-> r, stream |-> stream, resource |-> resource, state |-> state,
     revision |-> rev, streamSeq |-> streamSeq, projectSeq |-> projectNext]

\* Mutant: one counter for both sequences.
AppendEventShared(r, stream, resource, state, rev) ==
    /\ events'      = Append(events, Event(r, stream, resource, state, rev, projectNext))
    /\ projectNext' = projectNext + 1
    /\ streamNext'  = streamNext

\* append_event: one number in the stream, one in the project.
AppendEvent(r, stream, resource, state, rev) ==
    /\ events'      = Append(events, Event(r, stream, resource, state, rev, streamNext[stream]))
    /\ streamNext'  = [streamNext EXCEPT ![stream] = @ + 1]
    /\ projectNext' = projectNext + 1

\* A committed command: its record holds the bytes every replay will get.
Commit(r, result) ==
    /\ records' = [records EXCEPT ![Slot(r)] = [request |-> r, result |-> result]]
    /\ Reply(r, result)

\* The bytes of a success: the record's state and revision, and the project
\* sequence of the command's event, 0 if it appended none.
Result(resource, state, rev, at) ==
    [resource |-> resource, state |-> state, revision |-> rev, at |-> at]

Emit(r, stream, resource, state, rev) ==
    /\ AppendEvent(r, stream, resource, state, rev)
    /\ Commit(r, Result(resource, state, rev, projectNext))

-----------------------------------------------------------------------------
(* The attempt binding.                                                    *)

\* Mutant: a fence is all there is to check.
CheckFence(i, fence) == attempt[i] # "none" /\ fence = FenceEpoch

\* check_binding
CheckBinding(i, fence) ==
    /\ attempt[i] = "running"
    /\ fence = FenceEpoch
    /\ invocation[i] = "running"

\* AppendAuthor::check: the owner is bound by nothing.
Author(r) == r.scope # Owner => CheckBinding(r.attempt, r.fence)

ClaimAuthorized(i) == invocation[i] \notin {"none", "canceled"}

\* Mutant: stored bytes are for whoever has the key.
AuthorizedAlways(r) == TRUE

\* The replay authorizer each operation hands to the transaction.
Authorized(r) ==
    CASE r.op \in OwnerOps            -> TRUE
      [] r.op \in BranchOps           -> Author(r)
      [] r.op = "invocation_claim"    -> ClaimAuthorized(r.inv)
      [] r.op = "invocation_complete" -> CheckBinding(r.attempt, r.fence) /\ r.attempt = r.inv
      [] OTHER                        -> CheckBinding(r.attempt, r.fence)

\* An exact retry: the stored bytes, after reauthorization, and nothing else.
Replay(r) ==
    /\ Recorded(r)
    /\ Authorized(r)
    /\ Reply(r, records[Slot(r)].result)
    /\ UNCHANGED <<aggregateVars, eventVars, records>>

-----------------------------------------------------------------------------
(* The commands.                                                           *)

Lifecycle(r, i, state, rev) ==
    /\ invocation' = [invocation EXCEPT ![i] = state]
    /\ revision'   = [revision EXCEPT ![i] = rev]
    /\ Emit(r, i, i, state, rev)

InvocationCreate(r, i) ==
    /\ r.op = "invocation_create"
    /\ Fresh(r)
    /\ invocation[i] = "none"
    /\ Lifecycle(r, i, "queued", 1)
    /\ UNCHANGED <<attempt, branch, spaceRevision>>

\* The one attempt is bound; a claim that finds the invocation past `queued`
\* changes nothing but gets, and records, the binding.
InvocationClaim(r) ==
    LET i == r.inv
    IN  /\ r.op = "invocation_claim"
        /\ Fresh(r)
        /\ ClaimAuthorized(i)
        /\ \/ /\ invocation[i] = "queued"
              /\ attempt' = [attempt EXCEPT ![i] = "running"]
              /\ Lifecycle(r, i, "running", revision[i] + 1)
           \/ /\ invocation[i] # "queued"
              /\ Commit(r, Result(i, invocation[i], revision[i], 0))
              /\ UNCHANGED <<invocation, revision, attempt, eventVars>>
        /\ UNCHANGED <<branch, spaceRevision>>

InvocationComplete(r) ==
    LET i == r.inv
    IN  /\ r.op = "invocation_complete"
        /\ Fresh(r)
        /\ CheckBinding(r.attempt, r.fence)
        /\ r.attempt = i
        /\ attempt' = [attempt EXCEPT ![i] = "succeeded"]
        /\ Lifecycle(r, i, "succeeded", revision[i] + 1)
        /\ UNCHANGED <<branch, spaceRevision>>

\* Mutant: a cancel leaves the attempt its lease.
CancelKeepsLease(r) ==
    LET i == r.inv
    IN  /\ r.op = "invocation_cancel"
        /\ Fresh(r)
        /\ r.expected \in {None, revision[i]}
        /\ invocation[i] \in {"queued", "running"}
        /\ Lifecycle(r, i, "canceled", revision[i] + 1)
        /\ UNCHANGED <<attempt, branch, spaceRevision>>

\* Mutant: a cancel leaves the revision as it was.
CancelInPlace(r) ==
    LET i == r.inv
    IN  /\ r.op = "invocation_cancel"
        /\ Fresh(r)
        /\ r.expected \in {None, revision[i]}
        /\ invocation[i] \in {"queued", "running"}
        /\ invocation' = [invocation EXCEPT ![i] = "canceled"]
        /\ attempt' = [attempt EXCEPT ![i] = IF @ = "running" THEN "canceled" ELSE @]
        /\ Emit(r, i, i, "canceled", revision[i] + 1)
        /\ UNCHANGED <<revision, branch, spaceRevision>>

\* One terminal state wins; a running attempt loses its lease with it.
InvocationCancel(r) ==
    LET i == r.inv
    IN  /\ r.op = "invocation_cancel"
        /\ Fresh(r)
        /\ r.expected \in {None, revision[i]}
        /\ invocation[i] \in {"queued", "running"}
        /\ attempt' = [attempt EXCEPT ![i] = IF @ = "running" THEN "canceled" ELSE @]
        /\ Lifecycle(r, i, "canceled", revision[i] + 1)
        /\ UNCHANGED <<branch, spaceRevision>>

\* The event goes to the invocation's space, or to its own stream.
ApplicationEventEmit(r) ==
    /\ r.op = "application_event_emit"
    /\ Fresh(r)
    /\ CheckBinding(r.attempt, r.fence)
    /\ Emit(r, IF r.inv \in InSpace THEN Space ELSE r.inv, r.inv, "emitted", 0)
    /\ UNCHANGED aggregateVars

\* advance_branch: the head the writer saw must be the branch's head still.
AdvanceBranch(r) ==
    /\ r.head = Len(branch)
    /\ branch' = Append(branch, r)

BranchAppend(r) ==
    /\ Fresh(r)
    /\ Author(r)
    /\ r.expected \in {None, spaceRevision}
    /\ AdvanceBranch(r)
    /\ spaceRevision' = spaceRevision + 1
    /\ Emit(r, Space, Space, "appended", spaceRevision + 1)
    /\ UNCHANGED <<invocation, revision, attempt>>

ContributionAppend(r) == r.op = "contribution_append" /\ BranchAppend(r)

\* Its two ends are among what the space holds already.
RelationAssert(r) ==
    /\ r.op = "relation_assert"
    /\ branch # <<>>
    /\ BranchAppend(r)

Serve(r) ==
    \/ \E i \in Invocations : InvocationCreate(r, i)
    \/ InvocationClaim(r)
    \/ InvocationComplete(r)
    \/ InvocationCancel(r)
    \/ ApplicationEventEmit(r)
    \/ ContributionAppend(r)
    \/ RelationAssert(r)
    \/ Replay(r)

CommandsNext == \E r \in Requests : Serve(r)
CommandsSpec == CommandsInit /\ [][CommandsNext]_vars

-----------------------------------------------------------------------------
(* Properties.                                                             *)

EventStates == {"queued", "running", "emitted", "appended"} \union Terminal
EventShape ==
    [by : Requests, resource : Streams, state : EventStates, revision : Nat,
     stream : Streams, streamSeq : Nat, projectSeq : Nat]
ResultShape == [resource : Streams, state : EventStates, revision : Nat, at : Nat]

\* Every row keeps its shape; an attempt runs only under an invocation that
\* does.
CommandsTypeOK ==
    /\ invocation \in [Invocations -> {"none", "queued", "running"} \union Terminal]
    /\ attempt \in [Invocations -> {"none", "running"} \union Terminal]
    /\ \A i \in Invocations : attempt[i] = "running" <=> invocation[i] = "running"
    /\ revision \in [Invocations -> Nat]
    /\ branch \in Seq(Requests)
    /\ spaceRevision \in Nat
    /\ events \in Seq(EventShape)
    /\ streamNext \in [Streams -> Nat]
    /\ projectNext \in Nat
    /\ records \in [Slots -> {NoRecord} \union [request : Requests, result : ResultShape]]
    /\ answered \subseteq Requests \X ResultShape

\* However often a request is sent, and whichever reply was lost, its
\* idempotency key takes effect at most once.
OnceEach ==
    \A m, n \in DOMAIN events : Slot(events[m].by) = Slot(events[n].by) => m = n

\* No client is ever told of an effect it did not ask for, or told of its own
\* in two ways: a reply names the event of that very request, and every reply
\* to one request is the same.
AnswersStand ==
    \A a \in answered :
        LET at == a[2].at
        IN  /\ at > 0 => /\ at \in DOMAIN events
                         /\ events[at].by = a[1]
                         /\ events[at].revision = a[2].revision
            /\ \A b \in answered : b[1] = a[1] => b = a

\* Sequences are dense, in the project and in every stream: a consumer that
\* has seen n events of a stream knows that the next one is n + 1.
DenseSequences ==
    \A n \in DOMAIN events :
        /\ events[n].projectSeq = n
        /\ events[n].streamSeq =
             Cardinality({m \in 1 .. n : events[m].stream = events[n].stream})

\* The last event about a resource in a given set of states.
LastOf(i, states) ==
    LET about == {n \in DOMAIN events : events[n].resource = i /\ events[n].state \in states}
    IN  CHOOSE n \in about : \A m \in about : m <= n

\* The contributions and relations among the first n events.
Appends(n) == {m \in 1 .. n : events[m].state = "appended"}

\* State, events and branch commit together: the rows can be rebuilt from the
\* events, the state and revision of an invocation from its last lifecycle
\* event, the branch from the appends to its space, each of which carries the
\* revision the space had with that entry.
RowsFollowEvents ==
    /\ \A i \in Invocations :
          invocation[i] # "none" =>
            LET e == events[LastOf(i, {"queued", "running"} \union Terminal)]
            IN  invocation[i] = e.state /\ revision[i] = e.revision
    /\ Len(branch) = Cardinality(Appends(Len(events)))
    /\ spaceRevision = Len(branch) + 1
    /\ \A n \in Appends(Len(events)) :
          /\ branch[Cardinality(Appends(n))] = events[n].by
          /\ events[n].revision = Cardinality(Appends(n)) + 1

\* What a worker writes falls between the claim of its invocation and the end
\* of it, for every delay and every retry of the worker's requests.
FencedWrites ==
    \A n \in DOMAIN events :
        LET e == events[n]
        IN  e.by.op # "invocation_claim" /\ e.by.scope # Owner =>
              /\ \E m \in 1 .. n - 1 : events[m].resource = e.by.inv /\ events[m].state = "running"
              /\ \A m \in 1 .. n - 1 : events[m].resource = e.by.inv => events[m].state \notin Terminal

\* A completed attempt, or a canceled one, cannot collect its old receipt: a
\* reply lost with a worker's connection is not released to it afterwards.
NoReceiptForTheDead ==
    [][\A a \in answered' \ answered :
          a[1].op \in BoundOps \union BranchOps /\ a[1].scope # Owner
          => invocation[a[1].inv] = "running"]_vars

\* A re-claim of a terminated invocation is refused.
TerminatedClaimIsRefused ==
    [][\A a \in answered' \ answered :
          a[1].op = "invocation_claim" => invocation[a[1].inv] \notin Terminal]_vars
=============================================================================
