------------------------ MODULE WorkerCommandsProofs ------------------------
(* Theorems about WorkerCommands, for any invocations and any requests.    *)
EXTENDS WorkerCommands, SequenceTheorems, FiniteSetTheorems, TLAPS

-----------------------------------------------------------------------------
(* Requests and replies.                                                   *)

\* A command on an invocation names one.
LEMMA NamesInvocation ==
    ASSUME NEW r \in Requests,
           r.op \in BoundOps \union {"invocation_claim", "invocation_cancel"}
    PROVE  r.inv \in Invocations
<1>1. r \in Request /\ WellScoped(r)
  BY RequestsAssumption
<1> QED  BY <1>1, NamesAssumption DEF Request, WellScoped, Scopes, BoundOps

RecordShape == {NoRecord} \union [request : Requests, result : ResultShape]

LEMMA SlotInSlots == \A r \in Requests : Slot(r) \in Slots
BY DEF Slots

\* A request whose record is found is not the absent one.
LEMMA RecordedResult ==
    ASSUME NEW r \in Requests, records \in [Slots -> RecordShape], Recorded(r)
    PROVE  records[Slot(r)] \in [request : Requests, result : ResultShape]
<1>1. records[Slot(r)] \in RecordShape
  BY SlotInSlots
<1>2. records[Slot(r)] # NoRecord
  BY NamesAssumption DEF Recorded, NoRecord
<1> QED  BY <1>1, <1>2 DEF RecordShape

-----------------------------------------------------------------------------
(* Types.                                                                  *)

RowsType ==
    /\ invocation \in [Invocations -> {"none", "queued", "running"} \union Terminal]
    /\ attempt \in [Invocations -> {"none", "running"} \union Terminal]
    /\ \A i \in Invocations : attempt[i] = "running" <=> invocation[i] = "running"
    /\ revision \in [Invocations -> Nat]
    /\ branch \in Seq(Requests)
    /\ spaceRevision \in Nat
EventsType ==
    /\ events \in Seq(EventShape)
    /\ streamNext \in [Streams -> Nat]
    /\ projectNext \in Nat
RepliesType ==
    /\ records \in [Slots -> RecordShape]
    /\ answered \subseteq Requests \X ResultShape

LEMMA TypeParts == CommandsTypeOK <=> RowsType /\ EventsType /\ RepliesType
BY DEF CommandsTypeOK, RowsType, EventsType, RepliesType, RecordShape

LEMMA TypePartsNext == RowsType' /\ EventsType' /\ RepliesType' => CommandsTypeOK'
BY DEF CommandsTypeOK, RowsType, EventsType, RepliesType, RecordShape

LEMMA CommitType ==
    ASSUME RepliesType, NEW r \in Requests, NEW result \in ResultShape,
           Commit(r, result)
    PROVE  RepliesType'
<1>1. [request |-> r, result |-> result] \in RecordShape
  BY DEF RecordShape
<1>2. records' \in [Slots -> RecordShape]
  BY <1>1 DEF Commit, RepliesType
<1>3. <<r, result>> \in Requests \X ResultShape
  OBVIOUS
<1>4. answered' \subseteq Requests \X ResultShape
  BY <1>3 DEF Commit, Reply, RepliesType
<1> QED  BY <1>2, <1>4 DEF RepliesType

LEMMA EmitType ==
    ASSUME EventsType, RepliesType, NEW r \in Requests, NEW stream \in Streams,
           NEW resource \in Streams, NEW state \in EventStates, NEW rev \in Nat,
           Emit(r, stream, resource, state, rev)
    PROVE  EventsType' /\ RepliesType'
<1> DEFINE e == Event(r, stream, resource, state, rev, streamNext[stream])
<1>1. streamNext[stream] \in Nat /\ projectNext \in Nat
  BY DEF EventsType
<1>2. e \in EventShape
  BY <1>1 DEF Event, EventShape
<1>3. events' = Append(events, e) /\ projectNext' = projectNext + 1
      /\ streamNext' = [streamNext EXCEPT ![stream] = @ + 1]
  BY DEF Emit, AppendEvent
<1>4. events' \in Seq(EventShape)
  <2> HIDE DEF e
  <2> QED  BY <1>2, <1>3, AppendProperties DEF EventsType
<1>5. EventsType'
  <2> HIDE DEF e
  <2> QED  BY <1>1, <1>3, <1>4 DEF EventsType
<1>6. Result(resource, state, rev, projectNext) \in ResultShape
  BY <1>1 DEF Result, ResultShape
<1>7. RepliesType'
  BY <1>6, CommitType DEF Emit
<1> QED  BY <1>5, <1>7

LEMMA ServeType ==
    ASSUME CommandsTypeOK, NEW r \in Requests, Serve(r)
    PROVE  CommandsTypeOK'
<1>0. RowsType /\ EventsType /\ RepliesType
  BY TypeParts
<1>c. CASE InvocationClaim(r)
  <2> DEFINE i == r.inv
  <2>1. i \in Invocations /\ i \in Streams
    BY <1>c, NamesInvocation DEF InvocationClaim, Streams
  <2>2. CASE invocation[i] = "queued"
    <3>1. attempt' = [attempt EXCEPT ![i] = "running"]
          /\ Lifecycle(r, i, "running", revision[i] + 1) /\ UNCHANGED <<branch, spaceRevision>>
      BY <1>c, <2>2 DEF InvocationClaim
    <3>2. revision[i] + 1 \in Nat
      BY <1>0, <2>1 DEF RowsType
    <3>3. EventsType' /\ RepliesType'
      BY <1>0, <2>1, <3>1, <3>2, EmitType DEF Lifecycle, EventStates
    <3>4. RowsType'
      BY <1>0, <2>1, <3>1, <3>2 DEF Lifecycle, RowsType
    <3> QED  BY <3>3, <3>4, TypePartsNext
  <2>3. CASE invocation[i] # "queued"
    <3>1. Commit(r, Result(i, invocation[i], revision[i], 0))
          /\ UNCHANGED <<aggregateVars, eventVars>>
      BY <1>c, <2>3 DEF InvocationClaim, aggregateVars, eventVars
    <3>2. invocation[i] \in EventStates /\ revision[i] \in Nat
      BY <1>0, <1>c, <2>1 DEF RowsType, EventStates, InvocationClaim, ClaimAuthorized
    <3>3. Result(i, invocation[i], revision[i], 0) \in ResultShape
      BY <2>1, <3>2 DEF Result, ResultShape
    <3>4. RepliesType'
      BY <1>0, <3>1, <3>3, CommitType
    <3>5. RowsType' /\ EventsType'
      BY <1>0, <3>1 DEF RowsType, EventsType, aggregateVars, eventVars
    <3> QED  BY <3>4, <3>5, TypePartsNext
  <2> QED  BY <2>2, <2>3
<1>1. ASSUME NEW i \in Invocations, InvocationCreate(r, i)
      PROVE  CommandsTypeOK'
  <2>1. EventsType' /\ RepliesType'
    BY <1>0, <1>1, EmitType DEF InvocationCreate, Lifecycle, Streams, EventStates
  <2>2. RowsType'
    BY <1>0, <1>1 DEF InvocationCreate, Lifecycle, RowsType
  <2> QED  BY <2>1, <2>2, TypePartsNext
<1>2. CASE InvocationComplete(r)
  <2> DEFINE i == r.inv
  <2>1. i \in Invocations /\ i \in Streams
    BY <1>2, NamesInvocation DEF InvocationComplete, Streams, BoundOps
  <2>2. revision[i] + 1 \in Nat
    BY <1>0, <2>1 DEF RowsType
  <2>3. EventsType' /\ RepliesType'
    BY <1>0, <1>2, <2>1, <2>2, EmitType DEF InvocationComplete, Lifecycle, EventStates, Terminal
  <2>4. RowsType'
    BY <1>0, <1>2, <2>1, <2>2 DEF InvocationComplete, Lifecycle, RowsType, Terminal
  <2> QED  BY <2>3, <2>4, TypePartsNext
<1>3. CASE InvocationCancel(r)
  <2> DEFINE i == r.inv
  <2>1. i \in Invocations /\ i \in Streams
    BY <1>3, NamesInvocation DEF InvocationCancel, Streams
  <2>2. revision[i] + 1 \in Nat
    BY <1>0, <2>1 DEF RowsType
  <2>3. EventsType' /\ RepliesType'
    BY <1>0, <1>3, <2>1, <2>2, EmitType DEF InvocationCancel, Lifecycle, EventStates, Terminal
  <2>4. RowsType'
    BY <1>0, <1>3, <2>1, <2>2 DEF InvocationCancel, Lifecycle, RowsType, Terminal
  <2> QED  BY <2>3, <2>4, TypePartsNext
<1>4. CASE ApplicationEventEmit(r)
  <2>1. r.inv \in Streams /\ Space \in Streams
    BY <1>4, NamesInvocation DEF ApplicationEventEmit, Streams, BoundOps
  <2>2. EventsType' /\ RepliesType'
    BY <1>0, <1>4, <2>1, EmitType DEF ApplicationEventEmit, EventStates
  <2>3. RowsType'
    BY <1>0, <1>4 DEF ApplicationEventEmit, aggregateVars, RowsType
  <2> QED  BY <2>2, <2>3, TypePartsNext
<1>5. CASE BranchAppend(r)
  <2>1. Space \in Streams /\ spaceRevision + 1 \in Nat
    BY <1>0 DEF Streams, RowsType
  <2>2. EventsType' /\ RepliesType'
    BY <1>0, <1>5, <2>1, EmitType DEF BranchAppend, EventStates
  <2>3. branch' \in Seq(Requests)
    BY <1>0, <1>5, AppendProperties DEF BranchAppend, AdvanceBranch, RowsType
  <2>4. RowsType'
    BY <1>0, <1>5, <2>1, <2>3 DEF BranchAppend, AdvanceBranch, RowsType
  <2> QED  BY <2>2, <2>4, TypePartsNext
<1>6. CASE Replay(r)
  <2>1. records[Slot(r)] \in [request : Requests, result : ResultShape]
    BY <1>0, <1>6, RecordedResult DEF Replay, RepliesType
  <2>2. <<r, records[Slot(r)].result>> \in Requests \X ResultShape
    BY <2>1
  <2>3. RepliesType'
    BY <1>0, <1>6, <2>2 DEF Replay, Reply, RepliesType
  <2>4. RowsType' /\ EventsType'
    BY <1>0, <1>6 DEF Replay, aggregateVars, eventVars, RowsType, EventsType
  <2> QED  BY <2>3, <2>4, TypePartsNext
<1> QED  BY <1>c, <1>1, <1>2, <1>3, <1>4, <1>5, <1>6
         DEF Serve, ContributionAppend, RelationAssert

\* The rows keep their shapes, and an attempt runs exactly as long as its
\* invocation does: invocation_claim, invocation_complete and
\* invocation_cancel move both.
THEOREM TypeCorrect == CommandsSpec => []CommandsTypeOK
<1>1. CommandsInit => CommandsTypeOK
  BY DEF CommandsInit, CommandsTypeOK, Streams
<1>2. ASSUME CommandsTypeOK, [CommandsNext]_vars
      PROVE  CommandsTypeOK'
  <2>1. CASE CommandsNext
    BY <1>2, <2>1, ServeType DEF CommandsNext
  <2>2. CASE UNCHANGED vars
    BY <1>2, <2>2 DEF CommandsTypeOK, vars, aggregateVars, eventVars
  <2> QED  BY <1>2, <2>1, <2>2
<1> QED  BY <1>1, <1>2, PTL DEF CommandsSpec

-----------------------------------------------------------------------------
(* The three kinds of steps of the command transaction.                    *)

\* A claim that finds the invocation claimed already: a record, no event.
Quiet(r) ==
    /\ Fresh(r)
    /\ \E result \in ResultShape : result.at = 0 /\ Commit(r, result)
    /\ UNCHANGED <<aggregateVars, eventVars>>

LifecycleStates == {"queued", "running"} \union Terminal

\* An event of a lifecycle state moves its invocation there, which was not
\* ended, and an append extends the branch; no other event moves any row.
Moves(r, resource, state, rev) ==
    \/ /\ resource \in Invocations
       /\ state \in LifecycleStates
       /\ invocation[resource] \notin Terminal
       /\ invocation' = [invocation EXCEPT ![resource] = state]
       /\ revision' = [revision EXCEPT ![resource] = rev]
       /\ UNCHANGED <<branch, spaceRevision>>
    \/ /\ state = "appended"
       /\ rev = spaceRevision + 1
       /\ r.head = Len(branch)
       /\ branch' = Append(branch, r)
       /\ spaceRevision' = rev
       /\ UNCHANGED <<invocation, revision>>
    \/ /\ state = "emitted"
       /\ UNCHANGED <<invocation, revision, branch, spaceRevision>>

\* A command that takes effect.
Effect(r) ==
    /\ Fresh(r)
    /\ \E stream, resource \in Streams, state \in EventStates, rev \in Nat :
          Emit(r, stream, resource, state, rev) /\ Moves(r, resource, state, rev)

LEMMA StepKinds ==
    ASSUME CommandsTypeOK, NEW r \in Requests, Serve(r)
    PROVE  Replay(r) \/ Quiet(r) \/ Effect(r)
<1>0. RowsType
  BY TypeParts
<1>1. ASSUME NEW i \in Invocations, NEW state \in {"queued", "running"} \union Terminal,
             NEW rev \in Nat, invocation[i] \notin Terminal,
             Fresh(r), Lifecycle(r, i, state, rev), UNCHANGED <<branch, spaceRevision>>
      PROVE  Effect(r)
  BY <1>1 DEF Lifecycle, Effect, Moves, LifecycleStates, Streams, EventStates
<1>2. ASSUME NEW i \in Invocations PROVE i \in Streams /\ revision[i] + 1 \in Nat
  BY <1>0 DEF RowsType, Streams
<1>3. {"queued", "running", "emitted", "appended", "succeeded", "canceled"} \subseteq EventStates
  BY DEF EventStates, Terminal
<1>4. ASSUME NEW i \in Invocations, InvocationCreate(r, i)
      PROVE  Effect(r)
  BY <1>1, <1>4 DEF InvocationCreate, Terminal
<1>5. CASE InvocationClaim(r)
  <2>1. r.inv \in Invocations
    BY <1>5, NamesInvocation DEF InvocationClaim
  <2>2. CASE invocation[r.inv] = "queued"
    BY <1>1, <1>2, <1>5, <2>1, <2>2 DEF InvocationClaim, Terminal
  <2>3. CASE invocation[r.inv] # "queued"
    <3>1. /\ Fresh(r)
          /\ Commit(r, Result(r.inv, invocation[r.inv], revision[r.inv], 0))
          /\ UNCHANGED <<aggregateVars, eventVars>>
      BY <1>5, <2>3 DEF InvocationClaim, aggregateVars, eventVars
    <3>2. invocation[r.inv] \in EventStates /\ revision[r.inv] \in Nat
      BY <1>0, <1>5, <2>1 DEF RowsType, EventStates, InvocationClaim, ClaimAuthorized
    <3>3. /\ Result(r.inv, invocation[r.inv], revision[r.inv], 0) \in ResultShape
          /\ Result(r.inv, invocation[r.inv], revision[r.inv], 0).at = 0
      BY <1>2, <2>1, <3>2 DEF Result, ResultShape
    <3> QED  BY <3>1, <3>3 DEF Quiet
  <2> QED  BY <2>2, <2>3
<1>6. CASE InvocationComplete(r)
  <2>1. r.inv \in Invocations
    BY <1>6, NamesInvocation DEF InvocationComplete, BoundOps
  <2> QED  BY <1>1, <1>2, <1>6, <2>1 DEF InvocationComplete, CheckBinding, Terminal
<1>7. CASE InvocationCancel(r)
  <2>1. r.inv \in Invocations
    BY <1>7, NamesInvocation DEF InvocationCancel
  <2> QED  BY <1>1, <1>2, <1>7, <2>1 DEF InvocationCancel, Terminal
<1>8. CASE ApplicationEventEmit(r)
  <2>1. r.inv \in Streams /\ Space \in Streams
    BY <1>8, NamesInvocation DEF ApplicationEventEmit, Streams, BoundOps
  <2> QED  BY <1>3, <1>8, <2>1 DEF ApplicationEventEmit, Effect, Moves, aggregateVars
<1>9. CASE BranchAppend(r)
  <2>1. Space \in Streams /\ spaceRevision + 1 \in Nat
    BY <1>0 DEF Streams, RowsType
  <2> QED  BY <1>3, <1>9, <2>1 DEF BranchAppend, AdvanceBranch, Effect, Moves
<1> QED  BY <1>4, <1>5, <1>6, <1>7, <1>8, <1>9
         DEF Serve, ContributionAppend, RelationAssert

-----------------------------------------------------------------------------
(* Idempotency.                                                            *)

\* An event's idempotency record is there and is its request's.
EventsAreRecorded ==
    \A n \in DOMAIN events : records[Slot(events[n].by)].request = events[n].by

\* A record lies in its request's slot, and names its request's event.
PointsAtEvent(request, result) ==
    result.at > 0 => /\ result.at \in DOMAIN events
                     /\ events[result.at].by = request
                     /\ events[result.at].revision = result.revision
RecordsPoint ==
    \A c \in Slots :
        records[c] # NoRecord => /\ Slot(records[c].request) = c
                                 /\ PointsAtEvent(records[c].request, records[c].result)

\* A reply is what its request's record holds.
AnswersAreRecorded ==
    \A a \in answered : records[Slot(a[1])] = [request |-> a[1], result |-> a[2]]

Linked ==
    /\ CommandsTypeOK
    /\ projectNext = Len(events) + 1
    /\ EventsAreRecorded
    /\ RecordsPoint
    /\ AnswersAreRecorded
    /\ OnceEach

\* What both kinds of commits do to the records and the replies.
LEMMA CommitLinks ==
    ASSUME Linked, NEW r \in Requests, NEW result \in ResultShape,
           Fresh(r), Commit(r, result)
    PROVE  /\ records'[Slot(r)] = [request |-> r, result |-> result]
           /\ \A c \in Slots : c # Slot(r) => records'[c] = records[c]
           /\ \A a \in answered : Slot(a[1]) # Slot(r)
           /\ \A n \in DOMAIN events : Slot(events[n].by) # Slot(r)
           /\ AnswersAreRecorded'
<1>0. records \in [Slots -> RecordShape] /\ answered \subseteq Requests \X ResultShape
      /\ events \in Seq(EventShape)
  BY TypeParts DEF Linked, RepliesType, EventsType
<1>1. Slot(r) \in Slots
  BY SlotInSlots
<1>2. /\ records'[Slot(r)] = [request |-> r, result |-> result]
      /\ \A c \in Slots : c # Slot(r) => records'[c] = records[c]
  BY <1>0, <1>1 DEF Commit
<1>3. \A a \in answered : Slot(a[1]) # Slot(r)
  <2> SUFFICES ASSUME NEW a \in answered, Slot(a[1]) = Slot(r) PROVE FALSE
    OBVIOUS
  <2>1. NoRecord = [request |-> a[1], result |-> a[2]]
    BY DEF Linked, AnswersAreRecorded, Fresh
  <2>2. a[1] \in Requests
    BY <1>0
  <2> QED  BY <2>1, <2>2, NamesAssumption DEF NoRecord
<1>4. \A n \in DOMAIN events : Slot(events[n].by) # Slot(r)
  <2> SUFFICES ASSUME NEW n \in DOMAIN events, Slot(events[n].by) = Slot(r) PROVE FALSE
    OBVIOUS
  <2>1. NoRecord.request = events[n].by
    BY DEF Linked, EventsAreRecorded, Fresh
  <2>2. events[n] \in EventShape
    BY <1>0
  <2> QED  BY <2>1, <2>2, NamesAssumption DEF NoRecord, EventShape
<1>5. ASSUME NEW a \in answered'
      PROVE  records'[Slot(a[1])] = [request |-> a[1], result |-> a[2]]
  <2>1. CASE a \in answered
    <3>1. Slot(a[1]) \in Slots
      BY <1>0, <2>1, SlotInSlots
    <3> QED  BY <1>2, <1>3, <2>1, <3>1 DEF Linked, AnswersAreRecorded
  <2>2. CASE a = <<r, result>>
    BY <1>2, <2>2
  <2> QED  BY <1>5, <2>1, <2>2 DEF Commit, Reply
<1> QED  BY <1>2, <1>3, <1>4, <1>5 DEF AnswersAreRecorded

LEMMA QuietLinks ==
    ASSUME Linked, NEW r \in Requests, Serve(r), Quiet(r)
    PROVE  Linked'
<1>1. PICK result \in ResultShape : result.at = 0 /\ Commit(r, result)
  BY DEF Quiet
<1>2. Fresh(r) /\ UNCHANGED <<events, streamNext, projectNext>>
  BY DEF Quiet, eventVars
<1>3. CommandsTypeOK'
  BY ServeType DEF Linked
<1>4. events \in Seq(EventShape) /\ records \in [Slots -> RecordShape]
  BY TypeParts DEF Linked, EventsType, RepliesType
<1>5. EventsAreRecorded'
  <2> SUFFICES ASSUME NEW n \in DOMAIN events
               PROVE  records'[Slot(events[n].by)].request = events[n].by
    BY <1>2 DEF EventsAreRecorded
  <2>1. events[n] \in EventShape
    BY <1>4
  <2>2. Slot(events[n].by) \in Slots
    BY <2>1, SlotInSlots DEF EventShape
  <2> QED  BY <1>1, <1>2, <2>2, CommitLinks DEF Linked, EventsAreRecorded
<1>6. RecordsPoint'
  <2> SUFFICES ASSUME NEW c \in Slots, records'[c] # NoRecord
               PROVE  /\ Slot(records'[c].request) = c
                      /\ PointsAtEvent(records'[c].request, records'[c].result)
    BY <1>2 DEF RecordsPoint, PointsAtEvent
  <2>1. CASE c = Slot(r)
    <3>1. records'[c] = [request |-> r, result |-> result]
      BY <1>1, <1>2, <2>1, CommitLinks
    <3>2. PointsAtEvent(r, result)
      BY <1>1 DEF PointsAtEvent
    <3> QED  BY <2>1, <3>1, <3>2
  <2>2. CASE c # Slot(r)
    <3>1. records'[c] = records[c]
      BY <1>1, <1>2, <2>2, CommitLinks
    <3> QED  BY <3>1 DEF Linked, RecordsPoint
  <2> QED  BY <2>1, <2>2
<1>7. AnswersAreRecorded'
  BY <1>1, <1>2, CommitLinks
<1>8. OnceEach' /\ projectNext' = Len(events') + 1
  BY <1>2 DEF Linked, OnceEach
<1> QED  BY <1>3, <1>5, <1>6, <1>7, <1>8 DEF Linked

\* What an append does to the events.
LEMMA EmitEvents ==
    ASSUME CommandsTypeOK, NEW r \in Requests, NEW stream, NEW resource,
           NEW state, NEW rev, Emit(r, stream, resource, state, rev)
    PROVE  LET e == Event(r, stream, resource, state, rev, streamNext[stream])
           IN  /\ Len(events) \in Nat
               /\ DOMAIN events = 1 .. Len(events)
               /\ DOMAIN events' = 1 .. Len(events) + 1
               /\ Len(events') = Len(events) + 1
               /\ events'[Len(events) + 1] = e
               /\ \A n \in 1 .. Len(events) : events'[n] = events[n]
<1> DEFINE e == Event(r, stream, resource, state, rev, streamNext[stream])
<1>1. events \in Seq(EventShape) /\ events' = Append(events, e)
  BY TypeParts DEF EventsType, Emit, AppendEvent
<1> HIDE DEF e
<1>2. Len(events') = Len(events) + 1 /\ DOMAIN events' = 1 .. Len(events) + 1
  BY <1>1
<1> QED  BY <1>1, <1>2 DEF e

LEMMA EffectLinks ==
    ASSUME Linked, NEW r \in Requests, Serve(r), Effect(r)
    PROVE  Linked'
<1>1. PICK stream \in Streams, resource \in Streams, state \in EventStates, rev \in Nat :
           Emit(r, stream, resource, state, rev)
  BY DEF Effect
<1> DEFINE N == Len(events)
           e == Event(r, stream, resource, state, rev, streamNext[stream])
           result == Result(resource, state, rev, projectNext)
<1>2. Fresh(r) /\ CommandsTypeOK /\ projectNext = N + 1
  BY DEF Effect, Linked
<1>3. CommandsTypeOK'
  BY <1>2, ServeType
<1>4. /\ N \in Nat /\ DOMAIN events = 1 .. N /\ DOMAIN events' = 1 .. N + 1
      /\ Len(events') = N + 1 /\ events'[N + 1] = e
      /\ \A n \in 1 .. N : events'[n] = events[n]
  BY <1>1, <1>2, EmitEvents
<1>5. events \in Seq(EventShape)
  BY <1>2, TypeParts DEF EventsType
<1>6. e.by = r /\ e.revision = rev
  BY DEF Event
<1>7. result \in ResultShape /\ result.at = N + 1 /\ result.revision = rev
  BY <1>2, <1>4 DEF Result, ResultShape
<1>8. Commit(r, result) /\ projectNext' = projectNext + 1
  BY <1>1 DEF Emit, AppendEvent
<1> HIDE DEF N, e, result
<1>9. /\ records'[Slot(r)] = [request |-> r, result |-> result]
      /\ \A c \in Slots : c # Slot(r) => records'[c] = records[c]
      /\ \A n \in DOMAIN events : Slot(events[n].by) # Slot(r)
      /\ AnswersAreRecorded'
  BY <1>2, <1>7, <1>8, CommitLinks
<1>10. ASSUME NEW n \in 1 .. N PROVE events[n].by \in Requests /\ Slot(events[n].by) \in Slots
  <2>1. events[n] \in EventShape
    BY <1>4, <1>5
  <2> QED  BY <2>1, SlotInSlots DEF EventShape
<1>11. EventsAreRecorded'
  <2> SUFFICES ASSUME NEW n \in 1 .. N + 1
               PROVE  records'[Slot(events'[n].by)].request = events'[n].by
    BY <1>4 DEF EventsAreRecorded
  <2>1. CASE n = N + 1
    BY <1>4, <1>6, <1>9, <2>1
  <2>2. CASE n \in 1 .. N
    BY <1>4, <1>9, <1>10, <2>2 DEF Linked, EventsAreRecorded
  <2> QED  BY <1>4, <2>1, <2>2
<1>12. RecordsPoint'
  <2> SUFFICES ASSUME NEW c \in Slots, records'[c] # NoRecord
               PROVE  /\ Slot(records'[c].request) = c
                      /\ PointsAtEvent(records[c].request, records[c].result)'
    BY DEF RecordsPoint
  <2>1. CASE c = Slot(r)
    BY <1>4, <1>6, <1>7, <1>9, <2>1 DEF PointsAtEvent
  <2>2. CASE c # Slot(r)
    <3>1. /\ records'[c] = records[c]
          /\ Slot(records[c].request) = c
          /\ PointsAtEvent(records[c].request, records[c].result)
      BY <1>9, <2>2 DEF Linked, RecordsPoint
    <3> QED  BY <1>4, <3>1 DEF PointsAtEvent
  <2> QED  BY <2>1, <2>2
<1>13. OnceEach'
  <2> SUFFICES ASSUME NEW m \in 1 .. N + 1, NEW n \in 1 .. N + 1,
                      Slot(events'[m].by) = Slot(events'[n].by)
               PROVE  m = n
    BY <1>4 DEF OnceEach
  <2>1. CASE m \in 1 .. N /\ n \in 1 .. N
    BY <1>4, <2>1 DEF Linked, OnceEach
  <2>2. CASE m = N + 1 /\ n \in 1 .. N
    BY <1>4, <1>6, <1>9, <2>2
  <2>3. CASE m \in 1 .. N /\ n = N + 1
    BY <1>4, <1>6, <1>9, <2>3
  <2>4. CASE m = N + 1 /\ n = N + 1
    BY <2>4
  <2> QED  BY <1>4, <2>1, <2>2, <2>3, <2>4
<1>14. projectNext' = Len(events') + 1
  BY <1>2, <1>4, <1>8
<1> QED  BY <1>3, <1>9, <1>11, <1>12, <1>13, <1>14 DEF Linked

LEMMA ReplayLinks ==
    ASSUME Linked, NEW r \in Requests, Serve(r), Replay(r)
    PROVE  Linked'
<1>1. UNCHANGED <<records, events, projectNext>>
  BY DEF Replay, eventVars
<1>2. records[Slot(r)] = [request |-> r, result |-> records[Slot(r)].result]
  <2>1. records[Slot(r)] \in [request : Requests, result : ResultShape]
    BY RecordedResult, TypeParts DEF Linked, RepliesType, Replay
  <2> QED  BY <2>1 DEF Replay, Recorded
<1>3. AnswersAreRecorded'
  <2> SUFFICES ASSUME NEW a \in answered'
               PROVE  records[Slot(a[1])] = [request |-> a[1], result |-> a[2]]
    BY <1>1 DEF AnswersAreRecorded
  <2>1. CASE a \in answered
    BY <2>1 DEF Linked, AnswersAreRecorded
  <2>2. CASE a = <<r, records[Slot(r)].result>>
    BY <1>2, <2>2
  <2> QED  BY <2>1, <2>2 DEF Replay, Reply
<1>4. CommandsTypeOK'
  BY ServeType DEF Linked
<1>5. EventsAreRecorded' /\ RecordsPoint' /\ OnceEach' /\ projectNext' = Len(events') + 1
  BY <1>1 DEF Linked, EventsAreRecorded, RecordsPoint, PointsAtEvent, OnceEach
<1> QED  BY <1>3, <1>4, <1>5 DEF Linked

LEMMA LinkedHolds == CommandsSpec => []Linked
<1>1. CommandsInit => Linked
  <2> SUFFICES ASSUME CommandsInit PROVE Linked
    OBVIOUS
  <2>1. CommandsTypeOK
    BY DEF CommandsInit, CommandsTypeOK, Streams
  <2> QED  BY <2>1 DEF CommandsInit, Linked, EventsAreRecorded, RecordsPoint,
              AnswersAreRecorded, OnceEach
<1>2. ASSUME Linked, [CommandsNext]_vars
      PROVE  Linked'
  <2>1. ASSUME NEW r \in Requests, Serve(r)
        PROVE  Linked'
    BY <1>2, <2>1, StepKinds, ReplayLinks, QuietLinks, EffectLinks DEF Linked
  <2>2. CASE UNCHANGED vars
    BY <1>2, <2>2 DEF vars, aggregateVars, eventVars, Linked, CommandsTypeOK,
       EventsAreRecorded, RecordsPoint, PointsAtEvent, AnswersAreRecorded, OnceEach
  <2> QED  BY <1>2, <2>1, <2>2 DEF CommandsNext
<1> QED  BY <1>1, <1>2, PTL DEF CommandsSpec

\* Whatever is sent again, and whichever replies are lost, one idempotency key
\* takes effect at most once: an event leaves a record, and only a key without
\* one takes effect.
THEOREM OnceEachHolds == CommandsSpec => []OnceEach
<1>1. Linked => OnceEach
  BY DEF Linked
<1> QED  BY <1>1, LinkedHolds, PTL

\* A reply names the event of that very request, and two replies to one
\* request are the same: both are what its record holds.
THEOREM AnswersStandHolds == CommandsSpec => []AnswersStand
<1>1. Linked => AnswersStand
  <2> SUFFICES ASSUME Linked, NEW a \in answered
               PROVE  /\ PointsAtEvent(a[1], a[2])
                      /\ \A b \in answered : b[1] = a[1] => b = a
    BY DEF AnswersStand, PointsAtEvent
  <2>1. answered \subseteq Requests \X ResultShape
    BY TypeParts DEF Linked, RepliesType
  <2>2. a[1] \in Requests /\ Slot(a[1]) \in Slots
    BY <2>1, SlotInSlots
  <2>3. records[Slot(a[1])] = [request |-> a[1], result |-> a[2]]
    BY DEF Linked, AnswersAreRecorded
  <2>4. records[Slot(a[1])] # NoRecord
    BY <2>2, <2>3, NamesAssumption DEF NoRecord
  <2>5. PointsAtEvent(a[1], a[2])
    BY <2>2, <2>3, <2>4 DEF Linked, RecordsPoint
  <2>6. ASSUME NEW b \in answered, b[1] = a[1] PROVE b = a
    <3>1. records[Slot(b[1])] = [request |-> b[1], result |-> b[2]]
      BY DEF Linked, AnswersAreRecorded
    <3>2. b[2] = a[2]
      BY <2>3, <2>6, <3>1
    <3> QED  BY <2>1, <2>6, <3>2
  <2> QED  BY <2>5, <2>6
<1> QED  BY <1>1, LinkedHolds, PTL

-----------------------------------------------------------------------------
(* The attempt binding.                                                    *)

\* A worker's request that writes, or is answered for having written.
Bound(r) == r.op # "invocation_claim" /\ r.scope # Owner

LEMMA BoundRuns ==
    ASSUME NEW r \in Requests, Serve(r), Bound(r)
    PROVE  invocation[r.inv] = "running"
<1>1. r \in Request /\ WellScoped(r)
  BY RequestsAssumption
<1>2. r.op \notin OwnerOps /\ r.op # "invocation_claim" /\ r.scope # Owner
  BY <1>1 DEF Bound, WellScoped
<1>3. CASE r.op \in BranchOps
  <2>1. r.attempt = r.inv
    BY <1>1, <1>2, <1>3 DEF WellScoped
  <2>2. Author(r)
    BY <1>2, <1>3 DEF Serve, InvocationCreate, InvocationClaim, InvocationComplete,
       InvocationCancel, ApplicationEventEmit, ContributionAppend, RelationAssert, BranchAppend, Replay,
       Authorized, OwnerOps, BranchOps
  <2> QED  BY <1>2, <2>1, <2>2 DEF Author, CheckBinding
<1>4. CASE r.op = "invocation_complete"
  BY <1>4 DEF Serve, InvocationCreate, InvocationClaim, InvocationComplete, InvocationCancel,
     ApplicationEventEmit, ContributionAppend, RelationAssert, Replay, Authorized, CheckBinding, OwnerOps, BranchOps
<1>5. CASE r.op = "application_event_emit"
  <2>1. r.attempt = r.inv
    BY <1>1, <1>5 DEF WellScoped, BoundOps
  <2>2. CheckBinding(r.attempt, r.fence)
    BY <1>5 DEF Serve, InvocationCreate, InvocationClaim, InvocationComplete, InvocationCancel,
       ApplicationEventEmit, ContributionAppend, RelationAssert, Replay, Authorized, OwnerOps, BranchOps
  <2> QED  BY <2>1, <2>2 DEF CheckBinding
<1> QED  BY <1>1, <1>2, <1>3, <1>4, <1>5 DEF Request, Ops, BoundOps

\* A reply that leaves the daemon is to the request it serves.
LEMMA AnswersServed ==
    ASSUME CommandsTypeOK, NEW r \in Requests, Serve(r), NEW a \in answered' \ answered
    PROVE  a[1] = r
<1>1. PICK result : Reply(r, result)
  BY StepKinds DEF Replay, Quiet, Effect, Emit, Commit
<1> QED  BY <1>1 DEF Reply

\* A worker whose attempt has ended is given nothing, not even the reply it
\* lost: the transaction reauthorizes a replay before it reads the record.
THEOREM NoReceiptForTheDeadHolds == CommandsSpec => NoReceiptForTheDead
<1>1. ASSUME CommandsTypeOK, [CommandsNext]_vars, NEW a \in answered' \ answered,
             a[1].op \in BoundOps \union BranchOps, a[1].scope # Owner
      PROVE  invocation[a[1].inv] = "running"
  <2>1. PICK r \in Requests : Serve(r)
    BY <1>1 DEF CommandsNext, vars
  <2>2. a[1] = r
    BY <1>1, <2>1, AnswersServed
  <2>3. Bound(r)
    BY <1>1, <2>2 DEF Bound, BoundOps, BranchOps
  <2> QED  BY <2>1, <2>2, <2>3, BoundRuns
<1>2. CommandsTypeOK /\ [CommandsNext]_vars =>
      [\A a \in answered' \ answered :
          a[1].op \in BoundOps \union BranchOps /\ a[1].scope # Owner
          => invocation[a[1].inv] = "running"]_vars
  BY <1>1
<1> QED  BY <1>2, TypeCorrect, PTL DEF CommandsSpec, NoReceiptForTheDead

\* An ended invocation's end is in the events, a running one's claim is.
Lived ==
    /\ CommandsTypeOK
    /\ \A n \in DOMAIN events :
          events[n].state \in Terminal => /\ events[n].resource \in Invocations
                                          /\ invocation[events[n].resource] \in Terminal
    /\ \A i \in Invocations :
          invocation[i] = "running" =>
            \E m \in DOMAIN events : events[m].resource = i /\ events[m].state = "running"
    /\ FencedWrites

LEMMA EffectLives ==
    ASSUME Lived, NEW r \in Requests, Serve(r), Effect(r)
    PROVE  Lived'
<1>1. PICK stream \in Streams, resource \in Streams, state \in EventStates, rev \in Nat :
           Emit(r, stream, resource, state, rev) /\ Moves(r, resource, state, rev)
  BY DEF Effect
<1> DEFINE N == Len(events)
           e == Event(r, stream, resource, state, rev, streamNext[stream])
<1>2. CommandsTypeOK /\ CommandsTypeOK'
  BY ServeType DEF Lived
<1>3. /\ N \in Nat /\ DOMAIN events = 1 .. N /\ DOMAIN events' = 1 .. N + 1
      /\ events'[N + 1] = e
      /\ \A n \in 1 .. N : events'[n] = events[n]
  BY <1>1, <1>2, EmitEvents
<1>4. e.by = r /\ e.resource = resource /\ e.state = state
  BY DEF Event
<1>5. invocation \in [Invocations -> {"none", "queued", "running"} \union Terminal]
  BY <1>2, TypeParts DEF RowsType
<1> HIDE DEF N, e
<1>6. ASSUME NEW n \in DOMAIN events', events'[n].state \in Terminal
      PROVE  /\ events'[n].resource \in Invocations
             /\ invocation'[events'[n].resource] \in Terminal
  <2>1. CASE n = N + 1
    BY <1>1, <1>3, <1>4, <1>5, <1>6, <2>1 DEF Moves, Terminal
  <2>2. CASE n \in 1 .. N
    <3>1. events[n].resource \in Invocations /\ invocation[events[n].resource] \in Terminal
      BY <1>3, <1>6, <2>2 DEF Lived
    <3> QED  BY <1>1, <1>3, <1>5, <2>2, <3>1 DEF Moves
  <2> QED  BY <1>3, <2>1, <2>2
<1>7. ASSUME NEW i \in Invocations, invocation'[i] = "running"
      PROVE  \E m \in DOMAIN events' : events'[m].resource = i /\ events'[m].state = "running"
  <2>1. CASE invocation[i] = "running"
    <3>1. PICK m \in 1 .. N : events[m].resource = i /\ events[m].state = "running"
      BY <1>3, <2>1 DEF Lived
    <3> QED  BY <1>3, <3>1
  <2>2. CASE invocation[i] # "running"
    <3>1. resource = i /\ state = "running"
      BY <1>1, <1>5, <1>7, <2>2 DEF Moves
    <3> QED  BY <1>3, <1>4, <3>1
  <2> QED  BY <2>1, <2>2
<1>8. FencedWrites'
  <2> SUFFICES ASSUME NEW n \in 1 .. N + 1, Bound(events'[n].by)
      PROVE  /\ \E m \in 1 .. n - 1 : /\ events'[m].resource = events'[n].by.inv
                                     /\ events'[m].state = "running"
             /\ \A m \in 1 .. n - 1 :
                  events'[m].resource = events'[n].by.inv => events'[m].state \notin Terminal
    BY <1>3 DEF FencedWrites, Bound
  <2>1. CASE n \in 1 .. N
    <3>1. /\ \E m \in 1 .. n - 1 : /\ events[m].resource = events[n].by.inv
                                    /\ events[m].state = "running"
          /\ \A m \in 1 .. n - 1 :
                events[m].resource = events[n].by.inv => events[m].state \notin Terminal
      BY <1>3, <2>1 DEF Lived, FencedWrites, Bound
    <3>2. \A m \in 1 .. n - 1 : m \in 1 .. N
      BY <1>3, <2>1
    <3> QED  BY <1>3, <2>1, <3>1, <3>2
  <2>2. CASE n = N + 1
    <3>1. invocation[r.inv] = "running" /\ n - 1 = N
      BY <1>3, <1>4, <2>2, BoundRuns
    <3>2. events'[n].by = r
      BY <1>3, <1>4, <2>2
    <3>3. r \in Request /\ WellScoped(r) /\ r.op # "invocation_claim" /\ r.scope # Owner
      BY <3>2, RequestsAssumption DEF Bound
    <3>4. r.inv \in Invocations
      BY <3>3, NamesAssumption DEF WellScoped, Request, Scopes, Ops, BoundOps, BranchOps, OwnerOps
    <3>5. PICK m \in 1 .. N : events[m].resource = r.inv /\ events[m].state = "running"
      BY <1>3, <3>1, <3>4 DEF Lived
    <3>6. \A k \in 1 .. N : events[k].resource = r.inv => events[k].state \notin Terminal
      BY <1>3, <3>1 DEF Lived, Terminal
    <3> QED  BY <1>3, <3>1, <3>2, <3>5, <3>6
  <2> QED  BY <1>3, <2>1, <2>2
<1> QED  BY <1>2, <1>6, <1>7, <1>8 DEF Lived

LEMMA StillLives ==
    ASSUME Lived, CommandsTypeOK', UNCHANGED <<invocation, events>>
    PROVE  Lived'
BY DEF Lived, FencedWrites

LEMMA LivedHolds == CommandsSpec => []Lived
<1>1. CommandsInit => Lived
  <2> SUFFICES ASSUME CommandsInit PROVE Lived
    OBVIOUS
  <2>1. CommandsTypeOK
    BY DEF CommandsInit, CommandsTypeOK, Streams
  <2> QED  BY <2>1 DEF CommandsInit, Lived, FencedWrites
<1>2. ASSUME Lived, [CommandsNext]_vars
      PROVE  Lived'
  <2>1. ASSUME NEW r \in Requests, Serve(r)
        PROVE  Lived'
    <3>1. CommandsTypeOK /\ CommandsTypeOK'
      BY <1>2, <2>1, ServeType DEF Lived
    <3>2. CASE Replay(r) \/ Quiet(r)
      BY <1>2, <3>1, <3>2, StillLives DEF Replay, Quiet, aggregateVars, eventVars
    <3>3. CASE Effect(r)
      BY <1>2, <2>1, <3>3, EffectLives
    <3> QED  BY <2>1, <3>1, <3>2, <3>3, StepKinds
  <2>2. CASE UNCHANGED vars
    BY <1>2, <2>2, StillLives DEF vars, aggregateVars, eventVars, Lived, CommandsTypeOK
  <2> QED  BY <1>2, <2>1, <2>2 DEF CommandsNext
<1> QED  BY <1>1, <1>2, PTL DEF CommandsSpec

\* What a worker writes falls between the claim and the end of its
\* invocation: check_binding reads the row the end writes.
THEOREM FencedWritesHolds == CommandsSpec => []FencedWrites
<1>1. Lived => FencedWrites
  BY DEF Lived
<1> QED  BY <1>1, LivedHolds, PTL

-----------------------------------------------------------------------------
(* Sequences.                                                              *)

\* The places of stream s among the first n events of es.
Places(es, s, n) == {m \in 1 .. n : es[m].stream = s}

Counted ==
    /\ CommandsTypeOK
    /\ projectNext = Len(events) + 1
    /\ \A s \in Streams : streamNext[s] = Cardinality(Places(events, s, Len(events))) + 1
    /\ DenseSequences

LEMMA DensePlaces ==
    DenseSequences <=>
      \A n \in DOMAIN events :
         /\ events[n].projectSeq = n
         /\ events[n].streamSeq = Cardinality(Places(events, events[n].stream, n))
BY DEF DenseSequences, Places

LEMMA DensePlacesNext ==
    DenseSequences' <=>
      \A n \in DOMAIN events' :
         /\ events'[n].projectSeq = n
         /\ events'[n].streamSeq = Cardinality(Places(events', events'[n].stream, n))
BY DEF DenseSequences, Places

\* Places depends on the first n events only.
LEMMA PlacesAgree ==
    ASSUME NEW es, NEW fs, NEW s, NEW n \in Nat, \A m \in 1 .. n : es[m] = fs[m]
    PROVE  Places(es, s, n) = Places(fs, s, n)
<1>1. \A m : m \in Places(es, s, n) <=> m \in Places(fs, s, n)
  BY DEF Places
<1> QED  BY <1>1

\* One more event is one more place in its own stream and in no other.
LEMMA PlacesAdd ==
    ASSUME NEW es, NEW s, NEW n \in Nat
    PROVE  Cardinality(Places(es, s, n + 1)) =
             IF es[n + 1].stream = s THEN Cardinality(Places(es, s, n)) + 1
                                     ELSE Cardinality(Places(es, s, n))
<1>1. IsFiniteSet(Places(es, s, n))
  <2>1. Places(es, s, n) \in SUBSET (1 .. n)
    BY DEF Places
  <2> QED  BY <2>1, FS_Interval, FS_Subset
<1>2. n + 1 \notin Places(es, s, n)
  <2>1. n + 1 \notin 1 .. n
    OBVIOUS
  <2> QED  BY <2>1 DEF Places
<1>3. \A m : m \in 1 .. n + 1 <=> m \in 1 .. n \/ m = n + 1
  OBVIOUS
<1>4. CASE es[n + 1].stream = s
  <2>1. Places(es, s, n + 1) = Places(es, s, n) \union {n + 1}
    BY <1>3, <1>4, Zenon DEF Places
  <2> QED  BY <1>1, <1>2, <1>4, <2>1, FS_AddElement
<1>5. CASE es[n + 1].stream # s
  <2>1. Places(es, s, n + 1) = Places(es, s, n)
    BY <1>3, <1>5, Zenon DEF Places
  <2> QED  BY <1>5, <2>1
<1> QED  BY <1>4, <1>5

LEMMA EffectCounts ==
    ASSUME Counted, NEW r \in Requests, Serve(r), Effect(r)
    PROVE  Counted'
<1>1. PICK stream \in Streams, resource \in Streams, state \in EventStates, rev \in Nat :
           Emit(r, stream, resource, state, rev)
  BY DEF Effect
<1> DEFINE N == Len(events)
           e == Event(r, stream, resource, state, rev, streamNext[stream])
<1>2. CommandsTypeOK /\ CommandsTypeOK'
  BY ServeType DEF Counted
<1>3. /\ N \in Nat /\ DOMAIN events = 1 .. N /\ DOMAIN events' = 1 .. N + 1
      /\ Len(events') = N + 1 /\ events'[N + 1] = e
      /\ \A n \in 1 .. N : events'[n] = events[n]
  BY <1>1, <1>2, EmitEvents
<1>4. e.stream = stream /\ e.streamSeq = streamNext[stream] /\ e.projectSeq = projectNext
  BY DEF Event
<1>5. /\ projectNext' = projectNext + 1
      /\ streamNext' = [streamNext EXCEPT ![stream] = @ + 1]
      /\ streamNext \in [Streams -> Nat]
  BY <1>1, <1>2, TypeParts DEF Emit, AppendEvent, EventsType
<1>6. projectNext = N + 1 /\ \A s \in Streams : streamNext[s] = Cardinality(Places(events, s, N)) + 1
  BY DEF Counted
<1>7. e.stream = stream /\ e.streamSeq = streamNext[stream] /\ e.projectSeq = N + 1
  BY <1>4, <1>6
<1> HIDE DEF N, e
<1>8. ASSUME NEW s, NEW n \in 1 .. N
      PROVE  Places(events', s, n) = Places(events, s, n)
  <2>1. n \in Nat /\ \A m \in 1 .. n : events'[m] = events[m]
    BY <1>3
  <2> QED  BY <2>1, PlacesAgree
<1>9. ASSUME NEW s PROVE Places(events', s, N) = Places(events, s, N)
  BY <1>3, PlacesAgree
<1>10. ASSUME NEW s \in Streams
       PROVE  Cardinality(Places(events', s, N + 1)) =
                IF stream = s THEN Cardinality(Places(events, s, N)) + 1
                              ELSE Cardinality(Places(events, s, N))
  BY <1>3, <1>7, <1>9, PlacesAdd
<1>11. ASSUME NEW s \in Streams
       PROVE  streamNext'[s] = Cardinality(Places(events', s, Len(events'))) + 1
  <2>1. streamNext[s] = Cardinality(Places(events, s, N)) + 1 /\ streamNext[s] \in Nat
    BY <1>5, <1>6
  <2>2. CASE s = stream
    BY <1>3, <1>5, <1>10, <2>1, <2>2
  <2>3. CASE s # stream
    BY <1>3, <1>5, <1>10, <2>1, <2>3
  <2> QED  BY <2>2, <2>3
<1>12. DenseSequences'
  <2> SUFFICES ASSUME NEW n \in 1 .. N + 1
               PROVE  /\ events'[n].projectSeq = n
                      /\ events'[n].streamSeq = Cardinality(Places(events', events'[n].stream, n))
    BY <1>3, DensePlacesNext
  <2>1. CASE n \in 1 .. N
    <3>1. /\ events[n].projectSeq = n
          /\ events[n].streamSeq = Cardinality(Places(events, events[n].stream, n))
      BY <1>3, <2>1, DensePlaces DEF Counted
    <3> QED  BY <1>3, <1>8, <2>1, <3>1
  <2>2. CASE n = N + 1
    <3>1. streamNext[stream] = Cardinality(Places(events', stream, N + 1))
      BY <1>6, <1>10
    <3> QED  BY <1>3, <1>7, <2>2, <3>1
  <2> QED  BY <1>3, <2>1, <2>2
<1>13. projectNext' = Len(events') + 1
  BY <1>3, <1>5, <1>6
<1> QED  BY <1>2, <1>11, <1>12, <1>13 DEF Counted

LEMMA StillCounts ==
    ASSUME Counted, CommandsTypeOK', UNCHANGED eventVars
    PROVE  Counted'
BY DEF Counted, DenseSequences, Places, eventVars

LEMMA CountedHolds == CommandsSpec => []Counted
<1>1. CommandsInit => Counted
  <2> SUFFICES ASSUME CommandsInit PROVE Counted
    OBVIOUS
  <2>1. CommandsTypeOK
    BY DEF CommandsInit, CommandsTypeOK, Streams
  <2>2. events = <<>> /\ \A s \in Streams : streamNext[s] = 1
    BY DEF CommandsInit
  <2>3. \A s : Places(events, s, Len(events)) = {}
    BY <2>2 DEF Places
  <2>4. \A s : Cardinality(Places(events, s, Len(events))) = 0
    BY <2>3, FS_EmptySet
  <2>5. \A s \in Streams : streamNext[s] = Cardinality(Places(events, s, Len(events))) + 1
    BY <2>2, <2>4
  <2>6. DenseSequences
    BY <2>2, DensePlaces
  <2> QED  BY <2>1, <2>2, <2>5, <2>6 DEF CommandsInit, Counted
<1>2. ASSUME Counted, [CommandsNext]_vars
      PROVE  Counted'
  <2>1. ASSUME NEW r \in Requests, Serve(r)
        PROVE  Counted'
    <3>1. CommandsTypeOK /\ CommandsTypeOK'
      BY <1>2, <2>1, ServeType DEF Counted
    <3>2. CASE Replay(r) \/ Quiet(r)
      BY <1>2, <3>1, <3>2, StillCounts DEF Replay, Quiet, eventVars
    <3>3. CASE Effect(r)
      BY <1>2, <2>1, <3>3, EffectCounts
    <3> QED  BY <2>1, <3>1, <3>2, <3>3, StepKinds
  <2>2. CASE UNCHANGED vars
    <3>1. CommandsTypeOK'
      BY <1>2, <2>2 DEF vars, aggregateVars, eventVars, Counted, CommandsTypeOK
    <3> QED  BY <1>2, <2>2, <3>1, StillCounts DEF vars, eventVars
  <2> QED  BY <1>2, <2>1, <2>2 DEF CommandsNext
<1> QED  BY <1>1, <1>2, PTL DEF CommandsSpec

\* Sequences are dense: the heads count what has been appended, and a refused
\* command or a replay takes no number.
THEOREM DenseSequencesHolds == CommandsSpec => []DenseSequences
<1>1. Counted => DenseSequences
  BY DEF Counted
<1> QED  BY <1>1, CountedHolds, PTL

-----------------------------------------------------------------------------
(* The rows and the events.                                                *)

\* The appends among the first n events of es.
Entries(es, n) == {m \in 1 .. n : es[m].state = "appended"}

\* Event m of es is one of the life of invocation i.
Lives(es, i, m) == es[m].resource = i /\ es[m].state \in LifecycleStates

Rebuilt ==
    /\ CommandsTypeOK
    /\ \A i \in Invocations :
          invocation[i] # "none" =>
            \E n \in DOMAIN events :
               /\ Lives(events, i, n)
               /\ \A m \in DOMAIN events : Lives(events, i, m) => m <= n
               /\ events[n].state = invocation[i]
               /\ events[n].revision = revision[i]
    /\ Len(branch) = Cardinality(Entries(events, Len(events)))
    /\ spaceRevision = Len(branch) + 1
    /\ \A n \in Entries(events, Len(events)) :
          /\ branch[Cardinality(Entries(events, n))] = events[n].by
          /\ events[n].revision = Cardinality(Entries(events, n)) + 1
    /\ \A k \in 1 .. Len(branch) :
          /\ branch[k].head = k - 1
          /\ \E n \in Entries(events, Len(events)) : Cardinality(Entries(events, n)) = k

\* Entries depends on the first n events only.
LEMMA EntriesAgree ==
    ASSUME NEW es, NEW fs, NEW n \in Nat, \A m \in 1 .. n : es[m] = fs[m]
    PROVE  Entries(es, n) = Entries(fs, n)
<1>1. \A m : m \in Entries(es, n) <=> m \in Entries(fs, n)
  BY DEF Entries
<1> QED  BY <1>1

LEMMA EntriesFinite ==
    ASSUME NEW es, NEW n \in Nat
    PROVE  IsFiniteSet(Entries(es, n)) /\ Cardinality(Entries(es, n)) \in Nat
<1>1. Entries(es, n) \in SUBSET (1 .. n)
  BY DEF Entries
<1>2. IsFiniteSet(Entries(es, n))
  BY <1>1, FS_Interval, FS_Subset
<1> QED  BY <1>2, FS_CardinalityType

\* One more event is one more entry, if it is an append.
LEMMA EntriesAdd ==
    ASSUME NEW es, NEW n \in Nat
    PROVE  Cardinality(Entries(es, n + 1)) =
             IF es[n + 1].state = "appended" THEN Cardinality(Entries(es, n)) + 1
                                             ELSE Cardinality(Entries(es, n))
<1>1. IsFiniteSet(Entries(es, n))
  BY EntriesFinite
<1>2. n + 1 \notin Entries(es, n)
  <2>1. n + 1 \notin 1 .. n
    OBVIOUS
  <2> QED  BY <2>1 DEF Entries
<1>3. \A m : m \in 1 .. n + 1 <=> m \in 1 .. n \/ m = n + 1
  OBVIOUS
<1>4. CASE es[n + 1].state = "appended"
  <2>1. Entries(es, n + 1) = Entries(es, n) \union {n + 1}
    BY <1>3, <1>4, Zenon DEF Entries
  <2> QED  BY <1>1, <1>2, <1>4, <2>1, FS_AddElement
<1>5. CASE es[n + 1].state # "appended"
  <2>1. Entries(es, n + 1) = Entries(es, n)
    BY <1>3, <1>5, Zenon DEF Entries
  <2> QED  BY <1>5, <2>1
<1> QED  BY <1>4, <1>5

\* An append has a place among the entries up to any later event.
LEMMA EntriesPlace ==
    ASSUME NEW es, NEW N \in Nat, NEW n \in Entries(es, N)
    PROVE  /\ n \in 1 .. N
           /\ Cardinality(Entries(es, n)) \in 1 .. Cardinality(Entries(es, N))
<1>1. n \in 1 .. N /\ n \in Entries(es, n)
  BY DEF Entries
<1>2. Entries(es, n) \subseteq Entries(es, N)
  <2>1. \A m \in 1 .. n : m \in 1 .. N
    BY <1>1
  <2> QED  BY <2>1 DEF Entries
<1>3. /\ IsFiniteSet(Entries(es, N)) /\ Cardinality(Entries(es, N)) \in Nat
      /\ IsFiniteSet(Entries(es, n)) /\ Cardinality(Entries(es, n)) \in Nat
  <2>1. n \in Nat
    BY <1>1
  <2> QED  BY <2>1, EntriesFinite
<1>4. Cardinality(Entries(es, n)) <= Cardinality(Entries(es, N))
  BY <1>2, <1>3, FS_Subset
<1>5. Cardinality(Entries(es, n)) # 0
  BY <1>1, <1>3, FS_EmptySet
<1> QED  BY <1>1, <1>3, <1>4, <1>5

LEMMA EffectRebuilds ==
    ASSUME Rebuilt, NEW r \in Requests, Serve(r), Effect(r)
    PROVE  Rebuilt'
<1>1. PICK stream \in Streams, resource \in Streams, state \in EventStates, rev \in Nat :
           Emit(r, stream, resource, state, rev) /\ Moves(r, resource, state, rev)
  BY DEF Effect
<1> DEFINE N == Len(events)
           e == Event(r, stream, resource, state, rev, streamNext[stream])
<1>2. CommandsTypeOK /\ CommandsTypeOK'
  BY ServeType DEF Rebuilt
<1>3. /\ N \in Nat /\ DOMAIN events = 1 .. N /\ DOMAIN events' = 1 .. N + 1
      /\ Len(events') = N + 1 /\ events'[N + 1] = e
      /\ \A n \in 1 .. N : events'[n] = events[n]
  BY <1>1, <1>2, EmitEvents
<1>4. e.by = r /\ e.resource = resource /\ e.state = state /\ e.revision = rev
  BY DEF Event
<1>5. /\ invocation \in [Invocations -> {"none", "queued", "running"} \union Terminal]
      /\ revision \in [Invocations -> Nat]
      /\ branch \in Seq(Requests) /\ spaceRevision \in Nat
  BY <1>2, TypeParts DEF RowsType
<1>6. /\ Len(branch) = Cardinality(Entries(events, N))
      /\ spaceRevision = Len(branch) + 1
  BY DEF Rebuilt
<1>7. ASSUME NEW n \in Entries(events, N)
      PROVE  /\ branch[Cardinality(Entries(events, n))] = events[n].by
             /\ events[n].revision = Cardinality(Entries(events, n)) + 1
  BY DEF Rebuilt
<1>k. ASSUME NEW k \in 1 .. Len(branch)
      PROVE  /\ branch[k].head = k - 1
             /\ \E n \in Entries(events, N) : Cardinality(Entries(events, n)) = k
  BY DEF Rebuilt
<1> HIDE DEF N, e
<1>8. ASSUME NEW i \in Invocations, invocation'[i] # "none"
      PROVE  \E n \in DOMAIN events' :
                /\ Lives(events', i, n)
                /\ \A m \in DOMAIN events' : Lives(events', i, m) => m <= n
                /\ events'[n].state = invocation'[i]
                /\ events'[n].revision = revision'[i]
  <2>1. CASE resource = i /\ state \in LifecycleStates
    <3>1. invocation'[i] = state /\ revision'[i] = rev
      BY <1>1, <1>5, <2>1 DEF Moves, LifecycleStates, Terminal
    <3>2. Lives(events', i, N + 1)
      BY <1>3, <1>4, <2>1 DEF Lives
    <3>3. \A m \in 1 .. N + 1 : m <= N + 1
      BY <1>3
    <3> QED  BY <1>3, <1>4, <3>1, <3>2, <3>3
  <2>2. CASE ~ (resource = i /\ state \in LifecycleStates)
    <3>1. invocation'[i] = invocation[i] /\ revision'[i] = revision[i]
      BY <1>1, <1>5, <2>2 DEF Moves
    <3>2. PICK n \in 1 .. N :
             /\ Lives(events, i, n)
             /\ \A m \in 1 .. N : Lives(events, i, m) => m <= n
             /\ events[n].state = invocation[i]
             /\ events[n].revision = revision[i]
      BY <1>3, <1>8, <3>1 DEF Rebuilt
    <3>3. ~ Lives(events', i, N + 1)
      BY <1>3, <1>4, <2>2 DEF Lives
    <3>4. \A m \in 1 .. N : Lives(events', i, m) <=> Lives(events, i, m)
      BY <1>3 DEF Lives
    <3>5. \A m \in 1 .. N + 1 : Lives(events', i, m) => m <= n
      BY <1>3, <3>2, <3>3, <3>4
    <3>6. n \in 1 .. N + 1 /\ events'[n] = events[n]
      BY <1>3, <3>2
    <3> QED  BY <1>3, <3>1, <3>2, <3>4, <3>5, <3>6
  <2> QED  BY <2>1, <2>2
<1>9. ASSUME NEW n \in 1 .. N
      PROVE  Entries(events', n) = Entries(events, n)
  <2>1. n \in Nat /\ \A m \in 1 .. n : events'[m] = events[m]
    BY <1>3
  <2> QED  BY <2>1, EntriesAgree
<1>10. Entries(events', N) = Entries(events, N)
  BY <1>3, EntriesAgree
<1>11. Cardinality(Entries(events', N + 1)) =
         IF state = "appended" THEN Len(branch) + 1 ELSE Len(branch)
  <2>1. Cardinality(Entries(events', N)) = Len(branch)
    BY <1>6, <1>10, Zenon
  <2>2. events'[N + 1].state = state
    BY <1>3, <1>4, Zenon
  <2> QED  BY <1>3, <2>1, <2>2, EntriesAdd
<1>e. ASSUME NEW k \in 1 .. Len(branch)
      PROVE  \E n \in Entries(events', Len(events')) : Cardinality(Entries(events', n)) = k
  <2>1. PICK n \in Entries(events, N) : Cardinality(Entries(events, n)) = k
    BY <1>k
  <2>2. n \in 1 .. N /\ events[n].state = "appended"
    BY DEF Entries
  <2>3. n \in Entries(events', N + 1)
    BY <1>3, <2>2 DEF Entries
  <2> QED  BY <1>3, <1>9, <2>1, <2>2, <2>3
<1>12. CASE state = "appended"
  <2>1. rev = spaceRevision + 1 /\ r.head = Len(branch) /\ branch' = Append(branch, r) /\ spaceRevision' = rev
    BY <1>1, <1>12 DEF Moves, LifecycleStates, Terminal
  <2>2. /\ Len(branch') = Len(branch) + 1 /\ branch'[Len(branch) + 1] = r
        /\ \A k \in 1 .. Len(branch) : branch'[k] = branch[k]
    BY <1>5, <2>1
  <2>3. /\ Len(branch') = Cardinality(Entries(events', Len(events')))
        /\ spaceRevision' = Len(branch') + 1
    BY <1>3, <1>6, <1>11, <1>12, <2>1, <2>2
  <2>4. ASSUME NEW n \in Entries(events', Len(events'))
        PROVE  /\ branch'[Cardinality(Entries(events', n))] = events'[n].by
               /\ events'[n].revision = Cardinality(Entries(events', n)) + 1
    <3>1. CASE n = N + 1
      BY <1>3, <1>4, <1>6, <1>11, <1>12, <2>1, <2>2, <3>1
    <3>2. CASE n # N + 1
      <4>1. n \in 1 .. N /\ events'[n].state = "appended"
        BY <1>3, <3>2 DEF Entries
      <4>2. n \in Entries(events, N) /\ events'[n] = events[n]
        BY <1>3, <4>1 DEF Entries
      <4>3. Cardinality(Entries(events, n)) \in 1 .. Len(branch)
        BY <1>3, <1>6, <4>2, EntriesPlace
      <4> QED  BY <1>7, <1>9, <2>2, <4>1, <4>2, <4>3
    <3> QED  BY <3>1, <3>2
  <2>5. ASSUME NEW k \in 1 .. Len(branch')
        PROVE  /\ branch'[k].head = k - 1
               /\ \E n \in Entries(events', Len(events')) : Cardinality(Entries(events', n)) = k
    <3>1. CASE k \in 1 .. Len(branch)
      BY <1>e, <1>k, <2>2, <3>1
    <3>2. CASE k = Len(branch) + 1
      <4>1. branch'[k].head = k - 1
        BY <1>5, <2>1, <2>2, <3>2
      <4>2. N + 1 \in Entries(events', Len(events'))
        BY <1>3, <1>4, <1>12 DEF Entries
      <4> QED  BY <1>11, <1>12, <3>2, <4>1, <4>2
    <3> QED  BY <1>5, <2>2, <3>1, <3>2
  <2> QED  BY <1>2, <1>8, <2>3, <2>4, <2>5 DEF Rebuilt
<1>13. CASE state # "appended"
  <2>1. branch' = branch /\ spaceRevision' = spaceRevision
    BY <1>1, <1>13 DEF Moves
  <2>2. /\ Len(branch') = Cardinality(Entries(events', Len(events')))
        /\ spaceRevision' = Len(branch') + 1
    BY <1>3, <1>6, <1>11, <1>13, <2>1
  <2>3. ASSUME NEW n \in Entries(events', Len(events'))
        PROVE  /\ branch'[Cardinality(Entries(events', n))] = events'[n].by
               /\ events'[n].revision = Cardinality(Entries(events', n)) + 1
    <3>1. n \in 1 .. N + 1 /\ events'[n].state = "appended"
      BY <1>3 DEF Entries
    <3>2. n \in 1 .. N
      BY <1>3, <1>4, <1>13, <3>1
    <3>3. n \in Entries(events, N) /\ events'[n] = events[n]
      BY <1>3, <3>1, <3>2 DEF Entries
    <3> QED  BY <1>7, <1>9, <2>1, <3>2, <3>3
  <2>4. ASSUME NEW k \in 1 .. Len(branch')
        PROVE  /\ branch'[k].head = k - 1
               /\ \E n \in Entries(events', Len(events')) : Cardinality(Entries(events', n)) = k
    BY <1>e, <1>k, <2>1
  <2> QED  BY <1>2, <1>8, <2>2, <2>3, <2>4 DEF Rebuilt
<1> QED  BY <1>12, <1>13

LEMMA StillRebuilt ==
    ASSUME Rebuilt, CommandsTypeOK',
           UNCHANGED <<invocation, revision, branch, spaceRevision, events>>
    PROVE  Rebuilt'
BY DEF Rebuilt

LEMMA RebuiltHolds == CommandsSpec => []Rebuilt
<1>1. CommandsInit => Rebuilt
  <2> SUFFICES ASSUME CommandsInit PROVE Rebuilt
    OBVIOUS
  <2>1. CommandsTypeOK
    BY DEF CommandsInit, CommandsTypeOK, Streams
  <2>2. events = <<>> /\ branch = <<>> /\ spaceRevision = 1
        /\ \A i \in Invocations : invocation[i] = "none"
    BY DEF CommandsInit
  <2>3. Len(events) = 0 /\ Len(branch) = 0
    BY <2>2
  <2>4. Entries(events, Len(events)) = {}
    BY <2>3 DEF Entries
  <2>5. Cardinality(Entries(events, Len(events))) = 0
    BY <2>4, FS_EmptySet
  <2> QED  BY <2>1, <2>2, <2>3, <2>4, <2>5 DEF Rebuilt
<1>2. ASSUME Rebuilt, [CommandsNext]_vars
      PROVE  Rebuilt'
  <2>1. ASSUME NEW r \in Requests, Serve(r)
        PROVE  Rebuilt'
    <3>1. CommandsTypeOK /\ CommandsTypeOK'
      BY <1>2, <2>1, ServeType DEF Rebuilt
    <3>2. CASE Replay(r) \/ Quiet(r)
      BY <1>2, <3>1, <3>2, StillRebuilt DEF Replay, Quiet, aggregateVars, eventVars
    <3>3. CASE Effect(r)
      BY <1>2, <2>1, <3>3, EffectRebuilds
    <3> QED  BY <2>1, <3>1, <3>2, <3>3, StepKinds
  <2>2. CASE UNCHANGED vars
    <3>1. CommandsTypeOK'
      BY <1>2, <2>2 DEF vars, aggregateVars, eventVars, Rebuilt, CommandsTypeOK
    <3> QED  BY <1>2, <2>2, <3>1, StillRebuilt DEF vars, aggregateVars, eventVars
  <2> QED  BY <1>2, <2>1, <2>2 DEF CommandsNext
<1> QED  BY <1>1, <1>2, PTL DEF CommandsSpec

\* State, events and branch commit together: whoever reads the events from the
\* start, however many requests raced and were repeated, knows the rows.
THEOREM RowsFollowEventsHolds == CommandsSpec => []RowsFollowEvents
<1>1. ASSUME Rebuilt  PROVE RowsFollowEvents
  <2>1. ASSUME NEW i \in Invocations, invocation[i] # "none"
        PROVE  LET e == events[LastOf(i, {"queued", "running"} \union Terminal)]
               IN  invocation[i] = e.state /\ revision[i] = e.revision
    <3> DEFINE about == {n \in DOMAIN events : events[n].resource = i
                                               /\ events[n].state \in LifecycleStates}
    <3>1. PICK n \in DOMAIN events :
             /\ Lives(events, i, n)
             /\ \A m \in DOMAIN events : Lives(events, i, m) => m <= n
             /\ events[n].state = invocation[i]
             /\ events[n].revision = revision[i]
      BY <1>1, <2>1 DEF Rebuilt
    <3>2. DOMAIN events = 1 .. Len(events) /\ Len(events) \in Nat
      BY <1>1 DEF Rebuilt, CommandsTypeOK
    <3>3. n \in about /\ \A m \in about : m <= n
      BY <3>1 DEF Lives
    <3>4. \A k \in about : (\A m \in about : m <= k) => k = n
      BY <3>2, <3>3
    <3>5. n = CHOOSE k \in about : \A m \in about : m <= k
      <4> HIDE DEF about
      <4> QED  BY <3>3, <3>4
    <3>6. LastOf(i, LifecycleStates) = n
      BY <3>5 DEF LastOf
    <3> QED  BY <3>1, <3>6 DEF LifecycleStates
  <2>2. \A n : Appends(n) = Entries(events, n)
    BY DEF Appends, Entries
  <2> QED  BY <1>1, <2>1, <2>2 DEF RowsFollowEvents, Rebuilt
<1> QED  BY <1>1, RebuiltHolds, PTL

\* The branch is one history: who appended an entry had seen all the entries
\* before it and no other, and no key, however often it was sent, appended two.
OneHistory ==
    \A k \in 1 .. Len(branch) :
        /\ branch[k].head = k - 1
        /\ \A l \in 1 .. Len(branch) : Slot(branch[k]) = Slot(branch[l]) => k = l

\* advance_branch compares the head in the transaction that appends, and the
\* idempotency key is taken in the same: neither two writers that raced from
\* one head nor a retry whose first reply was lost leave a fork or a repetition.
THEOREM OneHistoryHolds == CommandsSpec => []OneHistory
<1>1. ASSUME Rebuilt, OnceEach  PROVE OneHistory
  <2>1. ASSUME NEW k \in 1 .. Len(branch)
        PROVE  \E n \in DOMAIN events : /\ Cardinality(Entries(events, n)) = k
                                        /\ branch[k] = events[n].by
    <3>1. PICK n \in Entries(events, Len(events)) : Cardinality(Entries(events, n)) = k
      BY <1>1 DEF Rebuilt
    <3>2. n \in DOMAIN events
      BY <1>1 DEF Rebuilt, CommandsTypeOK, Entries
    <3>3. branch[Cardinality(Entries(events, n))] = events[n].by
      BY <1>1 DEF Rebuilt
    <3> QED  BY <3>1, <3>2, <3>3
  <2>2. ASSUME NEW k \in 1 .. Len(branch), NEW l \in 1 .. Len(branch),
               Slot(branch[k]) = Slot(branch[l])
        PROVE  k = l
    <3>1. PICK n \in DOMAIN events : /\ Cardinality(Entries(events, n)) = k
                                     /\ branch[k] = events[n].by
      BY <2>1
    <3>2. PICK m \in DOMAIN events : /\ Cardinality(Entries(events, m)) = l
                                     /\ branch[l] = events[m].by
      BY <2>1
    <3>3. n = m
      BY <1>1, <2>2, <3>1, <3>2 DEF OnceEach
    <3> QED  BY <3>1, <3>2, <3>3
  <2>3. \A k \in 1 .. Len(branch) : branch[k].head = k - 1
    BY <1>1 DEF Rebuilt
  <2> QED  BY <2>2, <2>3 DEF OneHistory
<1> QED  BY <1>1, RebuiltHolds, OnceEachHolds, PTL
=============================================================================
