----------------------------- MODULE MCCommands -----------------------------
(* Small instances of WorkerCommands. *)
EXTENDS WorkerCommands

CONSTANTS i1, i2

\* A request by the owner, and one by the worker of i under its own binding.
ByOwner(op, key, i, expected) ==
    [op |-> op, scope |-> Owner, key |-> key, inv |-> i, attempt |-> None,
     fence |-> 0, head |-> 0, expected |-> expected]

ByWorker(op, key, i) ==
    [op |-> op, scope |-> i, key |-> key, inv |-> i, attempt |-> i,
     fence |-> FenceEpoch, head |-> 0, expected |-> None]

At(r, n) == [r EXCEPT !.head = n]

\* An owner who creates two invocations, contributes, and cancels one under a
\* key sent with and without a pinned revision; its worker, who claims under
\* two keys, races the owner to the head under two fences, relates, emits
\* and completes, its own invocation and, with its own binding, the other one.
TwoInvocations ==
    {ByOwner("invocation_create", k, None, None) : k \in {"a", "b"}}
    \union {ByOwner("invocation_cancel", "a", i1, e) : e \in {None, 1}}
    \union {ByOwner("contribution_append", "a", None, None)}
    \union {ByWorker("invocation_claim", k, i1) : k \in {"a", "b"}}
    \union {[ByWorker("contribution_append", "a", i1) EXCEPT !.fence = f] : f \in {1, 2}}
    \union {At(ByWorker("relation_assert", "a", i1), 1)}
    \union {ByWorker("application_event_emit", "a", i1)}
    \union {ByWorker("invocation_complete", "a", i1)}
    \union {[ByWorker("invocation_complete", "a", i2) EXCEPT !.attempt = i1]}
=============================================================================
