----------------------------- MODULE Greenfield -----------------------------
(***************************************************************************)
(* The greenfield saga by which byom comes to govern a scope of a Kovee    *)
(* realm: governance_enable and governance_disable of                      *)
(* crates/koveed/src/governance.rs.                                        *)
(*                                                                         *)
(* Enabling is three transactions of one command, each under its own       *)
(* receipt (key#create, key#rollback, key#activate), with byom read before *)
(* the first and again before the last.  The store's mutex is held all     *)
(* along, so commands do not interleave; but byom moves between any two    *)
(* steps, the daemon may die there, and a command may be sent again at any *)
(* later time, after others have finished, undone or replaced its work.    *)
(*                                                                         *)
(* `enabled[s]` is the greenfield_enablements rows of a scope, each with   *)
(* its binding and its mapping, in the order of their epochs: row n is     *)
(* epoch n.                                                                *)
(***************************************************************************)
EXTENDS Naturals, Sequences, FiniteSets

CONSTANTS
    Scopes,      \* the exact scope selectors of the realm
    Overlap,     \* the pairs of distinct scopes for which scope::overlaps holds
    Societies,   \* byom's Societies
    EndpointOf,  \* the byom endpoint each of them is served by
    Requests,    \* the enablements clients may ask for, with their keys
    MaxEpoch,    \* bound: enablements of one scope
    MaxEra,      \* bound: how often a Society is recovered or its endpoint replaced
    None

EnableRequest ==
    [key : {r.key : r \in Requests}, scope : Scopes, society : Societies,
     expects : Nat, wants : Nat]

EnablementRow ==
    [state : {"bindings_created", "active", "rolled_back", "disabled"},
     binding : {"pending", "active", "void"}, mapping : {"pending", "active", "void"},
     society : Societies, era : Nat, expects : Nat]
OwnerRow ==
    [revision : Nat, epoch : Nat, owner : {"none", "byom"}, status : {"active", "frozen"}]

ASSUME RequestsAssumption == Requests \subseteq EnableRequest
ASSUME OverlapAssumption ==
    /\ Overlap \subseteq Scopes \X Scopes
    /\ \A s, t \in Scopes : <<s, t>> \in Overlap => <<t, s>> \in Overlap /\ s # t
ASSUME NoneAssumption == None \notin Requests \union Societies \union OwnerRow
ASSUME BoundsAssumption == MaxEpoch \in Nat \ {0} /\ MaxEra \in Nat

VARIABLES
    enabled,   \* greenfield_enablements, with the binding and mapping of each
    owner,     \* kovee_governance_owner_bindings
    asked,     \* command receipts: the request a key was first committed with
    taken,     \* the receipts of its #rollback and #activate: the epoch, or 0
    at,        \* the running command and what it remembers
    answer,    \* the reply of the last command that ended
    society    \* byom: is the Society active, and its recovery epoch and incarnation

durable == <<enabled, owner, asked, taken>>
vars    == <<durable, at, answer, society>>

-----------------------------------------------------------------------------
Keys == {r.key : r \in Requests}
Idle == [step |-> "idle", req |-> None, era |-> 0, epoch |-> 0]

NoAnswer == [is |-> "none", req |-> None, society |-> None]
Answered(is, req, so) == answer' = [is |-> is, req |-> req, society |-> so]

Live == {"bindings_created", "active"}

\* current_slot: the row of the highest epoch.
Epoch(s) == Len(enabled[s])
Current(s) == enabled[s][Epoch(s)]

\* slot_targets: the row names exactly what the request asks for.
Targets(row, n, r) ==
    /\ row.society = r.society
    /\ r.wants \in {0, n}

Owned(s) == owner[s] # None /\ owner[s].owner = "byom" /\ owner[s].status = "active"

\* Mutant: only sagas still pending are looked at.
NoPendingOverlap(s) ==
    \A t \in Scopes : <<s, t>> \in Overlap =>
        \A n \in 1 .. Epoch(t) : enabled[t][n].state # "bindings_created"

\* check_no_overlap: neither an enablement past its first step nor an owner of
\* an overlapping scope.
NoOverlap(s) ==
    \A t \in Scopes : <<s, t>> \in Overlap =>
        /\ \A n \in 1 .. Epoch(t) : enabled[t][n].state \notin Live
        /\ ~Owned(t)

\* The owner row, if there is one, is at the revision the caller expects and
\* is nobody's: never owned, or frozen by a disable.
OwnerExpected(s, revision) ==
    IF owner[s] = None THEN revision = 0
    ELSE ~Owned(s) /\ revision = owner[s].revision

\* The owner row after activate_binding, and after a disable.
TakenOver(row) == [row EXCEPT !.revision = @ + 1, !.owner = "byom", !.status = "active"]
Frozen(row)    == [row EXCEPT !.revision = @ + 1, !.status = "frozen"]

GreenfieldInit ==
    /\ enabled = [s \in Scopes |-> <<>>]
    /\ owner   = [s \in Scopes |-> None]
    /\ asked   = [k \in Keys |-> None]
    /\ taken   = [k \in Keys |-> [rollback |-> 0, activate |-> 0]]
    /\ at      = Idle
    /\ answer  = NoAnswer
    /\ society = [so \in Societies |-> [active |-> TRUE, era |-> 0]]

End(is, so) == at' = Idle /\ Answered(is, at.req, so)

-----------------------------------------------------------------------------
(* governance_enable.                                                      *)

\* A retry after activation is answered from the row; anything else first
\* observes the endpoint and an active Society.
Enable(r) ==
    /\ at = Idle
    /\ Epoch(r.scope) = MaxEpoch => Current(r.scope).state \in Live
    /\ IF /\ Epoch(r.scope) > 0
          /\ Current(r.scope).state = "active"
          /\ Targets(Current(r.scope), Epoch(r.scope), r)
       THEN /\ Answered("active", r, Current(r.scope).society)
            /\ UNCHANGED at
       ELSE /\ society[r.society].active
            /\ at' = [step |-> "create", req |-> r, era |-> society[r.society].era,
                      epoch |-> 0]
            /\ answer' = NoAnswer
    /\ UNCHANGED <<durable, society>>

\* Mutant: a frozen owner row is made active again with the arm it had.
NewEpochKeepsArm(r) ==
    LET revision == IF owner[r.scope] = None THEN 1 ELSE owner[r.scope].revision + 1
        arm      == IF owner[r.scope] = None THEN "none" ELSE owner[r.scope].owner
    IN  /\ enabled' = [enabled EXCEPT ![r.scope] = Append(@,
              [state |-> "bindings_created", binding |-> "pending", mapping |-> "pending",
               society |-> r.society, era |-> at.era, expects |-> revision])]
        /\ owner' = [owner EXCEPT ![r.scope] =
              [revision |-> revision, epoch |-> Epoch(r.scope) + 1, owner |-> arm,
               status |-> "active"]]

\* create_bindings: a new epoch with an inert binding and mapping, and the
\* owner row rewritten at `none`.
NewEpoch(r) ==
    LET revision == IF owner[r.scope] = None THEN 1 ELSE owner[r.scope].revision + 1
    IN  /\ enabled' = [enabled EXCEPT ![r.scope] = Append(@,
              [state |-> "bindings_created", binding |-> "pending", mapping |-> "pending",
               society |-> r.society, era |-> at.era, expects |-> revision])]
        /\ owner' = [owner EXCEPT ![r.scope] =
              [revision |-> revision, epoch |-> Epoch(r.scope) + 1, owner |-> "none",
               status |-> "active"]]

\* The first transaction, under key#create: a stored receipt is replayed and
\* the pending row of the same target is taken up again.
Create ==
    LET r       == at.req
        pending == Epoch(r.scope) > 0 /\ Current(r.scope).state = "bindings_created"
    IN  /\ at.step = "create"
        /\ IF asked[r.key] = r
           THEN /\ at' = [at EXCEPT !.step = "verify"]
                /\ UNCHANGED <<durable, answer>>
           ELSE IF /\ asked[r.key] = None
                   /\ IF pending THEN Targets(Current(r.scope), Epoch(r.scope), r)
                      ELSE NoOverlap(r.scope) /\ OwnerExpected(r.scope, r.expects)
           THEN /\ IF pending THEN UNCHANGED <<enabled, owner>> ELSE NewEpoch(r)
                /\ asked' = [asked EXCEPT ![r.key] = r]
                /\ at' = [at EXCEPT !.step = "verify"]
                /\ UNCHANGED <<taken, answer>>
           ELSE End("refused", None) /\ UNCHANGED durable
        /\ UNCHANGED society

\* reverify: does byom contradict the row?  The endpoint is the one the
\* command names, the Society and what is pinned of it the row's.
Contradicted(row) ==
    \/ EndpointOf[row.society] # EndpointOf[at.req.society]
    \/ ~society[row.society].active
    \/ society[row.society].era # row.era

\* The row decides what the command still has to do; of a pending one, byom's
\* answer does, and silence moves nothing.
Verify ==
    LET s   == at.req.scope
        row == Current(s)
    IN  /\ at.step = "verify"
        /\ \/ /\ row.state = "active"
              /\ End("active", row.society)
           \/ /\ row.state \in {"rolled_back", "disabled"}
              /\ End("refused", None)
           \/ /\ row.state = "bindings_created"
              /\ End("unavailable", None)
           \/ /\ row.state = "bindings_created"
              /\ at' = [at EXCEPT !.epoch = Epoch(s),
                                  !.step = IF Contradicted(row) THEN "rollback" ELSE "activate"]
              /\ UNCHANGED answer
        /\ UNCHANGED <<durable, society>>

\* rollback_bindings, under key#rollback.
RollBack ==
    LET s == at.req.scope
        k == at.req.key
    IN  /\ at.step = "rollback"
        /\ IF taken[k].rollback = 0 /\ Current(s).state = "bindings_created"
           THEN /\ enabled' = [enabled EXCEPT ![s][Epoch(s)] =
                      [@ EXCEPT !.state = "rolled_back", !.binding = "void",
                                !.mapping = "void"]]
                /\ taken' = [taken EXCEPT ![k].rollback = at.epoch]
           ELSE UNCHANGED <<enabled, taken>>
        /\ End("refused", None)
        /\ UNCHANGED <<owner, asked, society>>

\* The owner row is still nobody's, at the revision and epoch of the row.
OwnerUnmoved(s) ==
    /\ owner[s] # None
    /\ owner[s].owner = "none"
    /\ owner[s].revision = Current(s).expects
    /\ owner[s].epoch = at.epoch

\* activate_binding, under key#activate: the CAS of the owner row, with the
\* binding, the mapping and the row itself.
Activate ==
    LET s == at.req.scope
        k == at.req.key
    IN  /\ at.step = "activate"
        /\ IF taken[k].activate # 0
           THEN /\ End("active", enabled[s][taken[k].activate].society)
                /\ UNCHANGED <<enabled, owner, taken>>
           ELSE IF /\ Epoch(s) = at.epoch /\ Current(s).state = "bindings_created"
                   /\ OwnerUnmoved(s)
                   /\ NoOverlap(s)
           THEN /\ owner' = [owner EXCEPT ![s] = TakenOver(@)]
                /\ enabled' = [enabled EXCEPT ![s][at.epoch] =
                      [@ EXCEPT !.state = "active", !.binding = "active",
                                !.mapping = "active"]]
                /\ taken' = [taken EXCEPT ![k].activate = at.epoch]
                /\ End("active", Current(s).society)
           ELSE End("refused", None) /\ UNCHANGED <<enabled, owner, taken>>
        /\ UNCHANGED <<asked, society>>

-----------------------------------------------------------------------------
(* governance_disable, one transaction.  A stale revision or digest is     *)
(* refused, and a retry finds nothing active: neither changes anything.    *)

\* Mutant: the owner row is frozen, and what was derived from it left alone.
FreezeOwner(s, n) ==
    /\ at = Idle
    /\ enabled[s][n].state = "active"
    /\ owner[s].status = "active"
    /\ owner' = [owner EXCEPT ![s] = Frozen(@)]
    /\ enabled' = [enabled EXCEPT ![s][n].state = "disabled"]
    /\ answer' = NoAnswer
    /\ UNCHANGED <<asked, taken, at, society>>

\* The owner row is frozen, its arm kept for audit; binding and mapping are void.
Disable(s, n) ==
    /\ at = Idle
    /\ enabled[s][n].state = "active"
    /\ owner[s].status = "active"
    /\ owner' = [owner EXCEPT ![s] = Frozen(@)]
    /\ enabled' = [enabled EXCEPT ![s][n] =
          [@ EXCEPT !.state = "disabled", !.binding = "void", !.mapping = "void"]]
    /\ answer' = NoAnswer
    /\ UNCHANGED <<asked, taken, at, society>>

-----------------------------------------------------------------------------
(* The daemon dies; byom moves.                                            *)
Die == at # Idle /\ at' = Idle /\ UNCHANGED <<durable, answer, society>>

\* A Society is held, dissolved or active again.
Turn(so) ==
    /\ society' = [society EXCEPT ![so].active = ~@]
    /\ UNCHANGED <<durable, at, answer>>

\* It is recovered, or its endpoint comes back as another incarnation.
Recover(so) ==
    /\ society[so].era < MaxEra
    /\ society' = [society EXCEPT ![so].era = @ + 1]
    /\ UNCHANGED <<durable, at, answer>>

GreenfieldNext ==
    \/ \E r \in Requests : Enable(r)
    \/ Create \/ Verify \/ RollBack \/ Activate
    \/ \E s \in Scopes : \E n \in 1 .. Epoch(s) : Disable(s, n)
    \/ Die
    \/ \E so \in Societies : Turn(so) \/ Recover(so)

GreenfieldSpec == GreenfieldInit /\ [][GreenfieldNext]_vars

-----------------------------------------------------------------------------
(* Properties.                                                             *)

\* Every variable keeps its shape.
GreenfieldTypeOK ==
    /\ enabled \in [Scopes -> Seq(EnablementRow)]
    /\ owner \in [Scopes -> OwnerRow \union {None}]
    /\ asked \in [Keys -> Requests \union {None}]
    /\ taken \in [Keys -> [rollback : Nat, activate : Nat]]
    /\ at \in [step : {"idle", "create", "verify", "rollback", "activate"},
               req : Requests \union {None}, era : Nat, epoch : Nat]
    /\ answer \in [is : {"none", "active", "refused", "unavailable"},
                   req : Requests \union {None}, society : Societies \union {None}]
    /\ society \in [Societies -> [active : BOOLEAN, era : Nat]]

\* byom section 16.6 item 1, as check_no_overlap quotes it: no two overlapping
\* scopes have an active owner, whatever sagas raced, died or were repeated.
NoOverlappingActiveOwners ==
    \A s, t \in Scopes : <<s, t>> \in Overlap => ~(Owned(s) /\ Owned(t))

\* The seam every governed operation crosses is the owner's: active_seam reads
\* only the enablement, its binding and its mapping, and what it finds active
\* there is the latest epoch, owned by byom at that epoch, once per scope.
SeamIsOwned ==
    \A s \in Scopes : \A n \in 1 .. Epoch(s) :
        \/ enabled[s][n].binding = "active"
        \/ enabled[s][n].mapping = "active"
        \/ enabled[s][n].state = "active"
        => /\ n = Epoch(s)
           /\ Owned(s) /\ owner[s].epoch = n
           /\ enabled[s][n].binding = "active" /\ enabled[s][n].mapping = "active"

\* The saga implements ScopeAuthority: an epoch takes authority once, and
\* never after it was rolled back or disabled.
Authority == INSTANCE ScopeAuthority WITH
    opened <- [s \in Scopes |-> Epoch(s)],
    spent  <- [s \in Scopes |-> {n \in 1 .. Epoch(s) : enabled[s][n].binding = "void"}],
    holder <- [s \in Scopes |-> IF Owned(s) THEN owner[s].epoch ELSE 0]
AuthoritySpec == Authority!Spec
=============================================================================
