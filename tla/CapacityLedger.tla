--------------------------- MODULE CapacityLedger ---------------------------
(***************************************************************************)
(* Kovee's capacity ledger and the reservations that hold quantities in    *)
(* it: crates/koveed/src/budget.rs, with the record rules it takes from    *)
(* crates/kovee-byom/src/budget.rs.                                        *)
(*                                                                         *)
(* One operation of budget.rs is one action.  The daemon keeps its store   *)
(* behind one mutex for the whole of an operation, so operations do not    *)
(* interleave; but one operation commits several SQL transactions, and a   *)
(* crash may fall between any two of them.  `handler` says which           *)
(* transactions of the running operation are still to come: the action of  *)
(* an operation is its first transaction, Continue is each later one, and  *)
(* Crash forgets the rest.                                                 *)
(*                                                                         *)
(* A refused call changes nothing, so a refusal is a disabled action.      *)
(***************************************************************************)
EXTENDS FiniteSetsExt

CONSTANTS
    Realm,        \* the realm's own account, `kovee-capacity-{realm}`
    Children,     \* accounts capacity may be delegated to
    Dims,         \* dimensions an account is denominated in
    Keys,         \* stable external reservation keys, one reservation each
    Sagas,        \* stable settlement keys
    ParentItem,   \* ParentItem[k][d]: worst case of k's byom parent, 0 if none
    Ceilings,     \* the ceilings a grant may name
    None          \* no account, no key

Accounts == {Realm} \union Children
Rows     == Accounts \X Dims

ASSUME ParentItemAssumption == ParentItem \in [Keys -> [Dims -> Nat]]
ASSUME CeilingsAssumption   == Ceilings \subseteq Nat
ASSUME RealmAssumption      == Realm \notin Children
ASSUME NoneAssumption       == None \notin Keys /\ None \notin Accounts
ASSUME FiniteAssumption     ==  \* they index the rows of a database
    IsFiniteSet(Children) /\ IsFiniteSet(Dims) /\ IsFiniteSet(Keys)

VARIABLES
    opened,        \* the kovee_capacity_accounts rows that exist
    ledger,        \* their ceiling and five buckets
    state,         \* byom_subordinate_reservations.state, by stable key
    account,       \* the account the reservation draws on
    amount,        \* its items: quantity reserved in each dimension
    charged,       \* byom_subordinate_reservations.charged
    holdState,     \* kovee_capacity_reservations.state: one for all its holds
    holdCharged,   \* kovee_capacity_reservations.charged, by dimension
    saga,          \* kovee_settlement_saga, by stable settlement key
    announced,     \* reservation events appended, at most one of each kind
    handler        \* the running operation's next transaction

accountVars == <<opened, ledger>>
recordVars  == <<state, account, amount, charged>>
holdVars    == <<holdState, holdCharged>>
ledgerVars  == <<opened, ledger, state, account, amount, charged,
                 holdState, holdCharged, saga, announced, handler>>

Flow == INSTANCE BucketFlow WITH Rows <- Rows, ledger <- ledger

ReservationState ==
    {"absent", "requested", "confirmed", "denied", "uncertain", "settled", "released"}
HoldState   == {"none", "reserved", "uncertain", "released"}
SagaPhase   == {"remote_pending", "settled", "denied", "unknown"}
EventKind   == ReservationState \ {"absent"}
HandlerStep == EventKind \union {"confirm"}

NoSaga == [phase |-> "none", key |-> None, dim |-> None, charge |-> 0]
Zero   == [d \in Dims |-> 0]
Idle   == [step |-> "idle", key |-> None]

LedgerInit ==
    /\ opened = {}
    /\ Flow!Init
    /\ state       = [k \in Keys |-> "absent"]
    /\ account     = [k \in Keys |-> None]
    /\ amount      = [k \in Keys |-> Zero]
    /\ charged     = [k \in Keys |-> 0]
    /\ holdState   = [k \in Keys |-> "none"]
    /\ holdCharged = [k \in Keys |-> Zero]
    /\ saga        = [s \in Sagas |-> NoSaga]
    /\ announced   = {}
    /\ handler     = Idle

-----------------------------------------------------------------------------
(* One SQL transaction at a time.                                          *)

\* Mutant: move_between without the bucket in its WHERE clause.
CoversUnguarded(bucket, a, q) ==
    \A d \in Dims : q[d] # 0 => <<a, d>> \in opened

\* move_between, once per dimension of one account: a move of nothing always
\* succeeds; any other needs the row and needs the bucket to cover it.
Covers(bucket, a, q) ==
    \A d \in Dims : q[d] # 0 => /\ <<a, d>> \in opened
                                /\ ledger[<<a, d>>][bucket] >= q[d]

\* A row after n has moved between two of its buckets, and after its ceiling
\* has been raised by n.
Poured(r, from, to, n) == [ledger[r] EXCEPT ![from] = @ - n, ![to] = @ + n]
Resized(r, n) == [ledger[r] EXCEPT !["ceiling"] = @ + n, !["remaining"] = @ + n]

\* Mutant: the process dies between the two halves of a move.
MovedHalfway(from, to, a, q) ==
    [r \in Rows |-> IF r[1] = a THEN [ledger[r] EXCEPT ![from] = @ - q[r[2]]]
                    ELSE ledger[r]]

Moved(from, to, a, q) ==
    [r \in Rows |-> IF r[1] = a THEN Poured(r, from, to, q[r[2]]) ELSE ledger[r]]

MoveBetween(from, to, a, q) ==
    /\ Covers(from, a, q)
    /\ ledger' = Moved(from, to, a, q)
    /\ UNCHANGED opened

\* The transactions an operation leaves for after its first one.
Then(step, k) == handler' = [step |-> step, key |-> k]

\* Mutant: `confirmed` is announced before the row says so.
StepAfterEager(step) ==
    CASE step = "requested" -> "confirmed"
      [] step = "confirmed" -> "confirm"
      [] OTHER              -> "idle"

\* reserve announces `requested`, writes `confirmed`, then announces it; every
\* other operation that moves a reservation only announces what it did.
StepAfter(step) ==
    CASE step = "requested" -> "confirm"
      [] step = "confirm"   -> "confirmed"
      [] OTHER              -> "idle"

Confirm(k) ==
    /\ state' = [state EXCEPT ![k] = "confirmed"]
    /\ UNCHANGED announced

\* event(): the idempotency key is (stable key, event type), so a second
\* announcement of the same kind replays the first.
Announce(kind, k) ==
    /\ announced' = announced \union {<<k, kind>>}
    /\ UNCHANGED state

Continue ==
    /\ handler # Idle
    /\ IF handler.step = "confirm" THEN Confirm(handler.key)
                                   ELSE Announce(handler.step, handler.key)
    /\ handler' = IF StepAfter(handler.step) = "idle" THEN Idle
                  ELSE [handler EXCEPT !.step = StepAfter(handler.step)]
    /\ UNCHANGED <<accountVars, account, amount, charged, holdVars, saga>>

\* The process dies between two transactions of one operation.
Crash ==
    /\ handler # Idle
    /\ handler' = Idle
    /\ UNCHANGED <<accountVars, recordVars, holdVars, saga, announced>>

-----------------------------------------------------------------------------
(* The accounts.                                                           *)

\* Mutant: a grant sets the ceiling, and may lower it.
GrantSets(d, c) ==
    LET row  == <<Realm, d>>
        rise == c - ledger[row]["ceiling"]
    IN  /\ handler = Idle
        /\ opened' = opened \union {row}
        /\ ledger' = [ledger EXCEPT ![row] = Resized(row, rise)]
        /\ UNCHANGED <<recordVars, holdVars, saga, announced, handler>>

\* A grant opens the realm's row or raises its ceiling, never lowers it; the
\* difference lands in `remaining`.
Grant(d, c) ==
    LET row  == <<Realm, d>>
        rise == IF row \in opened THEN c - ledger[row]["ceiling"] ELSE c
    IN  /\ handler = Idle
        /\ row \in opened => rise > 0
        /\ opened' = opened \union {row}
        /\ ledger' = [ledger EXCEPT ![row] = Resized(row, rise)]
        /\ UNCHANGED <<recordVars, holdVars, saga, announced, handler>>

\* The parent's `remaining` pays for the child's ceiling.
Delegate(x, d, n) ==
    LET parent == <<Realm, d>>
        child  == <<x, d>>
    IN  /\ handler = Idle
        /\ parent \in opened
        /\ ledger[parent]["remaining"] >= n
        /\ opened' = opened \union {child}
        /\ ledger' = [ledger EXCEPT ![parent] = Poured(parent, "remaining", "delegated", n),
                                    ![child]  = Resized(child, n)]
        /\ UNCHANGED <<recordVars, holdVars, saga, announced, handler>>

\* Mutant: the rollup returns the whole ceiling, what was spent included.
RollupCeiling(x, d) ==
    LET parent == <<Realm, d>>
        child  == <<x, d>>
        n      == ledger[child]["ceiling"]
    IN  /\ handler = Idle
        /\ child \in opened
        /\ ledger[child]["reserved"] = 0
        /\ ledger[child]["uncertain"] = 0
        /\ ledger[parent]["delegated"] >= n
        /\ ledger' = [ledger EXCEPT ![child]["remaining"] = 0,
                                    ![parent] = Poured(parent, "delegated", "remaining", n)]
        /\ UNCHANGED <<opened, recordVars, holdVars, saga, announced, handler>>

\* The child's unspent ceiling goes home; a child with anything reserved or
\* uncertain does not roll up.
Rollup(x, d) ==
    LET parent == <<Realm, d>>
        child  == <<x, d>>
        n      == ledger[child]["remaining"]
    IN  /\ handler = Idle
        /\ child \in opened
        /\ ledger[child]["reserved"] = 0
        /\ ledger[child]["uncertain"] = 0
        /\ n > 0
        /\ ledger[parent]["delegated"] >= n
        /\ ledger' = [ledger EXCEPT ![child]  = Resized(child, -n),
                                    ![parent] = Poured(parent, "delegated", "remaining", n)]
        /\ UNCHANGED <<opened, recordVars, holdVars, saga, announced, handler>>

-----------------------------------------------------------------------------
(* The reservation.                                                        *)

\* check_against_parent and ByomSubordinateReservation::check: at least one
\* item, and each within the worst case of the parent item it pins.  A parent
\* has one item per dimension here, and an item reserves something: q[d] is 0
\* where the reservation has no item, hence no hold.
Admissible(k, q) ==
    /\ \E d \in Dims : q[d] > 0
    /\ \A d \in Dims : q[d] <= ParentItem[k][d]

\* subordinate_items: half of each parent item, capped by what is left.
Narrowed(k) ==
    [d \in Dims |-> Min({ParentItem[k][d] \div 2, ledger[<<Realm, d>>]["remaining"]})]

\* ... and it refuses when an item of the parent narrows to nothing.
Narrows(k) == \A d \in Dims : ParentItem[k][d] > 0 => Narrowed(k)[d] > 0

\* Everything reserve commits in its first transaction.  A key that already
\* has a row returns that row, whatever its state.
Reserve(k, a, q) ==
    /\ handler = Idle
    /\ state[k] = "absent"
    /\ Admissible(k, q)
    /\ MoveBetween("remaining", "reserved", a, q)
    /\ state'       = [state EXCEPT ![k] = "requested"]
    /\ account'     = [account EXCEPT ![k] = a]
    /\ amount'      = [amount EXCEPT ![k] = q]
    /\ holdState'   = [holdState EXCEPT ![k] = "reserved"]
    /\ Then("requested", k)
    /\ UNCHANGED <<charged, holdCharged, saga, announced>>

\* Mutant: a denial relabels the holds too, with a state holds do not have.
DenyHolds(k) ==
    /\ handler = Idle
    /\ state[k] # "absent"
    /\ state' = [state EXCEPT ![k] = "denied"]
    /\ holdState' = [holdState EXCEPT ![k] = "denied"]
    /\ Then("denied", k)
    /\ UNCHANGED <<accountVars, account, amount, charged, holdCharged, saga, announced>>

\* A definite denial only relabels the row: the holds stay where they are.
Deny(k) ==
    /\ handler = Idle
    /\ state[k] # "absent"
    /\ state' = [state EXCEPT ![k] = "denied"]
    /\ Then("denied", k)
    /\ UNCHANGED <<accountVars, account, amount, charged, holdVars, saga, announced>>

\* Mutant: what was charged to a hold is forgotten when it is let go.
RestUncharged(k) == amount[k]

\* What a hold still keeps out of `remaining`.
Rest(k) == [d \in Dims |-> amount[k][d] - holdCharged[k][d]]

\* Holds in `from` go to bucket `to`; holds in any other state stay put.
MoveHolds(k, from, to) ==
    IF holdState[k] = from THEN MoveBetween(from, to, account[k], Rest(k))
                           ELSE UNCHANGED accountVars

\* mark_uncertain asks nothing about the state it leaves, and relabels every
\* hold, including those it moved nothing for.
MarkUncertain(k) ==
    /\ handler = Idle
    /\ state[k] # "absent"
    /\ MoveHolds(k, "reserved", "uncertain")
    /\ holdState' = [holdState EXCEPT ![k] = "uncertain"]
    /\ state'     = [state EXCEPT ![k] = "uncertain"]
    /\ Then("uncertain", k)
    /\ UNCHANGED <<account, amount, charged, holdCharged, saga, announced>>

\* Mutant: the release skips the ledger when the reservation was settled.
ReleaseUnsettled(k) ==
    /\ handler = Idle
    /\ state[k] \notin {"absent", "uncertain", "released"}
    /\ IF state[k] = "settled" THEN UNCHANGED accountVars
                               ELSE MoveHolds(k, "reserved", "remaining")
    /\ holdState' = [holdState EXCEPT ![k] = "released"]
    /\ state'     = [state EXCEPT ![k] = "released"]
    /\ Then("released", k)
    /\ UNCHANGED <<account, amount, charged, holdCharged, saga, announced>>

Release(k) ==
    /\ handler = Idle
    /\ state[k] \notin {"absent", "uncertain", "released"}
    /\ MoveHolds(k, "reserved", "remaining")
    /\ holdState' = [holdState EXCEPT ![k] = "released"]
    /\ state'     = [state EXCEPT ![k] = "released"]
    /\ Then("released", k)
    /\ UNCHANGED <<account, amount, charged, holdCharged, saga, announced>>

\* Mutant: the seat writes an unknown quantity off as spent.
ReconcileAsSpent(k) ==
    /\ handler = Idle
    /\ state[k] = "uncertain"
    /\ MoveHolds(k, "uncertain", "committed")
    /\ holdState' = [holdState EXCEPT ![k] = "released"]
    /\ state'     = [state EXCEPT ![k] = "released"]
    /\ Then("released", k)
    /\ UNCHANGED <<account, amount, charged, holdCharged, saga, announced>>

\* The R38 seat with a fresh challenge: the one release from `uncertain`.
ReconcileUncertain(k) ==
    /\ handler = Idle
    /\ state[k] = "uncertain"
    /\ MoveHolds(k, "uncertain", "remaining")
    /\ holdState' = [holdState EXCEPT ![k] = "released"]
    /\ state'     = [state EXCEPT ![k] = "released"]
    /\ Then("released", k)
    /\ UNCHANGED <<account, amount, charged, holdCharged, saga, announced>>

-----------------------------------------------------------------------------
(* The settlement saga.                                                    *)

\* Settlement amounts one dimension admits: monotonic, within the items.
WithinItems(k, d, c) == charged[k] <= c /\ c <= amount[k][d]

\* A hold's remainder is an unsigned 64-bit difference: were more charged to
\* the hold than it has, the release build would see a huge remainder.
Fits(c, rest) == c <= rest \/ rest < 0

HeldIn(k, d) == IF holdState[k] = "reserved" THEN Rest(k)[d] ELSE 0

\* The local cap and the durable row, before a byte leaves.  An exact retry
\* under the same key returns the row; another ask under it is refused.
SettleBegin(s, k, d, c) ==
    /\ handler = Idle
    /\ saga[s].phase = "none"
    /\ state[k] = "confirmed"
    /\ WithinItems(k, d, c)
    /\ Fits(c, HeldIn(k, d))
    /\ saga' = [saga EXCEPT ![s] =
                  [phase |-> "remote_pending", key |-> k, dim |-> d, charge |-> c]]
    /\ UNCHANGED <<accountVars, recordVars, holdVars, announced, handler>>

\* The peer committed more than this side capped: nothing is applied.
PeerAboveCap(s, c) ==
    /\ handler = Idle
    /\ saga[s].phase # "none"
    /\ state[saga[s].key] # "settled"
    /\ c > saga[s].charge
    /\ saga' = [saga EXCEPT ![s].phase = "unknown"]
    /\ UNCHANGED <<accountVars, recordVars, holdVars, announced, handler>>

\* Mutant: the record and the ledger are charged, the holds are not.
SettleCommitUnheld(s, c) ==
    LET k    == saga[s].key
        d    == saga[s].dim
        rest == HeldIn(k, d)
        take == IF Fits(c, rest) THEN c ELSE rest
    IN  /\ handler = Idle
        /\ saga[s].phase # "none"
        /\ state[k] # "settled"
        /\ c <= saga[s].charge
        /\ WithinItems(k, d, c)
        /\ MoveBetween("reserved", "committed", account[k], [Zero EXCEPT ![d] = take])
        /\ state'   = [state EXCEPT ![k] = "settled"]
        /\ charged' = [charged EXCEPT ![k] = c]
        /\ saga'    = [saga EXCEPT ![s].phase = "settled"]
        /\ Then("settled", k)
        /\ UNCHANGED <<account, amount, holdState, holdCharged, announced>>

\* settle_commit applies the peer's number whatever the state of the record,
\* settled apart.  The UPDATE of the charged hold names the holder and the
\* account and not the dimension, so each of the account's holds is charged.
SettleCommit(s, c) ==
    LET k    == saga[s].key
        d    == saga[s].dim
        rest == HeldIn(k, d)
        take == IF Fits(c, rest) THEN c ELSE rest
    IN  /\ handler = Idle
        /\ saga[s].phase # "none"
        /\ state[k] # "settled"
        /\ c <= saga[s].charge
        /\ WithinItems(k, d, c)
        /\ MoveBetween("reserved", "committed", account[k], [Zero EXCEPT ![d] = take])
        /\ holdCharged' = [holdCharged EXCEPT ![k] =
                             [e \in Dims |-> @[e] + IF amount[k][e] > 0 THEN take ELSE 0]]
        /\ state'   = [state EXCEPT ![k] = "settled"]
        /\ charged' = [charged EXCEPT ![k] = c]
        /\ saga'    = [saga EXCEPT ![s].phase = "settled"]
        /\ Then("settled", k)
        /\ UNCHANGED <<account, amount, holdState, announced>>

\* settle_denied and settle_unknown stamp the saga row and nothing else.
SettleResolve(s, phase) ==
    /\ handler = Idle
    /\ saga[s].phase # "none"
    /\ saga' = [saga EXCEPT ![s].phase = phase]
    /\ UNCHANGED <<accountVars, recordVars, holdVars, announced, handler>>

SettleDenied(s)  == SettleResolve(s, "denied")
SettleUnknown(s) == SettleResolve(s, "unknown")

-----------------------------------------------------------------------------
(* The two ways the ledger is driven.                                      *)

\* Every amount some parent item of k admits.
Amounts(k) == UNION {0 .. ParentItem[k][d] : d \in Dims}

Offers(k) == {q \in [Dims -> Amounts(k)] : Admissible(k, q)}

SettleStep(s) ==
    \/ \E k \in Keys, d \in Dims : \E c \in 0 .. amount[k][d] : SettleBegin(s, k, d, c)
    \/ \E c \in 0 .. saga[s].charge : SettleCommit(s, c)
    \/ PeerAboveCap(s, saga[s].charge + 1)
    \/ SettleDenied(s)
    \/ SettleUnknown(s)

\* Every public operation of budget.rs, in any order.
ApiNext ==
    \/ \E d \in Dims, c \in Ceilings : Grant(d, c)
    \/ \E x \in Children, d \in Dims, n \in Ceilings : Delegate(x, d, n)
    \/ \E x \in Children, d \in Dims : Rollup(x, d)
    \/ \E k \in Keys, a \in Accounts : \E q \in Offers(k) : Reserve(k, a, q)
    \/ \E k \in Keys : Deny(k) \/ MarkUncertain(k) \/ Release(k) \/ ReconcileUncertain(k)
    \/ \E s \in Sagas : SettleStep(s)
    \/ Continue
    \/ Crash

ApiSpec == LedgerInit /\ [][ApiNext]_ledgerVars

\* The order the callers must keep, since the code does not check it: a
\* settled reservation is only released, only R38 moves a reservation out of
\* `uncertain`, and a released reservation is touched again only by a peer
\* that replays the charge it already made.
Orderly ==
    \A k \in Keys :
        /\ state[k] = "settled"   => state'[k] \in {"settled", "released"}
        /\ state[k] = "uncertain" => state'[k] \in {"uncertain", "released"}
        /\ state[k] = "released"  => /\ state'[k] \in {"released", "settled"}
                                     /\ charged'[k] = charged[k]

OrderlySpec == LedgerInit /\ [][ApiNext /\ Orderly]_ledgerVars

-----------------------------------------------------------------------------
(* Properties.                                                             *)

LedgerTypeOK ==
    /\ opened \subseteq Rows
    /\ ledger \in [Rows -> [Flow!Fields -> Int]]
    /\ state \in [Keys -> ReservationState]
    /\ account \in [Keys -> Accounts \union {None}]
    /\ amount \in [Keys -> [Dims -> Nat]]
    /\ charged \in [Keys -> Nat]
    /\ holdState \in [Keys -> HoldState]
    /\ holdCharged \in [Keys -> [Dims -> Int]]
    /\ saga \in [Sagas -> {NoSaga} \union
                  [phase : SagaPhase, key : Keys, dim : Dims, charge : Nat]]
    /\ announced \subseteq Keys \X EventKind
    /\ handler \in {Idle} \union [step : HandlerStep, key : Keys]

\* Account::conserves, "at EVERY observation": the ceiling of every row is the
\* sum of its five buckets, whatever has been called in whatever order and
\* wherever the process died.
Conservation ==
    \A r \in Rows :
        ledger[r]["ceiling"] = ledger[r]["remaining"] + ledger[r]["reserved"]
            + ledger[r]["committed"] + ledger[r]["uncertain"] + ledger[r]["delegated"]

\* No bucket is ever overdrawn, so no quantity is promised twice.  The guard
\* of move_between compares signed integers, and `amount - charged` of a hold
\* is what it is asked to move, so this depends on charges staying in holds.
NeverOverdrawn ==
    /\ \A r \in Rows, b \in Flow!Fields : ledger[r][b] >= 0
    /\ \A k \in Keys, d \in Dims : Rest(k)[d] >= 0

\* What the holds of row r in state h keep out of `remaining`, over all
\* reservations, and what has been charged to holds of row r.
HeldAs(h, r) ==
    SumFunctionOnSet([k \in Keys |-> Rest(k)[r[2]]],
                     {k \in Keys : account[k] = r[1] /\ holdState[k] = h})

ChargedTo(r) ==
    SumFunctionOnSet([k \in Keys |-> holdCharged[k][r[2]]],
                     {k \in Keys : account[k] = r[1]})

\* The buckets are exactly what the open reservations say they are: nothing
\* in `reserved` or `committed` that no hold explains (a leak), no hold the
\* bucket cannot cover (a quantity promised twice).
HoldsExplainReserved ==
    \A r \in Rows : /\ ledger[r]["reserved"]  = HeldAs("reserved", r)
                    /\ ledger[r]["committed"] = ChargedTo(r)

Total(q) == SumFunctionOnSet(q, Dims)

\* The record and the ledger tell one story: the charge written on the
\* reservation is what its holds, together, took into `committed`.
RecordMatchesLedger ==
    \A k \in Keys : charged[k] = Total(holdCharged[k])

\* Delegation conserves across rows: what the parent has delegated is exactly
\* the ceilings of its children, through any delegations, spending and rollups.
ChildrenAreFunded ==
    \A d \in Dims :
        ledger[<<Realm, d>>]["delegated"]
            = SumFunctionOnSet([x \in Children |-> ledger[<<x, d>>]["ceiling"]], Children)

\* Between two transactions of one operation, wherever it was called and
\* whatever crashed before, the row is in the state the next event will name.
NextEventIsTrue ==
    handler # Idle =>
        state[handler.key] = IF handler.step = "confirm" THEN "requested" ELSE handler.step

\* An event tells the truth when it is appended: the row it announces is in
\* the state it names, although the event has a transaction of its own.
EventsAreTrue ==
    [][\A k \in Keys, kind \in EventKind :
          <<k, kind>> \in announced' \ announced => state'[k] = kind
      ]_ledgerVars

\* Spending is final: nothing ever leaves `committed`, and the realm's ceiling
\* only rises.
SpendingIsFinal ==
    [][\A r \in Rows : /\ ledger'[r]["committed"] >= ledger[r]["committed"]
                       /\ r[1] = Realm => ledger'[r]["ceiling"] >= ledger[r]["ceiling"]
      ]_ledgerVars

\* Release returns exactly the demonstrably unspent remainder: a step that
\* releases a reservation whose holds are open gives its account back the
\* items minus the charge, no more and no less.
ReleaseIsExact ==
    [][\A k \in Keys :
          holdState[k] = "reserved" /\ holdState'[k] = "released"
          => Total([d \in Dims |-> ledger'[<<account[k], d>>]["remaining"]
                                   - ledger[<<account[k], d>>]["remaining"]])
             = Total(amount[k]) - charged[k]
      ]_ledgerVars

\* The ledger implements the abstract account: quantity only moves down the
\* pipes of BucketFlow, in particular `uncertain` empties only into
\* `remaining` and `committed` empties nowhere.
FlowSpec == Flow!Spec
=============================================================================
