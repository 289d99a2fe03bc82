----------------------- MODULE CapacityLedgerProofs -----------------------
(***************************************************************************)
(* Proofs about CapacityLedger, for any accounts, dimensions, keys, sagas  *)
(* and ceilings.  All but the last two theorems are about ApiSpec: every   *)
(* public operation of budget.rs, in any order, with a crash between any   *)
(* two of its transactions; those two are about OrderlySpec, the order the *)
(* code leaves to its callers.                                             *)
(***************************************************************************)
EXTENDS CapacityLedger, SumProofs

LedgerType == [Rows -> [Flow!Fields -> Int]]

\* Pouring and resizing keep a row a row, and keep its ceiling the sum of its
\* buckets.
Conserves(row) ==
    row["ceiling"] = row["remaining"] + row["reserved"]
            + row["committed"] + row["uncertain"] + row["delegated"]

LEMMA PouredRow ==
    ASSUME ledger \in LedgerType, NEW r \in Rows, NEW n \in Int,
           NEW from \in Flow!Buckets, NEW to \in Flow!Buckets, from # to
    PROVE  /\ Poured(r, from, to, n) \in [Flow!Fields -> Int]
           /\ Conserves(ledger[r]) => Conserves(Poured(r, from, to, n))
<1>1. ledger[r] \in [Flow!Fields -> Int]  BY DEF LedgerType
<1>2. Poured(r, from, to, n) \in [Flow!Fields -> Int]
  BY <1>1 DEF Poured, Flow!Fields
<1>3. ASSUME Conserves(ledger[r])  PROVE Conserves(Poured(r, from, to, n))
  BY <1>1, <1>3 DEF Poured, Conserves, Flow!Fields, Flow!Buckets
<1> QED  BY <1>2, <1>3

LEMMA ResizedRow ==
    ASSUME ledger \in LedgerType, NEW r \in Rows, NEW n \in Int
    PROVE  /\ Resized(r, n) \in [Flow!Fields -> Int]
           /\ Conserves(ledger[r]) => Conserves(Resized(r, n))
<1>1. ledger[r] \in [Flow!Fields -> Int]  BY DEF LedgerType
<1> QED  BY <1>1 DEF Resized, Conserves, Flow!Fields, Flow!Buckets

\* A move inside one account keeps the ledger a ledger.
LEMMA MovedType ==
    ASSUME ledger \in LedgerType,
           NEW from \in Flow!Buckets, NEW to \in Flow!Buckets, from # to, NEW a,
           NEW q \in [Dims -> Int]
    PROVE  Moved(from, to, a, q) \in LedgerType
<1>1. ASSUME NEW r \in Rows
      PROVE  /\ Poured(r, from, to, q[r[2]]) \in [Flow!Fields -> Int]
             /\ ledger[r] \in [Flow!Fields -> Int]
  <2>1. q[r[2]] \in Int  BY DEF Rows
  <2> QED  BY <2>1, PouredRow DEF LedgerType
<1> QED  BY <1>1 DEF LedgerType, Moved

\* What is left in a hold is an integer.
LEMMA RestType ==
    ASSUME LedgerTypeOK, NEW k \in Keys
    PROVE  Rest(k) \in [Dims -> Int]
BY DEF LedgerTypeOK, Rest

LEMMA AmountsAreNat ==
    ASSUME NEW k \in Keys
    PROVE  Amounts(k) \subseteq Nat
BY ParentItemAssumption DEF Amounts

LEMMA TypeInit == LedgerInit => LedgerTypeOK
BY DEF LedgerInit, LedgerTypeOK, Flow!Init, Flow!Fields, Rows, Zero, Idle, NoSaga,
       ReservationState, HoldState

\* The steps keep the types, one action at a time.
LEMMA TypeMoveBetween ==
    ASSUME LedgerTypeOK,
           NEW from \in Flow!Buckets, NEW to \in Flow!Buckets, from # to, NEW a,
           NEW q \in [Dims -> Int], MoveBetween(from, to, a, q)
    PROVE  opened' \subseteq Rows /\ ledger' \in LedgerType
<1>1. ledger \in LedgerType  BY DEF LedgerTypeOK, LedgerType
<1> QED  BY <1>1, MovedType DEF LedgerTypeOK, MoveBetween

LEMMA TypeMoveHolds ==
    ASSUME LedgerTypeOK, NEW k \in Keys,
           NEW from \in Flow!Buckets, NEW to \in Flow!Buckets, from # to,
           MoveHolds(k, from, to)
    PROVE  opened' \subseteq Rows /\ ledger' \in LedgerType
<1>1. CASE holdState[k] = from
  <2>1. MoveBetween(from, to, account[k], Rest(k))  BY <1>1 DEF MoveHolds
  <2> QED  BY <2>1, RestType, TypeMoveBetween
<1>2. CASE holdState[k] # from
  BY <1>2 DEF MoveHolds, accountVars, LedgerTypeOK, LedgerType
<1> QED  BY <1>1, <1>2

LEMMA TypeGrant ==
    ASSUME LedgerTypeOK, NEW d \in Dims, NEW c \in Ceilings, Grant(d, c)
    PROVE  LedgerTypeOK'
<1> DEFINE row  == <<Realm, d>>
           rise == IF row \in opened THEN c - ledger[row]["ceiling"] ELSE c
<1>1. row \in Rows  BY DEF Rows, Accounts
<1>2. rise \in Int
  BY <1>1, CeilingsAssumption DEF LedgerTypeOK, Flow!Fields
<1>3. Resized(row, rise) \in [Flow!Fields -> Int]
  BY <1>1, <1>2, ResizedRow DEF LedgerTypeOK, LedgerType
<1>4. ledger' = [ledger EXCEPT ![row] = Resized(row, rise)]  BY DEF Grant
<1> HIDE DEF row, rise
<1>5. ledger' \in [Rows -> [Flow!Fields -> Int]]  BY <1>1, <1>3, <1>4 DEF LedgerTypeOK
<1>6. opened' \subseteq Rows  BY <1>1 DEF LedgerTypeOK, Grant, row
<1> QED  BY <1>5, <1>6 DEF LedgerTypeOK, Grant, recordVars, holdVars

LEMMA TypeDelegate ==
    ASSUME LedgerTypeOK, NEW x \in Children, NEW d \in Dims, NEW n \in Ceilings,
           Delegate(x, d, n)
    PROVE  LedgerTypeOK'
<1> DEFINE parent == <<Realm, d>>
           child  == <<x, d>>
<1>1. parent \in Rows /\ child \in Rows  BY DEF Rows, Accounts
<1>2. n \in Int  BY CeilingsAssumption
<1>3. /\ Poured(parent, "remaining", "delegated", n) \in [Flow!Fields -> Int]
      /\ Resized(child, n) \in [Flow!Fields -> Int]
  BY <1>1, <1>2, PouredRow, ResizedRow DEF LedgerTypeOK, LedgerType, Flow!Buckets
<1>4. ledger' = [ledger EXCEPT ![parent] = Poured(parent, "remaining", "delegated", n),
                               ![child]  = Resized(child, n)]
  BY DEF Delegate
<1> HIDE DEF parent, child
<1>5. ledger' \in [Rows -> [Flow!Fields -> Int]]  BY <1>1, <1>3, <1>4 DEF LedgerTypeOK
<1>6. opened' \subseteq Rows  BY <1>1 DEF LedgerTypeOK, Delegate, child
<1> QED  BY <1>5, <1>6 DEF LedgerTypeOK, Delegate, recordVars, holdVars

LEMMA TypeRollup ==
    ASSUME LedgerTypeOK, NEW x \in Children, NEW d \in Dims, Rollup(x, d)
    PROVE  LedgerTypeOK'
<1> DEFINE parent == <<Realm, d>>
           child  == <<x, d>>
           n      == ledger[child]["remaining"]
<1>1. parent \in Rows /\ child \in Rows  BY DEF Rows, Accounts
<1>2. n \in Int /\ -n \in Int  BY <1>1 DEF LedgerTypeOK, Flow!Fields, Flow!Buckets
<1>3. /\ Poured(parent, "delegated", "remaining", n) \in [Flow!Fields -> Int]
      /\ Resized(child, -n) \in [Flow!Fields -> Int]
  BY <1>1, <1>2, PouredRow, ResizedRow DEF LedgerTypeOK, LedgerType, Flow!Buckets
<1>4. ledger' = [ledger EXCEPT ![child]  = Resized(child, -n),
                               ![parent] = Poured(parent, "delegated", "remaining", n)]
  BY DEF Rollup
<1> HIDE DEF parent, child, n
<1>5. ledger' \in [Rows -> [Flow!Fields -> Int]]  BY <1>1, <1>3, <1>4 DEF LedgerTypeOK
<1> QED  BY <1>5 DEF LedgerTypeOK, Rollup, recordVars, holdVars

LEMMA TypeReserve ==
    ASSUME LedgerTypeOK, NEW k \in Keys, NEW a \in Accounts, NEW q \in Offers(k),
           Reserve(k, a, q)
    PROVE  LedgerTypeOK'
<1>1. q \in [Dims -> Nat]  BY AmountsAreNat DEF Offers
<1>2. q \in [Dims -> Int]  BY <1>1
<1>3. "remaining" \in Flow!Buckets /\ "reserved" \in Flow!Buckets  BY DEF Flow!Buckets
<1>4. opened' \subseteq Rows /\ ledger' \in LedgerType
  BY <1>2, <1>3, TypeMoveBetween DEF Reserve
<1>5. state' \in [Keys -> ReservationState]
  BY DEF LedgerTypeOK, Reserve, ReservationState
<1>6. /\ account' \in [Keys -> Accounts \union {None}]
      /\ amount' \in [Keys -> [Dims -> Nat]]
      /\ holdState' \in [Keys -> HoldState]
  BY <1>1 DEF LedgerTypeOK, Reserve, HoldState
<1>7. handler' \in [step : HandlerStep, key : Keys]
  BY DEF Reserve, Then, HandlerStep, EventKind, ReservationState
<1> QED  BY <1>4, <1>5, <1>6, <1>7 DEF LedgerTypeOK, LedgerType, Reserve

LEMMA TypeDeny ==
    ASSUME LedgerTypeOK, NEW k \in Keys, Deny(k)
    PROVE  LedgerTypeOK'
<1>1. state' \in [Keys -> ReservationState]
  BY DEF LedgerTypeOK, Deny, ReservationState
<1>2. handler' \in [step : HandlerStep, key : Keys]
  BY DEF Deny, Then, HandlerStep, EventKind, ReservationState
<1> QED  BY <1>1, <1>2 DEF LedgerTypeOK, Deny, accountVars, holdVars

\* MarkUncertain, Release and ReconcileUncertain have one shape.
LEMMA TypeUnhold ==
    ASSUME LedgerTypeOK, NEW k \in Keys, NEW h \in {"uncertain", "released"},
           NEW from \in Flow!Buckets, NEW to \in Flow!Buckets, from # to,
           MoveHolds(k, from, to), holdState' = [holdState EXCEPT ![k] = h], state' = [state EXCEPT ![k] = h],
           Then(h, k),
           UNCHANGED <<account, amount, charged, holdCharged, saga, announced>>
    PROVE  LedgerTypeOK'
<1>1. opened' \subseteq Rows /\ ledger' \in LedgerType  BY TypeMoveHolds
<1>2. state' \in [Keys -> ReservationState]  BY DEF LedgerTypeOK, ReservationState
<1>3. holdState' \in [Keys -> HoldState]  BY DEF LedgerTypeOK, HoldState
<1>4. handler' \in [step : HandlerStep, key : Keys]
  BY DEF Then, HandlerStep, EventKind, ReservationState
<1> QED  BY <1>1, <1>2, <1>3, <1>4 DEF LedgerTypeOK, LedgerType

LEMMA TypeSettleBegin ==
    ASSUME LedgerTypeOK, NEW s \in Sagas, NEW k \in Keys, NEW d \in Dims,
           NEW c \in 0 .. amount[k][d], SettleBegin(s, k, d, c)
    PROVE  LedgerTypeOK'
<1>1. c \in Nat  BY DEF LedgerTypeOK
<1>2. saga' \in [Sagas -> {NoSaga} \union
                     [phase : SagaPhase, key : Keys, dim : Dims, charge : Nat]]
  BY <1>1 DEF LedgerTypeOK, SettleBegin, SagaPhase
<1> QED  BY <1>2 DEF LedgerTypeOK, SettleBegin, accountVars, recordVars, holdVars

\* A saga row that exists names a reservation, a dimension and a charge.
LEMMA SagaType ==
    ASSUME LedgerTypeOK, NEW s \in Sagas, saga[s].phase # "none"
    PROVE  saga[s] \in [phase : SagaPhase, key : Keys, dim : Dims, charge : Nat]
BY DEF LedgerTypeOK, NoSaga

LEMMA TypeSettleResolve ==
    ASSUME LedgerTypeOK, NEW s \in Sagas, NEW phase \in SagaPhase, SettleResolve(s, phase)
    PROVE  LedgerTypeOK'
<1>1. saga[s] \in [phase : SagaPhase, key : Keys, dim : Dims, charge : Nat]
  BY SagaType DEF SettleResolve
<1>2. saga' \in [Sagas -> {NoSaga} \union
                     [phase : SagaPhase, key : Keys, dim : Dims, charge : Nat]]
  BY <1>1 DEF LedgerTypeOK, SettleResolve
<1> QED  BY <1>2 DEF LedgerTypeOK, SettleResolve, accountVars, recordVars, holdVars

\* settle_commit takes an integer from the hold, and never more than the charge.
LEMMA TypeSettleCommit ==
    ASSUME LedgerTypeOK, NEW s \in Sagas, NEW c \in 0 .. saga[s].charge,
           SettleCommit(s, c)
    PROVE  LedgerTypeOK'
<1> DEFINE k    == saga[s].key
           d    == saga[s].dim
           rest == HeldIn(k, d)
           take == IF Fits(c, rest) THEN c ELSE rest
<1>1. saga[s] \in [phase : SagaPhase, key : Keys, dim : Dims, charge : Nat]
  BY SagaType DEF SettleCommit
<1>2. k \in Keys /\ d \in Dims /\ c \in Nat  BY <1>1
<1>3. Rest(k)[d] \in Int  BY <1>2, RestType
<1>4. take \in Int  BY <1>2, <1>3 DEF HeldIn
<1>5. [Zero EXCEPT ![d] = take] \in [Dims -> Int]  BY <1>2, <1>4 DEF Zero
<1>6. "reserved" \in Flow!Buckets /\ "committed" \in Flow!Buckets  BY DEF Flow!Buckets
<1>7. MoveBetween("reserved", "committed", account[k], [Zero EXCEPT ![d] = take])
  BY DEF SettleCommit
<1>8. opened' \subseteq Rows /\ ledger' \in LedgerType
  BY <1>5, <1>6, <1>7, TypeMoveBetween
<1> HIDE DEF take
<1>9. holdCharged' = [holdCharged EXCEPT ![k] =
                        [e \in Dims |-> @[e] + IF amount[k][e] > 0 THEN take ELSE 0]]
  BY DEF SettleCommit, take
<1>10. holdCharged' \in [Keys -> [Dims -> Int]]  BY <1>2, <1>4, <1>9 DEF LedgerTypeOK
<1>11. state' \in [Keys -> ReservationState] /\ charged' \in [Keys -> Nat]
  BY <1>2 DEF LedgerTypeOK, SettleCommit, ReservationState
<1>12. saga' \in [Sagas -> {NoSaga} \union
                     [phase : SagaPhase, key : Keys, dim : Dims, charge : Nat]]
  BY <1>1 DEF LedgerTypeOK, SettleCommit, SagaPhase
<1>13. handler' \in [step : HandlerStep, key : Keys]
  BY <1>2 DEF SettleCommit, Then, HandlerStep, EventKind, ReservationState
<1>14. UNCHANGED <<account, amount, holdState, announced>>  BY DEF SettleCommit
<1> QED
  BY <1>8, <1>10, <1>11, <1>12, <1>13, <1>14 DEF LedgerTypeOK, LedgerType

LEMMA TypeContinue ==
    ASSUME LedgerTypeOK, Continue
    PROVE  LedgerTypeOK'
<1>1. handler \in [step : HandlerStep, key : Keys]  BY DEF LedgerTypeOK, Continue
<1>2. state' \in [Keys -> ReservationState]
  BY <1>1 DEF LedgerTypeOK, Continue, Confirm, Announce, ReservationState
<1>3. announced' \subseteq Keys \X EventKind
  BY <1>1 DEF LedgerTypeOK, Continue, Confirm, Announce, HandlerStep
<1>4. handler' \in {Idle} \union [step : HandlerStep, key : Keys]
  BY <1>1 DEF Continue, StepAfter, HandlerStep, EventKind, ReservationState
<1> QED  BY <1>2, <1>3, <1>4 DEF LedgerTypeOK, Continue, accountVars, holdVars

\* Every step of the API is one of these, and each keeps the types.
LEMMA TypeStep ==
    ASSUME LedgerTypeOK, [ApiNext]_ledgerVars
    PROVE  LedgerTypeOK'
<1> USE DEF Flow!Buckets
<1>1. CASE \E d \in Dims, c \in Ceilings : Grant(d, c)  BY <1>1, TypeGrant
<1>2. CASE \E x \in Children, d \in Dims, n \in Ceilings : Delegate(x, d, n)
  BY <1>2, TypeDelegate
<1>3. CASE \E x \in Children, d \in Dims : Rollup(x, d)  BY <1>3, TypeRollup
<1>4. CASE \E k \in Keys, a \in Accounts : \E q \in Offers(k) : Reserve(k, a, q)
  BY <1>4, TypeReserve
<1>5. ASSUME NEW k \in Keys, Deny(k)  PROVE LedgerTypeOK'  BY <1>5, TypeDeny
<1>6. ASSUME NEW k \in Keys, MarkUncertain(k)  PROVE LedgerTypeOK'
  BY <1>6, TypeUnhold DEF MarkUncertain
<1>7. ASSUME NEW k \in Keys, Release(k)  PROVE LedgerTypeOK'
  BY <1>7, TypeUnhold DEF Release
<1>8. ASSUME NEW k \in Keys, ReconcileUncertain(k)  PROVE LedgerTypeOK'
  BY <1>8, TypeUnhold DEF ReconcileUncertain
<1>9. ASSUME NEW s \in Sagas, SettleStep(s)  PROVE LedgerTypeOK'
  <2>1. CASE \E k \in Keys, d \in Dims : \E c \in 0 .. amount[k][d] : SettleBegin(s, k, d, c)
    BY <2>1, TypeSettleBegin
  <2>2. CASE \E c \in 0 .. saga[s].charge : SettleCommit(s, c)  BY <2>2, TypeSettleCommit
  <2>3. CASE PeerAboveCap(s, saga[s].charge + 1)
    <3>1. SettleResolve(s, "unknown")  BY <2>3 DEF PeerAboveCap, SettleResolve
    <3> QED  BY <3>1, TypeSettleResolve DEF SagaPhase
  <2>4. CASE SettleDenied(s)  BY <2>4, TypeSettleResolve DEF SettleDenied, SagaPhase
  <2>5. CASE SettleUnknown(s)  BY <2>5, TypeSettleResolve DEF SettleUnknown, SagaPhase
  <2> QED  BY <1>9, <2>1, <2>2, <2>3, <2>4, <2>5 DEF SettleStep
<1>10. CASE Continue  BY <1>10, TypeContinue
<1>11. CASE Crash
  BY <1>11 DEF Crash, LedgerTypeOK, accountVars, recordVars, holdVars
<1>12. CASE UNCHANGED ledgerVars  BY <1>12 DEF ledgerVars, LedgerTypeOK
<1> QED
  BY <1>1, <1>2, <1>3, <1>4, <1>5, <1>6, <1>7, <1>8, <1>9, <1>10, <1>11, <1>12
  DEF ApiNext

\* Whatever is called and wherever the process dies, the rows keep their
\* shape: a hold, a saga and a pending transaction name a real reservation.
THEOREM TypeCorrect == ApiSpec => []LedgerTypeOK
<1> QED  BY TypeInit, TypeStep, PTL DEF ApiSpec

-----------------------------------------------------------------------------
(* What one step may do to one row.                                        *)

\* It leaves the row alone, pours a quantity of N down a pipe that has it, or
\* resizes it: upwards, or a child's row by all that remains in it.
RowMoves(r, N) ==
    \/ ledger'[r] = ledger[r]
    \/ \E p \in Flow!Pipes, n \in N :
          /\ n # 0 => ledger[r][p[1]] >= n
          /\ ledger'[r] = Poured(r, p[1], p[2], n)
    \/ \E n \in Int :
          /\ n >= 0 \/ (r[1] # Realm /\ ledger[r]["remaining"] + n = 0)
          /\ ledger'[r] = Resized(r, n)

\* The quantities of N that a step may be asked to move.
Unspent(N) == \A k \in Keys, d \in Dims : Rest(k)[d] \in N

LEMMA MoveBetweenRow ==
    ASSUME LedgerTypeOK, NEW N, NEW p \in Flow!Pipes, NEW a, NEW q \in [Dims -> N],
           MoveBetween(p[1], p[2], a, q), NEW r \in Rows
    PROVE  RowMoves(r, N)
<1>1. r[2] \in Dims /\ r = <<r[1], r[2]>>  BY DEF Rows
<1>2. CASE r[1] = a
  <2>1. ledger'[r] = Poured(r, p[1], p[2], q[r[2]])  BY <1>2 DEF MoveBetween, Moved
  <2>2. q[r[2]] # 0 => ledger[r][p[1]] >= q[r[2]]
    BY <1>1, <1>2 DEF MoveBetween, Covers
  <2> QED  BY <1>1, <2>1, <2>2 DEF RowMoves
<1>3. CASE r[1] # a
  BY <1>3 DEF MoveBetween, Moved, RowMoves
<1> QED  BY <1>2, <1>3

LEMMA MoveHoldsRow ==
    ASSUME LedgerTypeOK, NEW N, Unspent(N), NEW k \in Keys, NEW p \in Flow!Pipes,
           MoveHolds(k, p[1], p[2]), NEW r \in Rows
    PROVE  RowMoves(r, N)
<1>1. CASE holdState[k] = p[1]
  <2>1. Rest(k) \in [Dims -> N]  BY DEF Unspent, Rest
  <2> QED  BY <1>1, <2>1, MoveBetweenRow DEF MoveHolds
<1>2. CASE holdState[k] # p[1]  BY <1>2 DEF MoveHolds, accountVars, RowMoves
<1> QED  BY <1>1, <1>2

LEMMA GrantRow ==
    ASSUME LedgerTypeOK, NEW N, NEW d \in Dims, NEW c \in Ceilings, Grant(d, c),
           NEW r \in Rows
    PROVE  RowMoves(r, N)
<1> DEFINE row  == <<Realm, d>>
           rise == IF row \in opened THEN c - ledger[row]["ceiling"] ELSE c
<1>1. row \in Rows  BY DEF Rows, Accounts
<1>2. rise \in Int /\ rise >= 0
  BY <1>1, CeilingsAssumption DEF LedgerTypeOK, Flow!Fields, Grant
<1>3. ledger' = [ledger EXCEPT ![row] = Resized(row, rise)]  BY DEF Grant
<1> HIDE DEF row, rise
<1> QED  BY <1>1, <1>2, <1>3 DEF RowMoves, LedgerTypeOK

LEMMA DelegateRow ==
    ASSUME LedgerTypeOK, NEW N, Nat \subseteq N, NEW x \in Children, NEW d \in Dims,
           NEW n \in Ceilings, Delegate(x, d, n), NEW r \in Rows
    PROVE  RowMoves(r, N)
<1> DEFINE parent == <<Realm, d>>
           child  == <<x, d>>
<1>1. parent \in Rows /\ child \in Rows  BY DEF Rows, Accounts
<1>2. parent # child  BY RealmAssumption
<1>3. n \in Nat  BY CeilingsAssumption
<1>4. <<"remaining", "delegated">> \in Flow!Pipes  BY DEF Flow!Pipes
<1>5. ledger[parent]["remaining"] >= n  BY DEF Delegate
<1>6. ledger' = [ledger EXCEPT ![parent] = Poured(parent, "remaining", "delegated", n),
                               ![child]  = Resized(child, n)]
  BY DEF Delegate
<1> HIDE DEF parent, child
<1>7. CASE r = parent
  <2>1. ledger'[r] = Poured(r, "remaining", "delegated", n)
    BY <1>1, <1>2, <1>6, <1>7 DEF LedgerTypeOK
  <2> QED  BY <1>3, <1>4, <1>5, <1>7, <2>1 DEF RowMoves
<1>8. CASE r = child
  <2>1. ledger'[r] = Resized(r, n)  BY <1>1, <1>2, <1>6, <1>8 DEF LedgerTypeOK
  <2> QED  BY <1>3, <2>1 DEF RowMoves
<1>9. CASE r # parent /\ r # child  BY <1>6, <1>9 DEF RowMoves, LedgerTypeOK
<1> QED  BY <1>7, <1>8, <1>9

LEMMA RollupRow ==
    ASSUME LedgerTypeOK, NEW N, Nat \subseteq N, NEW x \in Children, NEW d \in Dims,
           Rollup(x, d), NEW r \in Rows
    PROVE  RowMoves(r, N)
<1> DEFINE parent == <<Realm, d>>
           child  == <<x, d>>
           n      == ledger[child]["remaining"]
<1>1. parent \in Rows /\ child \in Rows  BY DEF Rows, Accounts
<1>2. parent # child  BY RealmAssumption
<1>3. n \in Nat
  BY <1>1 DEF LedgerTypeOK, Flow!Fields, Flow!Buckets, Rollup
<1>4. <<"delegated", "remaining">> \in Flow!Pipes  BY DEF Flow!Pipes
<1>5. ledger[parent]["delegated"] >= n  BY DEF Rollup
<1>6. ledger' = [ledger EXCEPT ![child]  = Resized(child, -n),
                               ![parent] = Poured(parent, "delegated", "remaining", n)]
  BY DEF Rollup
<1>7. ledger[child]["remaining"] = n  OBVIOUS
<1> HIDE DEF parent, child, n
<1>8. CASE r = parent
  <2>1. ledger'[r] = Poured(r, "delegated", "remaining", n)
    BY <1>1, <1>2, <1>6, <1>8 DEF LedgerTypeOK
  <2> QED  BY <1>3, <1>4, <1>5, <1>8, <2>1 DEF RowMoves
<1>9. CASE r = child
  <2>1. ledger'[r] = Resized(r, -n)  BY <1>1, <1>2, <1>6, <1>9 DEF LedgerTypeOK
  <2>2. -n \in Int /\ ledger[r]["remaining"] + (-n) = 0  BY <1>3, <1>7, <1>9
  <2>3. r[1] # Realm  BY <1>9, RealmAssumption DEF child
  <2> QED  BY <2>1, <2>2, <2>3 DEF RowMoves
<1>10. CASE r # parent /\ r # child  BY <1>6, <1>10 DEF RowMoves, LedgerTypeOK
<1> QED  BY <1>8, <1>9, <1>10

LEMMA SettleCommitRow ==
    ASSUME LedgerTypeOK, NEW N, Nat \subseteq N, Unspent(N), NEW s \in Sagas,
           NEW c \in 0 .. saga[s].charge, SettleCommit(s, c), NEW r \in Rows
    PROVE  RowMoves(r, N)
<1> DEFINE k    == saga[s].key
           d    == saga[s].dim
           rest == HeldIn(k, d)
           take == IF Fits(c, rest) THEN c ELSE rest
<1>1. saga[s] \in [phase : SagaPhase, key : Keys, dim : Dims, charge : Nat]
  BY SagaType DEF SettleCommit
<1>2. c \in N /\ 0 \in N  BY <1>1
<1>3. rest \in N  BY <1>1, <1>2 DEF HeldIn, Unspent
<1>4. take \in N  BY <1>2, <1>3
<1>5. [Zero EXCEPT ![d] = take] \in [Dims -> N]  BY <1>1, <1>2, <1>4 DEF Zero
<1>6. MoveBetween("reserved", "committed", account[k], [Zero EXCEPT ![d] = take])
  BY DEF SettleCommit
<1>7. <<"reserved", "committed">> \in Flow!Pipes  BY DEF Flow!Pipes
<1> QED  BY <1>5, <1>6, <1>7, MoveBetweenRow

LEMMA StepRow ==
    ASSUME LedgerTypeOK, [ApiNext]_ledgerVars, NEW N, Nat \subseteq N, Unspent(N),
           NEW r \in Rows
    PROVE  RowMoves(r, N)
<1>1. CASE \E d \in Dims, c \in Ceilings : Grant(d, c)  BY <1>1, GrantRow
<1>2. CASE \E x \in Children, d \in Dims, n \in Ceilings : Delegate(x, d, n)
  BY <1>2, DelegateRow
<1>3. CASE \E x \in Children, d \in Dims : Rollup(x, d)  BY <1>3, RollupRow
<1>4. ASSUME NEW k \in Keys, NEW a \in Accounts, NEW q \in Offers(k), Reserve(k, a, q)
      PROVE  RowMoves(r, N)
  <2>1. q \in [Dims -> N]  BY AmountsAreNat DEF Offers
  <2>2. <<"remaining", "reserved">> \in Flow!Pipes  BY DEF Flow!Pipes
  <2> QED  BY <1>4, <2>1, <2>2, MoveBetweenRow DEF Reserve
<1>5. ASSUME NEW k \in Keys, Deny(k)  PROVE RowMoves(r, N)
  BY <1>5 DEF Deny, accountVars, RowMoves
<1>6. ASSUME NEW k \in Keys, MarkUncertain(k)  PROVE RowMoves(r, N)
  <2>1. <<"reserved", "uncertain">> \in Flow!Pipes  BY DEF Flow!Pipes
  <2> QED  BY <1>6, <2>1, MoveHoldsRow DEF MarkUncertain
<1>7. ASSUME NEW k \in Keys, Release(k)  PROVE RowMoves(r, N)
  <2>1. <<"reserved", "remaining">> \in Flow!Pipes  BY DEF Flow!Pipes
  <2> QED  BY <1>7, <2>1, MoveHoldsRow DEF Release
<1>8. ASSUME NEW k \in Keys, ReconcileUncertain(k)  PROVE RowMoves(r, N)
  <2>1. <<"uncertain", "remaining">> \in Flow!Pipes  BY DEF Flow!Pipes
  <2> QED  BY <1>8, <2>1, MoveHoldsRow DEF ReconcileUncertain
<1>9. ASSUME NEW s \in Sagas, SettleStep(s)  PROVE RowMoves(r, N)
  <2>1. CASE \E c \in 0 .. saga[s].charge : SettleCommit(s, c)  BY <2>1, SettleCommitRow
  <2>2. CASE ~ \E c \in 0 .. saga[s].charge : SettleCommit(s, c)
    BY <1>9, <2>2
    DEF SettleStep, SettleBegin, PeerAboveCap, SettleDenied, SettleUnknown,
        SettleResolve, accountVars, RowMoves
  <2> QED  BY <2>1, <2>2
<1>10. CASE Continue \/ Crash  BY <1>10 DEF Continue, Crash, accountVars, RowMoves
<1>11. CASE UNCHANGED ledgerVars  BY <1>11 DEF ledgerVars, RowMoves
<1> QED
  BY <1>1, <1>2, <1>3, <1>4, <1>5, <1>6, <1>7, <1>8, <1>9, <1>10, <1>11 DEF ApiNext

-----------------------------------------------------------------------------
(* Conservation.                                                           *)

LEMMA RowConserves ==
    ASSUME LedgerTypeOK, NEW r \in Rows, RowMoves(r, Int), Conserves(ledger[r])
    PROVE  Conserves(ledger'[r])
<1>1. ledger \in LedgerType  BY DEF LedgerTypeOK, LedgerType
<1>2. ASSUME NEW p \in Flow!Pipes, NEW n \in Int, ledger'[r] = Poured(r, p[1], p[2], n)
      PROVE  Conserves(ledger'[r])
  <2>1. p[1] \in Flow!Buckets /\ p[2] \in Flow!Buckets /\ p[1] # p[2]
    BY DEF Flow!Pipes, Flow!Buckets
  <2> QED  BY <1>1, <1>2, <2>1, PouredRow
<1>3. ASSUME NEW n \in Int, ledger'[r] = Resized(r, n)
      PROVE  Conserves(ledger'[r])
  BY <1>1, <1>3, ResizedRow
<1> QED  BY <1>2, <1>3 DEF RowMoves

LEMMA ConservationStep ==
    ASSUME LedgerTypeOK, Conservation, [ApiNext]_ledgerVars
    PROVE  Conservation'
<1>1. Unspent(Int)  BY RestType DEF Unspent
<1>2. ASSUME NEW r \in Rows  PROVE Conserves(ledger'[r])
  <2>1. RowMoves(r, Int)  BY <1>1, StepRow
  <2>2. Conserves(ledger[r])  BY DEF Conservation, Conserves
  <2> QED  BY <2>1, <2>2, RowConserves
<1> QED  BY <1>2 DEF Conservation, Conserves

\* Account::conserves holds at every observation: for any dimensions, any
\* order of calls, two charges of one hold included, and any crash.
THEOREM ConservationHolds == ApiSpec => []Conservation
<1>1. LedgerInit => Conservation
  BY DEF LedgerInit, Conservation, Flow!Init, Flow!Fields, Flow!Buckets
<1> QED  BY <1>1, TypeCorrect, ConservationStep, PTL DEF ApiSpec

-----------------------------------------------------------------------------
(* Events.                                                                 *)

LEMMA NextEventStep ==
    ASSUME LedgerTypeOK, NextEventIsTrue, [ApiNext]_ledgerVars
    PROVE  NextEventIsTrue'
<1>1. ASSUME NEW k \in Keys, NEW st \in EventKind,
             state' = [state EXCEPT ![k] = st], Then(st, k)
      PROVE  NextEventIsTrue'
  <2>1. st # "confirm"  BY DEF EventKind, ReservationState
  <2> QED  BY <1>1, <2>1 DEF NextEventIsTrue, Then, LedgerTypeOK
<1>2. CASE UNCHANGED <<state, handler>>  BY <1>2 DEF NextEventIsTrue
<1>3. CASE handler' = Idle  BY <1>3 DEF NextEventIsTrue
<1>4. CASE \E d \in Dims, c \in Ceilings : Grant(d, c)
  BY <1>2, <1>4 DEF Grant, recordVars
<1>5. CASE \E x \in Children, d \in Dims, n \in Ceilings : Delegate(x, d, n)
  BY <1>2, <1>5 DEF Delegate, recordVars
<1>6. CASE \E x \in Children, d \in Dims : Rollup(x, d)
  BY <1>2, <1>6 DEF Rollup, recordVars
<1> USE DEF EventKind, ReservationState
<1>7. ASSUME NEW k \in Keys, NEW a \in Accounts, NEW q \in Offers(k), Reserve(k, a, q)
      PROVE  NextEventIsTrue'
  BY <1>1, <1>7 DEF Reserve
<1>8. ASSUME NEW k \in Keys,
             Deny(k) \/ MarkUncertain(k) \/ Release(k) \/ ReconcileUncertain(k)
      PROVE  NextEventIsTrue'
  BY <1>1, <1>8 DEF Deny, MarkUncertain, Release, ReconcileUncertain
<1>9. ASSUME NEW s \in Sagas, SettleStep(s)  PROVE NextEventIsTrue'
  <2>1. ASSUME NEW c \in 0 .. saga[s].charge, SettleCommit(s, c)  PROVE NextEventIsTrue'
    <3>1. saga[s].key \in Keys  BY <2>1, SagaType DEF SettleCommit
    <3> QED  BY <1>1, <2>1, <3>1 DEF SettleCommit
  <2>2. CASE ~ \E c \in 0 .. saga[s].charge : SettleCommit(s, c)
    BY <1>2, <1>9, <2>2
    DEF SettleStep, SettleBegin, PeerAboveCap, SettleDenied, SettleUnknown,
        SettleResolve, recordVars
  <2> QED  BY <2>1, <2>2
<1>10. CASE Continue
  <2>1. handler \in [step : HandlerStep, key : Keys]  BY <1>10 DEF Continue, LedgerTypeOK
  <2>2. CASE handler.step = "requested"
    <3>1. handler'.step = "confirm" /\ handler'.key = handler.key /\ state' = state
      BY <1>10, <2>1, <2>2 DEF Continue, StepAfter, Announce
    <3> QED  BY <1>10, <2>2, <3>1 DEF NextEventIsTrue, Continue
  <2>3. CASE handler.step = "confirm"
    <3>1. handler'.step = "confirmed" /\ handler'.key = handler.key
      BY <1>10, <2>1, <2>3 DEF Continue, StepAfter
    <3>2. state'[handler.key] = "confirmed"
      BY <1>10, <2>1, <2>3 DEF Continue, Confirm, LedgerTypeOK
    <3> QED  BY <3>1, <3>2 DEF NextEventIsTrue
  <2>4. CASE handler.step \notin {"requested", "confirm"}
    BY <1>3, <1>10, <2>4 DEF Continue, StepAfter
  <2> QED  BY <2>2, <2>3, <2>4
<1>11. CASE Crash  BY <1>3, <1>11 DEF Crash
<1>12. CASE UNCHANGED ledgerVars  BY <1>2, <1>12 DEF ledgerVars
<1> QED
  BY <1>4, <1>5, <1>6, <1>7, <1>8, <1>9, <1>10, <1>11, <1>12 DEF ApiNext

\* Whatever crashes and whatever is called next, the event an operation is
\* about to append in a transaction of its own names the state of its row.
THEOREM NextEventIsTrueHolds == ApiSpec => []NextEventIsTrue
<1>1. LedgerInit => NextEventIsTrue  BY DEF LedgerInit, NextEventIsTrue
<1> QED  BY <1>1, TypeCorrect, NextEventStep, PTL DEF ApiSpec

\* The events an operation appends in transactions of their own are true when
\* they are appended: no crash and no later operation gets in between.
THEOREM EventsAreTrueHolds == ApiSpec => EventsAreTrue
<1> DEFINE True ==
        \A k \in Keys, kind \in EventKind :
            <<k, kind>> \in announced' \ announced => state'[k] = kind
<1>1. ASSUME NextEventIsTrue, [ApiNext]_ledgerVars  PROVE [True]_ledgerVars
  <2>1. CASE Continue
    BY <1>1, <2>1 DEF Continue, Confirm, Announce, NextEventIsTrue
  <2>2. CASE announced' = announced  BY <2>2
  <2>3. CASE \/ \E d \in Dims, c \in Ceilings : Grant(d, c)
             \/ \E x \in Children, d \in Dims, n \in Ceilings : Delegate(x, d, n)
             \/ \E x \in Children, d \in Dims : Rollup(x, d)
    BY <2>2, <2>3 DEF Grant, Delegate, Rollup
  <2>4. CASE \E k \in Keys, a \in Accounts : \E q \in Offers(k) : Reserve(k, a, q)
    BY <2>2, <2>4 DEF Reserve
  <2>5. CASE \E k \in Keys : Deny(k) \/ MarkUncertain(k) \/ Release(k) \/ ReconcileUncertain(k)
    BY <2>2, <2>5 DEF Deny, MarkUncertain, Release, ReconcileUncertain
  <2>6. ASSUME NEW s \in Sagas, SettleStep(s)  PROVE [True]_ledgerVars
    <3>1. ASSUME NEW c, SettleCommit(s, c)  PROVE announced' = announced
      BY <3>1 DEF SettleCommit
    <3>2. ASSUME NEW k, NEW d, NEW c, SettleBegin(s, k, d, c)  PROVE announced' = announced
      BY <3>2 DEF SettleBegin
    <3>3. CASE PeerAboveCap(s, saga[s].charge + 1)  BY <2>2, <3>3 DEF PeerAboveCap
    <3>4. CASE SettleDenied(s) \/ SettleUnknown(s)
      BY <2>2, <3>4 DEF SettleDenied, SettleUnknown, SettleResolve
    <3> HIDE DEF True
    <3> QED  BY <2>2, <2>6, <3>1, <3>2, <3>3, <3>4 DEF SettleStep
  <2>7. CASE Crash \/ UNCHANGED ledgerVars  BY <2>2, <2>7 DEF Crash, ledgerVars
  <2> QED  BY <1>1, <2>1, <2>3, <2>4, <2>5, <2>6, <2>7 DEF ApiNext
<1> QED
  BY <1>1, NextEventIsTrueHolds, PTL DEF ApiSpec, EventsAreTrue

-----------------------------------------------------------------------------
(* Overdrafts.                                                             *)

\* The realm measures everything in one dimension, as the daemon provisions
\* it.  With two, settle_commit charges holds it took nothing from.
OneDimension == \A d, e \in Dims : d = e

\* A charge is applied to what a hold still has, so it is a charge on a
\* reservation that exists, and a reservation starts with nothing charged.
ChargesHaveHolds ==
    /\ \A k \in Keys : state[k] = "absent" => holdCharged[k] = Zero
    /\ \A s \in Sagas : saga[s].phase # "none" => state[saga[s].key] # "absent"

SafeLedger == LedgerTypeOK /\ Conservation /\ NeverOverdrawn /\ ChargesHaveHolds

LEMMA RestIsNat ==
    ASSUME SafeLedger
    PROVE  Unspent(Nat)
BY RestType DEF SafeLedger, NeverOverdrawn, Unspent

\* No row is overdrawn by a step that only asks for what holds still have.
LEMMA RowNotOverdrawn ==
    ASSUME SafeLedger, Conservation', NEW r \in Rows, RowMoves(r, Nat)
    PROVE  \A b \in Flow!Fields : ledger'[r][b] >= 0
<1>1. /\ ledger[r] \in [Flow!Fields -> Int]
      /\ \A b \in Flow!Fields : ledger[r][b] >= 0
      /\ Conserves(ledger[r])
  BY DEF SafeLedger, LedgerTypeOK, NeverOverdrawn, Conservation, Conserves
<1>2. CASE ledger'[r] = ledger[r]  BY <1>1, <1>2
<1>3. ASSUME NEW p \in Flow!Pipes, NEW n \in Nat, n # 0 => ledger[r][p[1]] >= n,
             ledger'[r] = Poured(r, p[1], p[2], n), NEW b \in Flow!Fields
      PROVE  ledger'[r][b] >= 0
  <2>1. p[1] \in Flow!Fields /\ p[2] \in Flow!Fields /\ p[1] # p[2]
    BY DEF Flow!Pipes, Flow!Buckets, Flow!Fields
  <2>2. ledger[r][p[1]] - n >= 0  BY <1>1, <1>3, <2>1
  <2>3. ledger[r][p[2]] + n >= 0  BY <1>1, <2>1
  <2> QED  BY <1>1, <1>3, <2>1, <2>2, <2>3 DEF Poured
<1>4. ASSUME NEW n \in Int, n >= 0 \/ ledger[r]["remaining"] + n = 0,
             ledger'[r] = Resized(r, n), NEW b \in Flow!Fields
      PROVE  ledger'[r][b] >= 0
  BY <1>1, <1>4 DEF Resized, Conserves, Flow!Fields, Flow!Buckets
<1> QED  BY <1>2, <1>3, <1>4 DEF RowMoves

\* settle_commit takes no more from a hold than is left in it.
LEMMA SettleCommitRest ==
    ASSUME SafeLedger, OneDimension, NEW s \in Sagas, NEW c \in 0 .. saga[s].charge,
           SettleCommit(s, c), NEW j \in Keys, NEW e \in Dims
    PROVE  (Rest(j)[e])' >= 0
<1> DEFINE k    == saga[s].key
           d    == saga[s].dim
           rest == HeldIn(k, d)
           take == IF Fits(c, rest) THEN c ELSE rest
<1>1. LedgerTypeOK  BY DEF SafeLedger
<1>2. saga[s] \in [phase : SagaPhase, key : Keys, dim : Dims, charge : Nat]
  BY <1>1, SagaType DEF SettleCommit
<1>3. k \in Keys /\ d \in Dims /\ c \in Nat  BY <1>2
<1>4. e = d  BY <1>3 DEF OneDimension
<1>5. \A i \in Keys, f \in Dims : Rest(i)[f] \in Int /\ Rest(i)[f] >= 0
  BY <1>1, RestType DEF SafeLedger, NeverOverdrawn
<1>6. take \in Int /\ take <= Rest(k)[d] /\ take >= 0
  BY <1>3, <1>5 DEF HeldIn, Fits
<1> HIDE DEF take
<1>7. holdCharged' = [holdCharged EXCEPT ![k] =
                        [f \in Dims |-> @[f] + IF amount[k][f] > 0 THEN take ELSE 0]]
  BY DEF SettleCommit, take
<1>8. amount' = amount  BY DEF SettleCommit
<1>9. (Rest(j)[e])' = amount[j][e] - holdCharged'[j][e]  BY <1>8 DEF Rest
<1>10. CASE j # k
  <2>1. holdCharged'[j] = holdCharged[j]  BY <1>1, <1>7, <1>10 DEF LedgerTypeOK
  <2> QED  BY <1>5, <1>9, <2>1 DEF Rest
<1>11. CASE j = k
  <2>1. holdCharged'[j][e] = holdCharged[j][e] + IF amount[k][e] > 0 THEN take ELSE 0
    BY <1>1, <1>3, <1>7, <1>11 DEF LedgerTypeOK
  <2>2. Rest(k)[d] = amount[k][e] - holdCharged[j][e]  BY <1>3, <1>4, <1>11 DEF Rest
  <2>3. amount[k][e] \in Nat /\ holdCharged[j][e] \in Int
    BY <1>1, <1>3 DEF LedgerTypeOK
  <2> QED  BY <1>5, <1>6, <1>9, <1>11, <2>1, <2>2, <2>3
<1> QED  BY <1>10, <1>11

LEMMA RestStep ==
    ASSUME SafeLedger, OneDimension, [ApiNext]_ledgerVars, NEW j \in Keys, NEW e \in Dims
    PROVE  (Rest(j)[e])' >= 0
<1>1. Rest(j)[e] >= 0  BY DEF SafeLedger, NeverOverdrawn
<1>2. CASE UNCHANGED <<amount, holdCharged>>  BY <1>1, <1>2 DEF Rest
<1>3. ASSUME NEW k \in Keys, NEW a \in Accounts, NEW q \in Offers(k), Reserve(k, a, q)
      PROVE  (Rest(j)[e])' >= 0
  <2>1. LedgerTypeOK  BY DEF SafeLedger
  <2>2. q \in [Dims -> Nat]  BY AmountsAreNat DEF Offers
  <2>3. amount' = [amount EXCEPT ![k] = q] /\ holdCharged' = holdCharged
    BY <1>3 DEF Reserve
  <2>4. CASE j = k
    <3>1. holdCharged[k][e] = 0
      BY <1>3 DEF Reserve, SafeLedger, ChargesHaveHolds, Zero
    <3>2. amount'[j][e] \in Nat  BY <2>1, <2>2, <2>3, <2>4 DEF LedgerTypeOK
    <3> QED  BY <2>3, <2>4, <3>1, <3>2 DEF Rest
  <2>5. CASE j # k
    <3>1. amount'[j] = amount[j]  BY <2>1, <2>3, <2>5 DEF LedgerTypeOK
    <3> QED  BY <1>1, <2>3, <3>1 DEF Rest
  <2> QED  BY <2>4, <2>5
<1>4. ASSUME NEW s \in Sagas, SettleStep(s)  PROVE (Rest(j)[e])' >= 0
  <2>1. CASE \E c \in 0 .. saga[s].charge : SettleCommit(s, c)
    BY <2>1, SettleCommitRest
  <2>2. CASE ~ \E c \in 0 .. saga[s].charge : SettleCommit(s, c)
    BY <1>2, <1>4, <2>2
    DEF SettleStep, SettleBegin, PeerAboveCap, SettleDenied, SettleUnknown,
        SettleResolve, recordVars, holdVars
  <2> QED  BY <2>1, <2>2
<1>5. CASE \/ \E d \in Dims, c \in Ceilings : Grant(d, c)
           \/ \E x \in Children, d \in Dims, n \in Ceilings : Delegate(x, d, n)
           \/ \E x \in Children, d \in Dims : Rollup(x, d)
  BY <1>2, <1>5 DEF Grant, Delegate, Rollup, recordVars, holdVars
<1>6. CASE \E k \in Keys : Deny(k) \/ MarkUncertain(k) \/ Release(k) \/ ReconcileUncertain(k)
  BY <1>2, <1>6 DEF Deny, MarkUncertain, Release, ReconcileUncertain, holdVars
<1>7. CASE Continue \/ Crash \/ UNCHANGED ledgerVars
  BY <1>2, <1>7 DEF Continue, Crash, ledgerVars, recordVars, holdVars
<1> QED  BY <1>3, <1>4, <1>5, <1>6, <1>7 DEF ApiNext

\* No reservation returns to `absent`, and only a confirmed one is settled.
LEMMA ChargesStep ==
    ASSUME SafeLedger, [ApiNext]_ledgerVars
    PROVE  ChargesHaveHolds'
<1> USE DEF SafeLedger
<1>1. CASE UNCHANGED <<state, holdCharged, saga>>  BY <1>1 DEF ChargesHaveHolds
<1>2. ASSUME NEW k \in Keys, NEW st \in EventKind, state' = [state EXCEPT ![k] = st],
             UNCHANGED <<holdCharged, saga>>
      PROVE  ChargesHaveHolds'
  <2>1. st # "absent"  BY DEF EventKind
  <2>2. \A j \in Keys : state'[j] = "absent" => state[j] = "absent"
    BY <1>2, <2>1 DEF LedgerTypeOK
  <2>3. \A s \in Sagas : saga[s].phase # "none" => saga[s].key \in Keys
    BY SagaType
  <2> QED  BY <1>2, <2>2, <2>3 DEF ChargesHaveHolds, LedgerTypeOK
<1>3. CASE \/ \E d \in Dims, c \in Ceilings : Grant(d, c)
           \/ \E x \in Children, d \in Dims, n \in Ceilings : Delegate(x, d, n)
           \/ \E x \in Children, d \in Dims : Rollup(x, d)
  BY <1>1, <1>3 DEF Grant, Delegate, Rollup, recordVars, holdVars
<1>4. ASSUME NEW k \in Keys,
             \/ \E a \in Accounts, q \in Offers(k) : Reserve(k, a, q)
             \/ Deny(k) \/ MarkUncertain(k) \/ Release(k) \/ ReconcileUncertain(k)
      PROVE  ChargesHaveHolds'
  <2>1. \E st \in EventKind : state' = [state EXCEPT ![k] = st]
    BY <1>4
    DEF Reserve, Deny, MarkUncertain, Release, ReconcileUncertain, EventKind,
        ReservationState
  <2>2. UNCHANGED <<holdCharged, saga>>
    BY <1>4 DEF Reserve, Deny, MarkUncertain, Release, ReconcileUncertain, holdVars
  <2> QED  BY <1>2, <2>1, <2>2
<1>5. ASSUME NEW s \in Sagas, SettleStep(s)  PROVE ChargesHaveHolds'
  <2>1. ASSUME NEW k \in Keys, NEW d \in Dims, NEW c \in 0 .. amount[k][d],
               SettleBegin(s, k, d, c)
        PROVE  ChargesHaveHolds'
    BY <2>1 DEF SettleBegin, ChargesHaveHolds, LedgerTypeOK, recordVars, holdVars
  <2>2. ASSUME NEW c \in 0 .. saga[s].charge, SettleCommit(s, c)
        PROVE  ChargesHaveHolds'
    <3> DEFINE k == saga[s].key
    <3>1. saga[s] \in [phase : SagaPhase, key : Keys, dim : Dims, charge : Nat]
      BY <2>2, SagaType DEF SettleCommit
    <3>2. state[k] # "absent"  BY <2>2 DEF SettleCommit, ChargesHaveHolds
    <3>3. state'[k] = "settled" /\ \A j \in Keys \ {k} : state'[j] = state[j]
      BY <2>2, <3>1 DEF SettleCommit, LedgerTypeOK
    <3>4. \A j \in Keys \ {k} : holdCharged'[j] = holdCharged[j]
      BY <2>2, <3>1 DEF SettleCommit, LedgerTypeOK
    <3>5. \A t \in Sagas : saga'[t].key = saga[t].key /\
                           (saga'[t].phase # "none" => saga[t].phase # "none")
      BY <2>2, <3>1 DEF SettleCommit, LedgerTypeOK
    <3>6. \A t \in Sagas : saga[t].phase # "none" => saga[t].key \in Keys
      BY SagaType
    <3> QED  BY <3>2, <3>3, <3>4, <3>5, <3>6 DEF ChargesHaveHolds
  <2>3. ASSUME NEW phase, SettleResolve(s, phase)
        PROVE  ChargesHaveHolds'
    <3>1. saga[s] \in [phase : SagaPhase, key : Keys, dim : Dims, charge : Nat]
      BY <2>3, SagaType DEF SettleResolve
    <3>2. \A t \in Sagas : saga'[t].key = saga[t].key /\
                           (saga'[t].phase # "none" => saga[t].phase # "none")
      BY <2>3, <3>1 DEF SettleResolve, LedgerTypeOK
    <3> QED  BY <2>3, <3>2 DEF SettleResolve, ChargesHaveHolds, recordVars, holdVars
  <2>4. CASE PeerAboveCap(s, saga[s].charge + 1)
    <3>1. SettleResolve(s, "unknown")  BY <2>4 DEF PeerAboveCap, SettleResolve
    <3> QED  BY <2>3, <3>1
  <2> QED  BY <1>5, <2>1, <2>2, <2>3, <2>4 DEF SettleStep, SettleDenied, SettleUnknown
<1>6. CASE Continue
  <2>1. handler \in [step : HandlerStep, key : Keys]  BY <1>6 DEF Continue, LedgerTypeOK
  <2>2. \/ state' = state
        \/ state' = [state EXCEPT ![handler.key] = "confirmed"]
    BY <1>6 DEF Continue, Confirm, Announce
  <2>3. "confirmed" \in EventKind  BY DEF EventKind, ReservationState
  <2> QED  BY <1>1, <1>2, <1>6, <2>1, <2>2, <2>3 DEF Continue, holdVars
<1>7. CASE Crash \/ UNCHANGED ledgerVars
  BY <1>1, <1>7 DEF Crash, ledgerVars, recordVars, holdVars
<1> QED  BY <1>3, <1>4, <1>5, <1>6, <1>7 DEF ApiNext

LEMMA SafeInit == LedgerInit => SafeLedger
<1> SUFFICES ASSUME LedgerInit  PROVE SafeLedger
  OBVIOUS
<1>1. Conservation
  BY DEF LedgerInit, Conservation, Flow!Init, Flow!Fields, Flow!Buckets
<1>2. NeverOverdrawn
  BY DEF LedgerInit, NeverOverdrawn, Flow!Init, Rest, Zero
<1>3. ChargesHaveHolds  BY DEF LedgerInit, ChargesHaveHolds, NoSaga
<1> QED  BY <1>1, <1>2, <1>3, TypeInit DEF SafeLedger

LEMMA SafeStep ==
    ASSUME OneDimension, SafeLedger, [ApiNext]_ledgerVars
    PROVE  SafeLedger'
<1>1. LedgerTypeOK' /\ Conservation'  BY TypeStep, ConservationStep DEF SafeLedger
<1>2. \A r \in Rows, b \in Flow!Fields : ledger'[r][b] >= 0
  <2>1. Unspent(Nat) /\ LedgerTypeOK  BY RestIsNat DEF SafeLedger
  <2>2. \A r \in Rows : RowMoves(r, Nat)  BY <2>1, StepRow
  <2> QED  BY <1>1, <2>2, RowNotOverdrawn
<1>3. NeverOverdrawn'  BY <1>2, RestStep DEF NeverOverdrawn
<1> QED  BY <1>1, <1>3, ChargesStep DEF SafeLedger

\* With one dimension no bucket and no hold is ever overdrawn, whatever the
\* order of calls.
THEOREM NeverOverdrawnHolds == ASSUME OneDimension PROVE ApiSpec => []NeverOverdrawn
<1>1. SafeLedger /\ [ApiNext]_ledgerVars => SafeLedger'  BY SafeStep
<1>2. SafeLedger => NeverOverdrawn  BY DEF SafeLedger
<1> QED  BY SafeInit, <1>1, <1>2, PTL DEF ApiSpec

-----------------------------------------------------------------------------
(* Refinement.                                                             *)

LEMMA RowFlows ==
    ASSUME SafeLedger, NEW r \in Rows, RowMoves(r, Nat)
    PROVE  Flow!Pour(r) \/ Flow!Resize(r)
<1>1. ledger[r] \in [Flow!Fields -> Int]  BY DEF SafeLedger, LedgerTypeOK
<1>2. CASE ledger'[r] = ledger[r]
  <2> DEFINE n == ledger'[r]["ceiling"] - ledger[r]["ceiling"]
  <2>1. n = 0  BY <1>1, <1>2 DEF Flow!Fields
  <2> HIDE DEF n
  <2>2. [ledger[r] EXCEPT !["ceiling"] = @ + n, !["remaining"] = @ + n] = ledger[r]
    BY <1>1, <2>1 DEF Flow!Fields, Flow!Buckets
  <2> QED  BY <1>2, <2>2 DEF Flow!Resize, n
<1>3. ASSUME NEW p \in Flow!Pipes, NEW n \in Nat, ledger'[r] = Poured(r, p[1], p[2], n)
      PROVE  Flow!Pour(r)
  <2>1. p[1] \in Flow!Fields /\ p[2] \in Flow!Fields /\ p[1] # p[2]
    BY DEF Flow!Pipes, Flow!Buckets, Flow!Fields
  <2> DEFINE m == ledger[r][p[1]] - ledger'[r][p[1]]
  <2>2. m = n  BY <1>1, <1>3, <2>1 DEF Poured
  <2> HIDE DEF m
  <2>3. m >= 0 /\ ledger'[r] = [ledger[r] EXCEPT ![p[1]] = @ - m, ![p[2]] = @ + m]
    BY <1>3, <2>2 DEF Poured
  <2> QED  BY <2>3 DEF Flow!Pour, m
<1>4. ASSUME NEW n \in Int, ledger'[r] = Resized(r, n)
      PROVE  Flow!Resize(r)
  <2>1. ledger'[r]["ceiling"] - ledger[r]["ceiling"] = n
    BY <1>1, <1>4 DEF Resized, Flow!Fields
  <2> QED  BY <1>4, <2>1 DEF Flow!Resize, Resized
<1> QED  BY <1>2, <1>3, <1>4 DEF RowMoves

LEMMA FlowStep ==
    ASSUME OneDimension, SafeLedger, [ApiNext]_ledgerVars
    PROVE  [Flow!Next]_ledger
<1>1. Unspent(Nat) /\ LedgerTypeOK  BY RestIsNat DEF SafeLedger
<1>2. \A r \in Rows : RowMoves(r, Nat)  BY <1>1, StepRow
<1> QED  BY <1>2, RowFlows DEF Flow!Next

\* With one dimension the ledger implements the abstract account: quantity
\* only runs down the pipes, so `uncertain` empties only into `remaining` and
\* `committed` empties nowhere.
THEOREM LedgerImplementsFlow == ASSUME OneDimension PROVE ApiSpec => FlowSpec
<1>1. LedgerInit => Flow!Init  BY DEF LedgerInit
<1>2. SafeLedger /\ [ApiNext]_ledgerVars => [Flow!Next]_ledger  BY FlowStep
<1>3. SafeLedger /\ [ApiNext]_ledgerVars => SafeLedger'  BY SafeStep
<1> QED  BY SafeInit, <1>1, <1>2, <1>3, PTL DEF ApiSpec, FlowSpec, Flow!Spec

\* `committed` never shrinks, nor does a ceiling of the realm.
LEMMA RowSpends ==
    ASSUME SafeLedger, NEW r \in Rows, RowMoves(r, Nat)
    PROVE  /\ ledger'[r]["committed"] >= ledger[r]["committed"]
           /\ r[1] = Realm => ledger'[r]["ceiling"] >= ledger[r]["ceiling"]
<1> DEFINE Grown == /\ ledger'[r]["committed"] >= ledger[r]["committed"]
                    /\ r[1] = Realm => ledger'[r]["ceiling"] >= ledger[r]["ceiling"]
<1>1. ledger[r] \in [Flow!Fields -> Int]  BY DEF SafeLedger, LedgerTypeOK
<1>2. ledger[r]["committed"] \in Int /\ ledger[r]["ceiling"] \in Int
  BY <1>1 DEF Flow!Fields, Flow!Buckets
<1>3. CASE ledger'[r] = ledger[r]  BY <1>2, <1>3
<1>4. ASSUME NEW p \in Flow!Pipes, NEW n \in Nat, ledger'[r] = Poured(r, p[1], p[2], n)
      PROVE  Grown
  BY <1>1, <1>2, <1>4 DEF Poured, Flow!Pipes, Flow!Buckets, Flow!Fields
<1>5. ASSUME NEW n \in Int, n >= 0 \/ r[1] # Realm, ledger'[r] = Resized(r, n)
      PROVE  Grown
  BY <1>1, <1>2, <1>5 DEF Resized, Flow!Buckets, Flow!Fields
<1> QED  BY <1>3, <1>4, <1>5 DEF RowMoves

\* With one dimension spending is final: no call, retry or crash takes anything
\* out of `committed`, and the realm's ceiling only rises.
THEOREM SpendingIsFinalHolds == ASSUME OneDimension PROVE ApiSpec => SpendingIsFinal
<1> DEFINE Final ==
        \A r \in Rows : /\ ledger'[r]["committed"] >= ledger[r]["committed"]
                        /\ r[1] = Realm => ledger'[r]["ceiling"] >= ledger[r]["ceiling"]
<1>1. SafeLedger /\ [ApiNext]_ledgerVars => [Final]_ledgerVars
  <2> SUFFICES ASSUME SafeLedger, [ApiNext]_ledgerVars  PROVE Final
    OBVIOUS
  <2>1. Unspent(Nat) /\ LedgerTypeOK  BY RestIsNat DEF SafeLedger
  <2>2. \A r \in Rows : RowMoves(r, Nat)  BY <2>1, StepRow
  <2> QED  BY <2>2, RowSpends
<1>2. SafeLedger /\ [ApiNext]_ledgerVars => SafeLedger'  BY SafeStep
<1> QED  BY SafeInit, <1>1, <1>2, PTL DEF ApiSpec, SpendingIsFinal
-----------------------------------------------------------------------------
(* Delegation.                                                             *)

\* What the delegations look at: what the realm's rows have delegated, and the
\* ceilings of the children's.
KeepsFunding ==
    \A r \in Rows : /\ ledger'[r]["delegated"] = ledger[r]["delegated"]
                    /\ r[1] # Realm => ledger'[r]["ceiling"] = ledger[r]["ceiling"]

Funds(x, d, n) ==
    LET parent == <<Realm, d>>
        child  == <<x, d>>
    IN  /\ ledger'[parent]["delegated"] = ledger[parent]["delegated"] + n
        /\ ledger'[child]["ceiling"]    = ledger[child]["ceiling"] + n
        /\ \A r \in Rows \ {parent, child} : ledger'[r] = ledger[r]

CeilingsIn(d) == [x \in Children |-> ledger[<<x, d>>]["ceiling"]]

LEMMA FundingKept ==
    ASSUME ChildrenAreFunded, KeepsFunding
    PROVE  ChildrenAreFunded'
<1> SUFFICES ASSUME NEW d \in Dims
             PROVE  ledger'[<<Realm, d>>]["delegated"]
                        = SumFunctionOnSet(CeilingsIn(d)', Children)
  BY DEF ChildrenAreFunded, CeilingsIn
<1>1. <<Realm, d>> \in Rows /\ \A x \in Children : <<x, d>> \in Rows
  BY DEF Rows, Accounts
<1>2. CeilingsIn(d)' = CeilingsIn(d)
  BY <1>1, RealmAssumption DEF CeilingsIn, KeepsFunding
<1>3. ledger'[<<Realm, d>>]["delegated"] = ledger[<<Realm, d>>]["delegated"]
  BY <1>1 DEF KeepsFunding
<1> QED  BY <1>2, <1>3 DEF ChildrenAreFunded, CeilingsIn

LEMMA FundingMoved ==
    ASSUME LedgerTypeOK, LedgerTypeOK', ChildrenAreFunded,
           NEW x \in Children, NEW d \in Dims, NEW n \in Int, Funds(x, d, n)
    PROVE  ChildrenAreFunded'
<1> SUFFICES ASSUME NEW e \in Dims
             PROVE  ledger'[<<Realm, e>>]["delegated"]
                        = SumFunctionOnSet(CeilingsIn(e)', Children)
  BY DEF ChildrenAreFunded, CeilingsIn
<1>1. <<Realm, e>> \in Rows /\ \A y \in Children : <<y, e>> \in Rows /\ y # Realm
  BY RealmAssumption DEF Rows, Accounts
<1>2. ledger[<<Realm, e>>]["delegated"] = SumFunctionOnSet(CeilingsIn(e), Children)
  BY DEF ChildrenAreFunded, CeilingsIn
<1>3. \A y \in Children : y # x \/ e # d => CeilingsIn(e)'[y] = CeilingsIn(e)[y]
  BY <1>1 DEF CeilingsIn, Funds
<1>4. CASE e = d
  <2>1. CeilingsIn(e)'[x] = CeilingsIn(e)[x] + n  BY <1>4 DEF CeilingsIn, Funds
  <2>2. \A y \in Children : CeilingsIn(e)[y] \in Int /\ CeilingsIn(e)'[y] \in Int
    BY <1>1 DEF CeilingsIn, LedgerTypeOK, Flow!Fields
  <2> DEFINE f == CeilingsIn(e)
             g == CeilingsIn(e)'
  <2> HIDE DEF f, g
  <2>3. IsFiniteSet(Children)  BY FiniteAssumption
  <2>4. SumFunctionOnSet(f, Children) \in Int  BY <2>2, <2>3, SumType DEF f
  <2>5. SumFunctionOnSet(g, Children)
          = SumFunctionOnSet(f, Children) - Part(f, Children, x) + Part(g, Children, x)
    BY <1>3, <2>2, <2>3, SumChange DEF f, g
  <2>6. SumFunctionOnSet(g, Children) = SumFunctionOnSet(f, Children) + n
    BY <2>1, <2>2, <2>4, <2>5 DEF Part, f, g
  <2> QED  BY <1>2, <1>4, <2>6 DEF Funds, f, g
<1>5. CASE e # d
  <2>1. CeilingsIn(e)' = CeilingsIn(e)  BY <1>3, <1>5 DEF CeilingsIn
  <2>2. ledger'[<<Realm, e>>] = ledger[<<Realm, e>>]  BY <1>1, <1>5 DEF Funds
  <2> QED  BY <1>2, <2>1, <2>2
<1> QED  BY <1>4, <1>5

\* The moves of a reservation stay away from `delegated`.
Spendable == Flow!Buckets \ {"delegated"}

LEMMA MoveKeepsFunding ==
    ASSUME LedgerTypeOK, NEW from \in Spendable, NEW to \in Spendable,
           NEW a, NEW q \in [Dims -> Int], MoveBetween(from, to, a, q)
    PROVE  KeepsFunding
<1> SUFFICES ASSUME NEW r \in Rows
             PROVE  /\ ledger'[r]["delegated"] = ledger[r]["delegated"]
                    /\ ledger'[r]["ceiling"] = ledger[r]["ceiling"]
  BY DEF KeepsFunding
<1>1. ledger[r] \in [Flow!Fields -> Int]  BY DEF LedgerTypeOK
<1> QED  BY <1>1 DEF MoveBetween, Moved, Poured, Spendable, Flow!Fields, Flow!Buckets

LEMMA HoldsKeepFunding ==
    ASSUME LedgerTypeOK, NEW from \in Spendable, NEW to \in Spendable,
           NEW k \in Keys, MoveHolds(k, from, to)
    PROVE  KeepsFunding
<1>1. CASE holdState[k] = from
  BY <1>1, RestType, MoveKeepsFunding DEF MoveHolds
<1>2. CASE holdState[k] # from
  BY <1>2 DEF MoveHolds, accountVars, KeepsFunding
<1> QED  BY <1>1, <1>2

LEMMA GrantKeepsFunding ==
    ASSUME LedgerTypeOK, NEW d \in Dims, NEW c \in Ceilings, Grant(d, c)
    PROVE  KeepsFunding
<1> DEFINE row  == <<Realm, d>>
           rise == IF row \in opened THEN c - ledger[row]["ceiling"] ELSE c
<1>1. row \in Rows  BY DEF Rows, Accounts
<1>2. ledger' = [ledger EXCEPT ![row] = Resized(row, rise)]  BY DEF Grant
<1>3. ledger[row] \in [Flow!Fields -> Int]  BY <1>1 DEF LedgerTypeOK
<1>4. row[1] = Realm  OBVIOUS
<1> HIDE DEF row, rise
<1>5. Resized(row, rise)["delegated"] = ledger[row]["delegated"]
  BY <1>3 DEF Resized, Flow!Fields, Flow!Buckets
<1> QED  BY <1>1, <1>2, <1>4, <1>5 DEF KeepsFunding, LedgerTypeOK

LEMMA DelegateFunds ==
    ASSUME LedgerTypeOK, NEW x \in Children, NEW d \in Dims, NEW n \in Ceilings,
           Delegate(x, d, n)
    PROVE  Funds(x, d, n)
<1> DEFINE parent == <<Realm, d>>
           child  == <<x, d>>
<1>1. parent \in Rows /\ child \in Rows  BY DEF Rows, Accounts
<1>2. parent # child  BY RealmAssumption
<1>3. n \in Int  BY CeilingsAssumption
<1>4. ledger' = [ledger EXCEPT ![parent] = Poured(parent, "remaining", "delegated", n),
                               ![child]  = Resized(child, n)]
  BY DEF Delegate
<1>5. ledger[parent] \in [Flow!Fields -> Int] /\ ledger[child] \in [Flow!Fields -> Int]
  BY <1>1 DEF LedgerTypeOK
<1> HIDE DEF parent, child
<1>6. /\ Poured(parent, "remaining", "delegated", n)["delegated"]
           = ledger[parent]["delegated"] + n
      /\ Resized(child, n)["ceiling"] = ledger[child]["ceiling"] + n
  BY <1>3, <1>5 DEF Poured, Resized, Flow!Fields, Flow!Buckets
<1> QED  BY <1>1, <1>2, <1>4, <1>6 DEF Funds, LedgerTypeOK, parent, child

LEMMA RollupFunds ==
    ASSUME LedgerTypeOK, NEW x \in Children, NEW d \in Dims, Rollup(x, d)
    PROVE  \E n \in Int : Funds(x, d, n)
<1> DEFINE parent == <<Realm, d>>
           child  == <<x, d>>
           n      == ledger[child]["remaining"]
<1>1. parent \in Rows /\ child \in Rows  BY DEF Rows, Accounts
<1>2. parent # child  BY RealmAssumption
<1>3. ledger[parent] \in [Flow!Fields -> Int] /\ ledger[child] \in [Flow!Fields -> Int]
  BY <1>1 DEF LedgerTypeOK
<1>4. n \in Int /\ -n \in Int  BY <1>3 DEF Flow!Fields, Flow!Buckets
<1>5. ledger' = [ledger EXCEPT ![child]  = Resized(child, -n),
                               ![parent] = Poured(parent, "delegated", "remaining", n)]
  BY DEF Rollup
<1> HIDE DEF parent, child, n
<1>6. /\ Poured(parent, "delegated", "remaining", n)["delegated"]
           = ledger[parent]["delegated"] - n
      /\ Resized(child, -n)["ceiling"] = ledger[child]["ceiling"] + (-n)
      /\ ledger[parent]["delegated"] \in Int
  BY <1>3, <1>4 DEF Poured, Resized, Flow!Fields, Flow!Buckets
<1>7. ledger[parent]["delegated"] - n = ledger[parent]["delegated"] + (-n)
  BY <1>4, <1>6
<1>8. Funds(x, d, -n)
  BY <1>1, <1>2, <1>5, <1>6, <1>7 DEF Funds, LedgerTypeOK, parent, child
<1> QED  BY <1>4, <1>8

LEMMA FundingStep ==
    ASSUME LedgerTypeOK, ChildrenAreFunded, [ApiNext]_ledgerVars
    PROVE  ChildrenAreFunded'
<1> USE DEF Spendable, Flow!Buckets
<1>1. LedgerTypeOK'  BY TypeStep
<1>2. CASE ledger' = ledger  BY <1>2, FundingKept DEF KeepsFunding
<1>3. CASE \E d \in Dims, c \in Ceilings : Grant(d, c)
  BY <1>3, GrantKeepsFunding, FundingKept
<1>4. ASSUME NEW x \in Children, NEW d \in Dims,
             Rollup(x, d) \/ \E n \in Ceilings : Delegate(x, d, n)
      PROVE  ChildrenAreFunded'
  <2>1. Ceilings \subseteq Int  BY CeilingsAssumption
  <2> QED  BY <1>1, <1>4, <2>1, DelegateFunds, RollupFunds, FundingMoved
<1>5. ASSUME NEW k \in Keys, NEW a \in Accounts, NEW q \in Offers(k), Reserve(k, a, q)
      PROVE  ChildrenAreFunded'
  <2>1. q \in [Dims -> Int]  BY AmountsAreNat DEF Offers
  <2>2. MoveBetween("remaining", "reserved", a, q)  BY <1>5 DEF Reserve
  <2> QED  BY <2>1, <2>2, MoveKeepsFunding, FundingKept
<1>6. ASSUME NEW k \in Keys,
             Deny(k) \/ MarkUncertain(k) \/ Release(k) \/ ReconcileUncertain(k)
      PROVE  ChildrenAreFunded'
  BY <1>2, <1>6, HoldsKeepFunding, FundingKept
  DEF Deny, MarkUncertain, Release, ReconcileUncertain, accountVars
<1>7. ASSUME NEW s \in Sagas, SettleStep(s)  PROVE ChildrenAreFunded'
  <2>1. ASSUME NEW c \in 0 .. saga[s].charge, SettleCommit(s, c)
        PROVE  ChildrenAreFunded'
    <3> DEFINE k    == saga[s].key
               d    == saga[s].dim
               rest == HeldIn(k, d)
               take == IF Fits(c, rest) THEN c ELSE rest
    <3>1. saga[s] \in [phase : SagaPhase, key : Keys, dim : Dims, charge : Nat]
      BY <2>1, SagaType DEF SettleCommit
    <3>2. take \in Int  BY <3>1, RestType DEF HeldIn
    <3>3. [Zero EXCEPT ![d] = take] \in [Dims -> Int]  BY <3>1, <3>2 DEF Zero
    <3>4. MoveBetween("reserved", "committed", account[k], [Zero EXCEPT ![d] = take])
      BY <2>1 DEF SettleCommit
    <3> QED  BY <3>3, <3>4, MoveKeepsFunding, FundingKept
  <2>2. CASE ~ \E c \in 0 .. saga[s].charge : SettleCommit(s, c)
    BY <1>2, <1>7, <2>2
    DEF SettleStep, SettleBegin, PeerAboveCap, SettleDenied, SettleUnknown,
        SettleResolve, accountVars
  <2> QED  BY <2>1, <2>2
<1>8. CASE Continue \/ Crash \/ UNCHANGED ledgerVars
  BY <1>2, <1>8 DEF Continue, Crash, ledgerVars, accountVars
<1> QED  BY <1>3, <1>4, <1>5, <1>6, <1>7, <1>8 DEF ApiNext

\* What the realm has delegated is exactly the ceilings of its children, in
\* any number of dimensions and through any order of delegations, spending,
\* rollups and crashes.
THEOREM ChildrenAreFundedHolds == ApiSpec => []ChildrenAreFunded
<1>1. LedgerInit => ChildrenAreFunded
  <2> SUFFICES ASSUME LedgerInit, NEW d \in Dims
               PROVE  ledger[<<Realm, d>>]["delegated"]
                          = SumFunctionOnSet(CeilingsIn(d), Children)
    BY DEF ChildrenAreFunded, CeilingsIn
  <2>1. \A x \in Accounts : <<x, d>> \in Rows  BY DEF Rows
  <2>2. \A x \in Children : CeilingsIn(d)[x] = 0
    BY <2>1 DEF LedgerInit, Flow!Init, CeilingsIn, Accounts, Flow!Fields
  <2>3. SumFunctionOnSet(CeilingsIn(d), Children) = 0  BY <2>2, SumZero, FiniteAssumption
  <2> QED  BY <2>1, <2>3 DEF LedgerInit, Flow!Init, Accounts, Flow!Fields, Flow!Buckets
<1> QED  BY <1>1, TypeCorrect, FundingStep, PTL DEF ApiSpec

-----------------------------------------------------------------------------
(* Holds and buckets.                                                      *)

\* What a reservation k contributes to the holds, and to the charges, of r.
HeldBy(k, h, r) == IF account[k] = r[1] /\ holdState[k] = h THEN Rest(k)[r[2]] ELSE 0
ChargedBy(k, r) == IF account[k] = r[1] THEN holdCharged[k][r[2]] ELSE 0

\* A step that changes the holds of one reservation only.
OnlyTouches(k) ==
    \A j \in Keys \ {k} : /\ account'[j] = account[j] /\ amount'[j] = amount[j]
                          /\ holdState'[j] = holdState[j] /\ holdCharged'[j] = holdCharged[j]

LEMMA HeldChange ==
    ASSUME LedgerTypeOK, LedgerTypeOK', NEW k \in Keys, OnlyTouches(k), NEW h, NEW r \in Rows
    PROVE  HeldAs(h, r)' = HeldAs(h, r) - HeldBy(k, h, r) + HeldBy(k, h, r)'
<1> DEFINE f == [j \in Keys |-> Rest(j)[r[2]]]
           g == [j \in Keys |-> (Rest(j)[r[2]])']
           S == {j \in Keys : account[j] = r[1] /\ holdState[j] = h}
           R == {j \in Keys : account'[j] = r[1] /\ holdState'[j] = h}
<1>1. r[2] \in Dims  BY DEF Rows
<1>2. \A j \in Keys : f[j] \in Int /\ g[j] \in Int  BY <1>1 DEF LedgerTypeOK, Rest
<1>3. S \ {k} = R \ {k} /\ \A j \in S \ {k} : f[j] = g[j]
  BY <1>1 DEF OnlyTouches, Rest
<1>4. IsFiniteSet(S) /\ IsFiniteSet(R)  BY FiniteAssumption, FS_Subset
<1>5. HeldBy(k, h, r) = Part(f, S, k) /\ HeldBy(k, h, r)' = Part(g, R, k)
  BY DEF HeldBy, Part
<1>6. HeldAs(h, r) = SumFunctionOnSet(f, S) /\ HeldAs(h, r)' = SumFunctionOnSet(g, R)
  BY DEF HeldAs
<1> HIDE DEF f, g, S, R
<1>7. SumFunctionOnSet(g, R) = SumFunctionOnSet(f, S) - Part(f, S, k) + Part(g, R, k)
  <2>1. S \subseteq Keys /\ R \subseteq Keys  BY DEF S, R
  <2> QED  BY <1>2, <1>3, <1>4, <2>1, SumChange
<1> QED  BY <1>5, <1>6, <1>7

LEMMA ChargedChange ==
    ASSUME LedgerTypeOK, LedgerTypeOK', NEW k \in Keys, OnlyTouches(k), NEW r \in Rows
    PROVE  ChargedTo(r)' = ChargedTo(r) - ChargedBy(k, r) + ChargedBy(k, r)'
<1> DEFINE f == [j \in Keys |-> holdCharged[j][r[2]]]
           g == [j \in Keys |-> holdCharged'[j][r[2]]]
           S == {j \in Keys : account[j] = r[1]}
           R == {j \in Keys : account'[j] = r[1]}
<1>1. r[2] \in Dims  BY DEF Rows
<1>2. \A j \in Keys : f[j] \in Int /\ g[j] \in Int  BY <1>1 DEF LedgerTypeOK
<1>3. S \ {k} = R \ {k} /\ \A j \in S \ {k} : f[j] = g[j]
  BY <1>1 DEF OnlyTouches
<1>4. IsFiniteSet(S) /\ IsFiniteSet(R)  BY FiniteAssumption, FS_Subset
<1>5. ChargedBy(k, r) = Part(f, S, k) /\ ChargedBy(k, r)' = Part(g, R, k)
  BY DEF ChargedBy, Part
<1>6. ChargedTo(r) = SumFunctionOnSet(f, S) /\ ChargedTo(r)' = SumFunctionOnSet(g, R)
  BY DEF ChargedTo
<1> HIDE DEF f, g, S, R
<1>7. SumFunctionOnSet(g, R) = SumFunctionOnSet(f, S) - Part(f, S, k) + Part(g, R, k)
  <2>1. S \subseteq Keys /\ R \subseteq Keys  BY DEF S, R
  <2> QED  BY <1>2, <1>3, <1>4, <2>1, SumChange
<1> QED  BY <1>5, <1>6, <1>7

LEMMA SumsAreInt ==
    ASSUME LedgerTypeOK, NEW r \in Rows, NEW h
    PROVE  HeldAs(h, r) \in Int /\ ChargedTo(r) \in Int
<1> DEFINE f == [j \in Keys |-> Rest(j)[r[2]]]
           g == [j \in Keys |-> holdCharged[j][r[2]]]
           S == {j \in Keys : account[j] = r[1] /\ holdState[j] = h}
           R == {j \in Keys : account[j] = r[1]}
<1>1. r[2] \in Dims  BY DEF Rows
<1>2. \A j \in Keys : f[j] \in Int /\ g[j] \in Int  BY <1>1 DEF LedgerTypeOK, Rest
<1>3. IsFiniteSet(S) /\ IsFiniteSet(R)  BY FiniteAssumption, FS_Subset
<1>4. HeldAs(h, r) = SumFunctionOnSet(f, S) /\ ChargedTo(r) = SumFunctionOnSet(g, R)
  BY DEF HeldAs, ChargedTo
<1>5. S \subseteq Keys /\ R \subseteq Keys  OBVIOUS
<1> HIDE DEF f, g, S, R
<1> QED  BY <1>2, <1>3, <1>4, <1>5, SumType

Explained(r) == /\ ledger[r]["reserved"]  = HeldAs("reserved", r)
                /\ ledger[r]["committed"] = ChargedTo(r)

\* The buckets of r move by what the holds of k do.
Balances(k, r) ==
    /\ ledger'[r]["reserved"] - ledger[r]["reserved"]
         = HeldBy(k, "reserved", r)' - HeldBy(k, "reserved", r)
    /\ ledger'[r]["committed"] - ledger[r]["committed"]
         = ChargedBy(k, r)' - ChargedBy(k, r)

LEMMA BalancedStep ==
    ASSUME LedgerTypeOK, LedgerTypeOK', NEW k \in Keys, OnlyTouches(k),
           NEW r \in Rows, Balances(k, r), Explained(r)
    PROVE  Explained(r)'
<1> DEFINE h == HeldBy(k, "reserved", r)
           c == ChargedBy(k, r)
<1>1. /\ HeldAs("reserved", r)' = HeldAs("reserved", r) - h + h'
      /\ ChargedTo(r)' = ChargedTo(r) - c + c'
  BY HeldChange, ChargedChange
<1>2. h \in Int /\ h' \in Int /\ c \in Int /\ c' \in Int
  BY DEF LedgerTypeOK, HeldBy, ChargedBy, Rest, Rows
<1>3. HeldAs("reserved", r) \in Int /\ ChargedTo(r) \in Int  BY SumsAreInt
<1>4. /\ ledger[r]["reserved"] \in Int /\ ledger[r]["committed"] \in Int
      /\ ledger'[r]["reserved"] \in Int /\ ledger'[r]["committed"] \in Int
  BY DEF LedgerTypeOK, Flow!Fields, Flow!Buckets
<1> HIDE DEF h, c
<1> QED  BY <1>1, <1>2, <1>3, <1>4 DEF Explained, Balances, h, c

LEMMA ExplainedKept ==
    ASSUME UNCHANGED <<account, amount, holdVars>>, NEW r \in Rows, Explained(r),
           ledger'[r]["reserved"] = ledger[r]["reserved"],
           ledger'[r]["committed"] = ledger[r]["committed"]
    PROVE  Explained(r)'
<1>1. HeldAs("reserved", r)' = HeldAs("reserved", r)  BY DEF HeldAs, Rest, holdVars
<1>2. ChargedTo(r)' = ChargedTo(r)  BY DEF ChargedTo, holdVars
<1> QED  BY <1>1, <1>2 DEF Explained

\* A reservation that exists names an account and reserves something in the
\* one dimension; `uncertain` on the record is `uncertain` on the holds.
Placed(k) ==
    /\ state[k] = "absent" => holdState[k] = "none" /\ account[k] = None
    /\ state[k] # "absent" => account[k] \in Accounts /\ \A d \in Dims : amount[k][d] > 0
    /\ state[k] = "uncertain" => holdState[k] = "uncertain"

Placement == \A k \in Keys : Placed(k)

HoldsInv == SafeLedger /\ Placement /\ HoldsExplainReserved

LEMMA HoldsExplained == HoldsExplainReserved <=> \A r \in Rows : Explained(r)
BY DEF HoldsExplainReserved, Explained

\* What a move between two buckets makes of each.
LEMMA MovedBuckets ==
    ASSUME LedgerTypeOK, NEW from \in Flow!Buckets, NEW to \in Flow!Buckets, from # to,
           NEW a, NEW q \in [Dims -> Int], MoveBetween(from, to, a, q),
           NEW r \in Rows, NEW b \in Flow!Buckets
    PROVE  ledger'[r][b] - ledger[r][b] =
             IF r[1] # a THEN 0 ELSE IF b = from THEN -q[r[2]] ELSE IF b = to THEN q[r[2]] ELSE 0
<1>1. ledger[r] \in [Flow!Fields -> Int] /\ q[r[2]] \in Int  BY DEF LedgerTypeOK, Rows
<1>2. b \in Flow!Fields /\ from \in Flow!Fields /\ to \in Flow!Fields  BY DEF Flow!Fields
<1>3. ledger'[r] = IF r[1] = a THEN Poured(r, from, to, q[r[2]]) ELSE ledger[r]
  BY DEF MoveBetween, Moved
<1>4. ledger[r][b] \in Int  BY <1>1, <1>2
<1> QED  BY <1>1, <1>2, <1>3, <1>4 DEF Poured

LEMMA ReserveExplains ==
    ASSUME HoldsInv, LedgerTypeOK', NEW k \in Keys, NEW a \in Accounts, NEW q \in Offers(k),
           Reserve(k, a, q), NEW r \in Rows
    PROVE  Explained(r)'
<1> USE DEF Flow!Buckets
<1>1. LedgerTypeOK /\ Placed(k) /\ Explained(r)
  BY HoldsExplained DEF HoldsInv, SafeLedger, Placement
<1>2. q \in [Dims -> Int]  BY AmountsAreNat DEF Offers
<1>3. /\ ledger'[r]["reserved"] - ledger[r]["reserved"] = IF r[1] = a THEN q[r[2]] ELSE 0
      /\ ledger'[r]["committed"] - ledger[r]["committed"] = 0
  BY <1>1, <1>2, MovedBuckets DEF Reserve
<1>4. r[1] \in Accounts /\ r[2] \in Dims /\ q[r[2]] \in Int  BY <1>2 DEF Rows
<1>5. holdCharged[k] = Zero /\ holdState[k] = "none" /\ account[k] = None
  BY <1>1 DEF Reserve, HoldsInv, SafeLedger, ChargesHaveHolds, Placed
<1>6. /\ account'[k] = a /\ amount'[k] = q /\ holdState'[k] = "reserved"
      /\ holdCharged'[k] = Zero
  BY <1>1, <1>5 DEF Reserve, LedgerTypeOK
<1>7. HeldBy(k, "reserved", r) = 0 /\ ChargedBy(k, r) = 0
  BY <1>4, <1>5, NoneAssumption DEF HeldBy, ChargedBy
<1>8. HeldBy(k, "reserved", r)' = IF r[1] = a THEN q[r[2]] ELSE 0
  BY <1>4, <1>6 DEF HeldBy, Rest, Zero
<1>9. ChargedBy(k, r)' = 0  BY <1>4, <1>6 DEF ChargedBy, Zero
<1>10. Balances(k, r)  BY <1>3, <1>4, <1>7, <1>8, <1>9 DEF Balances
<1>11. OnlyTouches(k)  BY <1>1 DEF Reserve, OnlyTouches, LedgerTypeOK
<1> QED  BY <1>1, <1>10, <1>11, BalancedStep

\* MarkUncertain, Release and ReconcileUncertain have one shape.
LEMMA UnholdExplains ==
    ASSUME HoldsInv, LedgerTypeOK', NEW k \in Keys, NEW h \in {"uncertain", "released"},
           NEW from \in {"reserved", "uncertain"}, NEW to \in {"remaining", "uncertain"},
           from # to, from = "uncertain" => holdState[k] = "uncertain",
           MoveHolds(k, from, to), holdState' = [holdState EXCEPT ![k] = h],
           UNCHANGED <<account, amount, holdCharged>>, NEW r \in Rows
    PROVE  Explained(r)'
<1> USE DEF Flow!Buckets
<1>1. LedgerTypeOK /\ Explained(r)  BY HoldsExplained DEF HoldsInv, SafeLedger
<1>2. Rest(k) \in [Dims -> Int] /\ r[2] \in Dims  BY <1>1, RestType DEF Rows
<1>3. ChargedBy(k, r)' = ChargedBy(k, r)  BY DEF ChargedBy
<1>4. HeldBy(k, "reserved", r)' = 0  BY <1>1 DEF HeldBy, LedgerTypeOK
<1>5. OnlyTouches(k)  BY <1>1 DEF OnlyTouches, LedgerTypeOK
<1>6. ChargedBy(k, r) \in Int  BY <1>1, <1>2 DEF ChargedBy, LedgerTypeOK
<1>7. CASE holdState[k] = from
  <2>1. MoveBetween(from, to, account[k], Rest(k))  BY <1>7 DEF MoveHolds
  <2>2. /\ ledger'[r]["reserved"] - ledger[r]["reserved"] =
             IF r[1] = account[k] /\ from = "reserved" THEN -Rest(k)[r[2]] ELSE 0
        /\ ledger'[r]["committed"] - ledger[r]["committed"] = 0
    BY <1>1, <1>2, <2>1, MovedBuckets
  <2>3. HeldBy(k, "reserved", r) =
          IF r[1] = account[k] /\ from = "reserved" THEN Rest(k)[r[2]] ELSE 0
    BY <1>7 DEF HeldBy
  <2>4. Balances(k, r)  BY <1>2, <1>3, <1>4, <1>6, <2>2, <2>3 DEF Balances
  <2> QED  BY <1>1, <1>5, <2>4, BalancedStep
<1>8. CASE holdState[k] # from
  <2>1. ledger' = ledger  BY <1>8 DEF MoveHolds, accountVars
  <2>2. HeldBy(k, "reserved", r) = 0  BY <1>8 DEF HeldBy
  <2>3. ledger[r]["reserved"] \in Int /\ ledger[r]["committed"] \in Int
    BY <1>1 DEF LedgerTypeOK, Flow!Fields
  <2>4. Balances(k, r)  BY <1>3, <1>4, <1>6, <2>1, <2>2, <2>3 DEF Balances
  <2> QED  BY <1>1, <1>5, <2>4, BalancedStep
<1> QED  BY <1>7, <1>8

\* What settle_commit does in the one dimension: it takes nothing from a hold
\* that is not reserved, and what it is asked to where the hold has it.
Settles(k, d, c, take) ==
    /\ state[k] \notin {"absent", "settled"}
    /\ WithinItems(k, d, c)
    /\ holdState[k] # "reserved" => take = 0
    /\ holdState[k] = "reserved" /\ c <= Rest(k)[d] => take = c
    /\ MoveBetween("reserved", "committed", account[k], [Zero EXCEPT ![d] = take])
    /\ holdCharged'[k][d] = holdCharged[k][d] + take
    /\ state'   = [state EXCEPT ![k] = "settled"]
    /\ charged' = [charged EXCEPT ![k] = c]
    /\ OnlyTouches(k)
    /\ UNCHANGED <<account, amount, holdState>>

LEMMA SettleTakes ==
    ASSUME OneDimension, SafeLedger, Placement, NEW s \in Sagas,
           NEW c \in 0 .. saga[s].charge, SettleCommit(s, c)
    PROVE  c \in Nat /\ \E k \in Keys, d \in Dims, take \in Int : Settles(k, d, c, take)
<1>1. LedgerTypeOK  BY DEF SafeLedger
<1>2. saga[s] \in [phase : SagaPhase, key : Keys, dim : Dims, charge : Nat]
  BY <1>1, SagaType DEF SettleCommit
<1>3. PICK k \in Keys, d \in Dims : k = saga[s].key /\ d = saga[s].dim  BY <1>2
<1>4. PICK take : take = IF Fits(c, HeldIn(k, d)) THEN c ELSE HeldIn(k, d)  OBVIOUS
<1>5. c \in Nat  BY <1>2
<1>6. state[k] \notin {"absent", "settled"}
  BY <1>3 DEF SettleCommit, SafeLedger, ChargesHaveHolds
<1>7. amount[k][d] > 0  BY <1>6 DEF Placement, Placed
<1>8. Rest(k)[d] \in Int /\ Rest(k)[d] >= 0
  BY <1>1, RestType DEF SafeLedger, NeverOverdrawn
<1>9. /\ take \in Int
      /\ holdState[k] # "reserved" => take = 0
      /\ holdState[k] = "reserved" /\ c <= Rest(k)[d] => take = c
  BY <1>4, <1>5, <1>8 DEF HeldIn, Fits
<1>10. holdCharged' = [holdCharged EXCEPT ![k] =
                         [e \in Dims |-> @[e] + IF amount[k][e] > 0 THEN take ELSE 0]]
  BY <1>3, <1>4 DEF SettleCommit
<1>11. holdCharged'[k][d] = holdCharged[k][d] + take
  BY <1>1, <1>7, <1>10 DEF LedgerTypeOK
<1>12. UNCHANGED <<account, amount, holdState>>  BY DEF SettleCommit
<1>13. OnlyTouches(k)  BY <1>1, <1>10, <1>12 DEF OnlyTouches, LedgerTypeOK
<1>14. /\ WithinItems(k, d, c)
       /\ MoveBetween("reserved", "committed", account[k], [Zero EXCEPT ![d] = take])
       /\ state'   = [state EXCEPT ![k] = "settled"]
       /\ charged' = [charged EXCEPT ![k] = c]
  BY <1>3, <1>4 DEF SettleCommit
<1>15. Settles(k, d, c, take)  BY <1>6, <1>9, <1>11, <1>12, <1>13, <1>14 DEF Settles
<1> QED  BY <1>5, <1>9, <1>15

\* settle_commit moves into `committed` what it charges to the hold.
LEMMA SettleExplains ==
    ASSUME OneDimension, HoldsInv, LedgerTypeOK', NEW k \in Keys, NEW d \in Dims, NEW c \in Nat,
           NEW take \in Int, Settles(k, d, c, take), NEW r \in Rows
    PROVE  Explained(r)'
<1> DEFINE moved == [Zero EXCEPT ![d] = take]
<1> USE DEF Flow!Buckets
<1>1. LedgerTypeOK /\ Explained(r)  BY HoldsExplained DEF HoldsInv, SafeLedger
<1>2. r[2] = d  BY DEF Rows, OneDimension
<1>3. moved \in [Dims -> Int] /\ moved[r[2]] = take  BY <1>2 DEF Zero
<1>4. MoveBetween("reserved", "committed", account[k], moved)  BY DEF Settles
<1> HIDE DEF moved
<1>5. /\ ledger'[r]["reserved"] - ledger[r]["reserved"] =
             IF r[1] = account[k] THEN -take ELSE 0
      /\ ledger'[r]["committed"] - ledger[r]["committed"] =
             IF r[1] = account[k] THEN take ELSE 0
  BY <1>1, <1>3, <1>4, MovedBuckets
<1>6. /\ UNCHANGED <<account, amount, holdState>>
      /\ holdState[k] # "reserved" => take = 0
      /\ holdCharged'[k][d] = holdCharged[k][d] + take
  BY DEF Settles
<1>7. holdCharged[k][d] \in Int /\ amount[k][d] \in Int  BY <1>1 DEF LedgerTypeOK
<1>8. (Rest(k)[d])' = Rest(k)[d] - take /\ Rest(k)[d] \in Int
  BY <1>6, <1>7 DEF Rest
<1>9. Balances(k, r)  BY <1>2, <1>5, <1>6, <1>7, <1>8 DEF Balances, HeldBy, ChargedBy
<1> QED  BY <1>1, <1>9, BalancedStep DEF Settles

\* A step that leaves the holds and their records alone.
LEMMA PlacementKept ==
    ASSUME Placement, UNCHANGED <<account, amount, holdState>>,
           \A k \in Keys : \/ state'[k] = state[k]
                           \/ state[k] # "absent" /\ state'[k] \notin {"absent", "uncertain"}
    PROVE  Placement'
BY DEF Placement, Placed

LEMMA OtherHolds ==
    ASSUME LedgerTypeOK, Placement, NEW k \in Keys, OnlyTouches(k), NEW st,
           state' = [state EXCEPT ![k] = st], Placed(k)'
    PROVE  Placement'
<1>1. ASSUME NEW j \in Keys, j # k  PROVE Placed(j)'
  BY <1>1 DEF Placement, Placed, OnlyTouches, LedgerTypeOK
<1> QED  BY <1>1 DEF Placement

LEMMA ReservePlaces ==
    ASSUME OneDimension, SafeLedger, Placement, NEW k \in Keys, NEW a \in Accounts,
           NEW q \in Offers(k), Reserve(k, a, q)
    PROVE  Placement'
<1>1. LedgerTypeOK  BY DEF SafeLedger
<1>2. \A d \in Dims : q[d] > 0  BY DEF Offers, Admissible, OneDimension
<1>3. /\ account'[k] = a /\ amount'[k] = q /\ state'[k] = "requested"
  BY <1>1 DEF Reserve, LedgerTypeOK
<1>4. Placed(k)'  BY <1>2, <1>3 DEF Placed
<1>5. OnlyTouches(k)  BY <1>1 DEF Reserve, OnlyTouches, LedgerTypeOK
<1> QED  BY <1>1, <1>4, <1>5, OtherHolds DEF Reserve

LEMMA UnholdPlaces ==
    ASSUME LedgerTypeOK, Placement, NEW k \in Keys, NEW h \in {"uncertain", "released"},
           state[k] # "absent", holdState' = [holdState EXCEPT ![k] = h],
           state' = [state EXCEPT ![k] = h], UNCHANGED <<account, amount, holdCharged>>
    PROVE  Placement'
<1>1. Placed(k)'  BY DEF Placement, Placed, LedgerTypeOK
<1>2. OnlyTouches(k)  BY DEF OnlyTouches, LedgerTypeOK
<1> QED  BY <1>1, <1>2, OtherHolds

LEMMA ConfirmsRequested ==
    ASSUME LedgerTypeOK, NextEventIsTrue, Continue
    PROVE  \/ state' = state
           \/ \E k \in Keys : /\ state[k] = "requested"
                              /\ state' = [state EXCEPT ![k] = "confirmed"]
<1>1. handler \in [step : HandlerStep, key : Keys]  BY DEF LedgerTypeOK, Continue
<1>2. CASE handler.step = "confirm"
  <2>1. state[handler.key] = "requested"  BY <1>2 DEF NextEventIsTrue, Continue
  <2> QED  BY <1>1, <1>2, <2>1 DEF Continue, Confirm
<1>3. CASE handler.step # "confirm"  BY <1>3 DEF Continue, Announce
<1> QED  BY <1>2, <1>3

KeepsHolds(r) == /\ ledger'[r]["reserved"] = ledger[r]["reserved"]
                 /\ ledger'[r]["committed"] = ledger[r]["committed"]

LEMMA FundingKeepsHolds ==
    ASSUME LedgerTypeOK, NEW r \in Rows, NEW n,
           ledger'[r] \in {ledger[r], Resized(r, n), Poured(r, "remaining", "delegated", n),
                           Poured(r, "delegated", "remaining", n)}
    PROVE  KeepsHolds(r)
<1>1. ledger[r] \in [Flow!Fields -> Int]  BY DEF LedgerTypeOK
<1> QED  BY <1>1 DEF KeepsHolds, Poured, Resized, Flow!Fields, Flow!Buckets

LEMMA HoldsStep ==
    ASSUME OneDimension, HoldsInv, NextEventIsTrue, [ApiNext]_ledgerVars
    PROVE  HoldsInv'
<1> USE DEF HoldsInv
<1>1. SafeLedger'  BY SafeStep
<1>2. LedgerTypeOK /\ LedgerTypeOK'  BY <1>1 DEF SafeLedger
<1> DEFINE Goal == Placement' /\ \A r \in Rows : Explained(r)'
<1>3. \A r \in Rows : Explained(r)  BY HoldsExplained
<1>4. ASSUME UNCHANGED accountVars, NEW r \in Rows  PROVE KeepsHolds(r)
  BY <1>4 DEF accountVars, KeepsHolds
<1>5. ASSUME UNCHANGED <<account, amount, holdVars>>,
             \A r \in Rows : KeepsHolds(r),
             \A k \in Keys : \/ state'[k] = state[k]
                             \/ state[k] # "absent" /\ state'[k] \notin {"absent", "uncertain"}
      PROVE  Goal
  BY <1>3, <1>5, PlacementKept, ExplainedKept DEF KeepsHolds, holdVars
<1>6. ASSUME NEW d \in Dims, NEW c \in Ceilings, Grant(d, c)  PROVE Goal
  <2> DEFINE row  == <<Realm, d>>
             rise == IF row \in opened THEN c - ledger[row]["ceiling"] ELSE c
  <2>1. row \in Rows /\ ledger' = [ledger EXCEPT ![row] = Resized(row, rise)]
    BY <1>6 DEF Grant, Rows, Accounts
  <2> HIDE DEF row, rise
  <2>2. ASSUME NEW r \in Rows  PROVE KeepsHolds(r)
    <3>1. ledger'[r] \in {ledger[r], Resized(r, rise)}  BY <1>2, <2>1 DEF LedgerTypeOK
    <3> QED  BY <1>2, <3>1, FundingKeepsHolds
  <2> QED  BY <1>5, <1>6, <2>2 DEF Grant, recordVars, holdVars
<1>7. ASSUME NEW x \in Children, NEW d \in Dims,
             Rollup(x, d) \/ \E n \in Ceilings : Delegate(x, d, n)
      PROVE  Goal
  <2> DEFINE parent == <<Realm, d>>
             child  == <<x, d>>
  <2>1. parent \in Rows /\ child \in Rows /\ parent # child
    BY RealmAssumption DEF Rows, Accounts
  <2>2. ASSUME Rollup(x, d), NEW r \in Rows  PROVE KeepsHolds(r)
    <3> DEFINE n == ledger[child]["remaining"]
    <3>1. ledger' = [ledger EXCEPT ![child]  = Resized(child, -n),
                                   ![parent] = Poured(parent, "delegated", "remaining", n)]
      BY <2>2 DEF Rollup
    <3> HIDE DEF n, parent, child
    <3>2. ledger'[r] \in {ledger[r], Poured(r, "delegated", "remaining", n), Resized(r, -n)}
      BY <1>2, <2>1, <3>1 DEF LedgerTypeOK
    <3> QED  BY <1>2, <3>2, FundingKeepsHolds
  <2>3. ASSUME NEW n \in Ceilings, Delegate(x, d, n), NEW r \in Rows  PROVE KeepsHolds(r)
    <3>1. ledger' = [ledger EXCEPT ![parent] = Poured(parent, "remaining", "delegated", n),
                                   ![child]  = Resized(child, n)]
      BY <2>3 DEF Delegate
    <3> HIDE DEF parent, child
    <3>2. ledger'[r] \in {ledger[r], Poured(r, "remaining", "delegated", n), Resized(r, n)}
      BY <1>2, <2>1, <3>1 DEF LedgerTypeOK
    <3> QED  BY <1>2, <3>2, FundingKeepsHolds
  <2>4. \A r \in Rows : KeepsHolds(r)  BY <1>7, <2>2, <2>3
  <2> QED  BY <1>5, <1>7, <2>4 DEF Rollup, Delegate, recordVars, holdVars
<1>8. ASSUME NEW k \in Keys, NEW a \in Accounts, NEW q \in Offers(k), Reserve(k, a, q)
      PROVE  Goal
  BY <1>2, <1>8, ReservePlaces, ReserveExplains
<1>9. ASSUME NEW k \in Keys, Deny(k)  PROVE Goal
  BY <1>2, <1>4, <1>5, <1>9 DEF Deny, LedgerTypeOK
<1>10. ASSUME NEW k \in Keys, MarkUncertain(k)  PROVE Goal
  BY <1>2, <1>10, UnholdExplains, UnholdPlaces DEF MarkUncertain
<1>11. ASSUME NEW k \in Keys, Release(k)  PROVE Goal
  BY <1>2, <1>11, UnholdExplains, UnholdPlaces DEF Release
<1>12. ASSUME NEW k \in Keys, ReconcileUncertain(k)  PROVE Goal
  <2>1. holdState[k] = "uncertain"  BY <1>12 DEF ReconcileUncertain, Placement, Placed
  <2> QED  BY <1>2, <1>12, <2>1, UnholdExplains, UnholdPlaces DEF ReconcileUncertain
<1>13. ASSUME NEW s \in Sagas, SettleStep(s)  PROVE Goal
  <2>1. ASSUME NEW c \in 0 .. saga[s].charge, SettleCommit(s, c)  PROVE Goal
    <3>1. PICK k \in Keys, d \in Dims, take \in Int : c \in Nat /\ Settles(k, d, c, take)
      BY <2>1, SettleTakes
    <3>2. \A r \in Rows : Explained(r)'  BY <1>2, <3>1, SettleExplains
    <3>3. Placement'
      <4>1. \A j \in Keys : \/ state'[j] = state[j]
                            \/ state[j] # "absent" /\ state'[j] \notin {"absent", "uncertain"}
        BY <1>2, <3>1 DEF Settles, LedgerTypeOK
      <4> QED  BY <3>1, <4>1, PlacementKept DEF Settles
    <3> QED  BY <3>2, <3>3
  <2>2. CASE ~ \E c \in 0 .. saga[s].charge : SettleCommit(s, c)
    BY <1>4, <1>5, <1>13, <2>2
    DEF SettleStep, SettleBegin, PeerAboveCap, SettleDenied, SettleUnknown,
        SettleResolve, recordVars, holdVars
  <2> QED  BY <2>1, <2>2
<1>14. ASSUME Continue  PROVE Goal
  <2>1. NextEventIsTrue  OBVIOUS
  <2>2. ASSUME NEW k \in Keys
        PROVE  \/ state'[k] = state[k]
               \/ state[k] # "absent" /\ state'[k] \notin {"absent", "uncertain"}
    BY <1>2, <1>14, <2>1, ConfirmsRequested DEF LedgerTypeOK
  <2> QED  BY <1>4, <1>5, <1>14, <2>2 DEF Continue
<1>15. ASSUME Crash \/ UNCHANGED ledgerVars  PROVE Goal
  BY <1>4, <1>5, <1>15 DEF Crash, ledgerVars, accountVars, recordVars, holdVars
<1>16. Goal
  BY <1>6, <1>7, <1>8, <1>9, <1>10, <1>11, <1>12, <1>13, <1>14, <1>15 DEF ApiNext
<1>17. HoldsExplainReserved'  BY <1>16 DEF HoldsExplainReserved, Explained
<1> QED  BY <1>1, <1>16, <1>17

LEMMA HoldsInit == LedgerInit => HoldsInv
<1> SUFFICES ASSUME LedgerInit  PROVE HoldsInv
  OBVIOUS
<1>1. Placement  BY DEF LedgerInit, Placement, Placed
<1>2. ASSUME NEW r \in Rows  PROVE Explained(r)
  <2> DEFINE S == {k \in Keys : account[k] = r[1] /\ holdState[k] = "reserved"}
             R == {k \in Keys : account[k] = r[1]}
  <2>1. S = {} /\ R = {}  BY NoneAssumption DEF LedgerInit, Rows
  <2>2. HeldAs("reserved", r) = 0 /\ ChargedTo(r) = 0
    BY <2>1, SumEmpty DEF HeldAs, ChargedTo
  <2>3. ledger[r]["reserved"] = 0 /\ ledger[r]["committed"] = 0
    BY DEF LedgerInit, Flow!Init, Flow!Fields, Flow!Buckets
  <2> QED  BY <2>2, <2>3 DEF Explained
<1> QED  BY <1>1, <1>2, SafeInit, HoldsExplained DEF HoldsInv

\* With one dimension the buckets are exactly what the reservations say they
\* are: no order of calls and no crash leaves a quantity in `reserved` or
\* `committed` that no hold explains, or a hold that no bucket covers.
THEOREM HoldsExplainReservedHolds ==
    ASSUME OneDimension PROVE ApiSpec => []HoldsExplainReserved
<1>1. HoldsInv /\ NextEventIsTrue /\ [ApiNext]_ledgerVars => HoldsInv'  BY HoldsStep
<1>2. HoldsInv => HoldsExplainReserved  BY DEF HoldsInv
<1> QED  BY HoldsInit, NextEventIsTrueHolds, <1>1, <1>2, PTL DEF ApiSpec

-----------------------------------------------------------------------------
(* The order the callers keep.                                             *)

\* Kept in that order, a record says what has become of its holds.
Told(k) ==
    /\ state[k] \in {"requested", "confirmed", "denied"} =>
          holdState[k] = "reserved" /\ charged[k] = 0
    /\ state[k] = "absent" => charged[k] = 0
    /\ state[k] = "released" => holdState[k] = "released"

Recorded(k) == Told(k) /\ charged[k] = Total(holdCharged[k])

OrderlyInv == HoldsInv /\ NextEventIsTrue /\ \A k \in Keys : Recorded(k)

LEMMA OneTotal ==
    ASSUME OneDimension, NEW d \in Dims, NEW q \in [Dims -> Int]
    PROVE  Total(q) = q[d]
<1>1. Dims = {d}  BY DEF OneDimension
<1> QED  BY <1>1, SumOne DEF Total

\* A step that does not settle and does not undo: neither charge moves.
LEMMA RecordKept ==
    ASSUME NEW k \in Keys, Recorded(k), UNCHANGED <<charged, holdCharged>>, Told(k)'
    PROVE  Recorded(k)'
BY DEF Recorded, Total

LEMMA UnholdRecords ==
    ASSUME LedgerTypeOK, NEW k \in Keys, NEW h \in {"uncertain", "released"},
           holdState' = [holdState EXCEPT ![k] = h], state' = [state EXCEPT ![k] = h],
           UNCHANGED <<charged, holdCharged>>, NEW j \in Keys, Recorded(j)
    PROVE  Recorded(j)'
<1>1. Told(j)  BY DEF Recorded
<1>2. Told(j)'  BY <1>1 DEF Told, LedgerTypeOK
<1> QED  BY <1>2, RecordKept

\* The charge of the record is what the hold gives up: the hold has it when the
\* reservation is first settled, and has nothing more to give when a release is
\* settled over again at the charge it had.
LEMMA SettleRecords ==
    ASSUME OneDimension, OrderlyInv, LedgerTypeOK', Orderly, NEW k \in Keys, NEW d \in Dims,
           NEW c \in Nat, NEW take \in Int, Settles(k, d, c, take), NEW j \in Keys
    PROVE  Recorded(j)'
<1>1. LedgerTypeOK /\ Placed(k) /\ Recorded(k) /\ Recorded(j)
  BY DEF OrderlyInv, HoldsInv, SafeLedger, Placement
<1>2. state'[k] = "settled" /\ charged'[k] = c  BY <1>1 DEF Settles, LedgerTypeOK
<1>3. \A i \in Keys \ {k} : /\ state'[i] = state[i] /\ charged'[i] = charged[i]
                            /\ holdState'[i] = holdState[i] /\ holdCharged'[i] = holdCharged[i]
  BY <1>1 DEF Settles, OnlyTouches, LedgerTypeOK
<1>4. CASE j # k  BY <1>1, <1>3, <1>4 DEF Recorded, Told, Total
<1>5. charged[k] = holdCharged[k][d] /\ holdCharged[k][d] \in Int
  BY <1>1, OneTotal DEF Recorded, LedgerTypeOK
<1>6. charged'[k] = holdCharged'[k][d]
  <2>1. holdCharged'[k][d] = holdCharged[k][d] + take  BY DEF Settles
  <2>2. state[k] \in {"requested", "confirmed", "denied", "released"}
    BY <1>1, <1>2 DEF Settles, Orderly, LedgerTypeOK, ReservationState
  <2>3. CASE state[k] = "released"
    <3>1. take = 0 /\ charged'[k] = charged[k]
      BY <1>1, <2>3 DEF Settles, Orderly, Recorded, Told
    <3> QED  BY <1>5, <2>1, <3>1
  <2>4. CASE state[k] # "released"
    <3>1. holdState[k] = "reserved" /\ charged[k] = 0
      BY <1>1, <2>2, <2>4 DEF Recorded, Told
    <3>2. Rest(k)[d] = amount[k][d]
      <4>1. amount[k][d] \in Nat  BY <1>1 DEF LedgerTypeOK
      <4>2. Rest(k)[d] = amount[k][d] - holdCharged[k][d]  BY DEF Rest
      <4>3. holdCharged[k][d] = 0  BY <1>5, <3>1
      <4>4. amount[k][d] - 0 = amount[k][d]  BY <4>1
      <4> QED  BY <4>2, <4>3, <4>4
    <3>3. take = c  BY <3>1, <3>2 DEF Settles, WithinItems
    <3> QED  BY <1>2, <1>5, <2>1, <3>1, <3>3
  <2> QED  BY <2>3, <2>4
<1>7. charged'[k] = Total(holdCharged'[k])
  <2>1. holdCharged'[k] \in [Dims -> Int]  BY DEF LedgerTypeOK
  <2> QED  BY <1>6, <2>1, OneTotal
<1>8. CASE j = k  BY <1>2, <1>7, <1>8 DEF Recorded, Told, Total
<1> QED  BY <1>4, <1>8

LEMMA OrderlyStep ==
    ASSUME OneDimension, OrderlyInv, [ApiNext /\ Orderly]_ledgerVars
    PROVE  OrderlyInv'
<1> USE DEF OrderlyInv
<1>1. HoldsInv' /\ NextEventIsTrue'
  BY HoldsStep, NextEventStep DEF HoldsInv, SafeLedger
<1>2. LedgerTypeOK /\ LedgerTypeOK' /\ SafeLedger /\ Placement
  BY <1>1 DEF HoldsInv, SafeLedger
<1> SUFFICES ASSUME NEW j \in Keys  PROVE Recorded(j)'
  BY <1>1
<1>3. Recorded(j) /\ Told(j)  BY DEF Recorded
<1>4. ASSUME UNCHANGED <<state, charged, holdVars>>  PROVE Recorded(j)'
  BY <1>3, <1>4, RecordKept DEF Told, holdVars
<1>5. ASSUME \/ \E d \in Dims, c \in Ceilings : Grant(d, c)
             \/ \E x \in Children, d \in Dims, n \in Ceilings : Delegate(x, d, n)
             \/ \E x \in Children, d \in Dims : Rollup(x, d)
      PROVE  Recorded(j)'
  BY <1>4, <1>5 DEF Grant, Delegate, Rollup, recordVars
<1>6. ASSUME NEW k \in Keys, NEW a \in Accounts, NEW q \in Offers(k), Reserve(k, a, q)
      PROVE  Recorded(j)'
  <2>1. Told(j)'  BY <1>2, <1>3, <1>6 DEF Reserve, Told, LedgerTypeOK
  <2> QED  BY <1>3, <1>6, <2>1, RecordKept DEF Reserve
<1>7. ASSUME NEW k \in Keys, Deny(k), Orderly  PROVE Recorded(j)'
  <2>1. state[k] \in {"requested", "confirmed", "denied"}
    BY <1>2, <1>7 DEF Deny, Orderly, LedgerTypeOK, ReservationState
  <2>2. Told(j)'  BY <1>2, <1>3, <1>7, <2>1 DEF Deny, Told, LedgerTypeOK, holdVars
  <2> QED  BY <1>3, <1>7, <2>2, RecordKept DEF Deny, holdVars
<1>8. ASSUME NEW k \in Keys, MarkUncertain(k) \/ Release(k) \/ ReconcileUncertain(k)
      PROVE  Recorded(j)'
  <2>1. PICK h \in {"uncertain", "released"} :
            holdState' = [holdState EXCEPT ![k] = h] /\ state' = [state EXCEPT ![k] = h]
    BY <1>8 DEF MarkUncertain, Release, ReconcileUncertain
  <2>2. UNCHANGED <<charged, holdCharged>>
    BY <1>8 DEF MarkUncertain, Release, ReconcileUncertain
  <2> QED  BY <1>2, <1>3, <2>1, <2>2, UnholdRecords
<1>9. ASSUME NEW s \in Sagas, SettleStep(s), Orderly  PROVE Recorded(j)'
  <2>1. ASSUME NEW c \in 0 .. saga[s].charge, SettleCommit(s, c)  PROVE Recorded(j)'
    <3>1. PICK k \in Keys, d \in Dims, take \in Int : c \in Nat /\ Settles(k, d, c, take)
      BY <1>2, <2>1, SettleTakes
    <3> QED  BY <1>2, <1>9, <3>1, SettleRecords
  <2>2. CASE ~ \E c \in 0 .. saga[s].charge : SettleCommit(s, c)
    BY <1>4, <1>9, <2>2
    DEF SettleStep, SettleBegin, PeerAboveCap, SettleDenied, SettleUnknown,
        SettleResolve, recordVars
  <2> QED  BY <2>1, <2>2
<1>10. ASSUME Continue  PROVE Recorded(j)'
  <2>1. Told(j)'
    BY <1>2, <1>3, <1>10, ConfirmsRequested DEF Continue, Told, LedgerTypeOK, holdVars
  <2> QED  BY <1>3, <1>10, <2>1, RecordKept DEF Continue, holdVars
<1>11. ASSUME Crash \/ UNCHANGED ledgerVars  PROVE Recorded(j)'
  BY <1>4, <1>11 DEF Crash, ledgerVars, recordVars, holdVars
<1> QED
  BY <1>5, <1>6, <1>7, <1>8, <1>9, <1>10, <1>11 DEF ApiNext

LEMMA OrderlyInit == LedgerInit => OrderlyInv
<1> SUFFICES ASSUME LedgerInit  PROVE OrderlyInv
  OBVIOUS
<1>1. ASSUME NEW k \in Keys  PROVE Recorded(k)
  <2>1. Total(holdCharged[k]) = 0
    BY SumZero, FiniteAssumption DEF LedgerInit, Total, Zero
  <2> QED  BY <2>1 DEF LedgerInit, Recorded, Told
<1>2. NextEventIsTrue  BY DEF LedgerInit, NextEventIsTrue
<1> QED  BY <1>1, <1>2, HoldsInit DEF OrderlyInv

LEMMA OrderlyInvariant == ASSUME OneDimension PROVE OrderlySpec => []OrderlyInv
<1>1. OrderlyInv /\ [ApiNext /\ Orderly]_ledgerVars => OrderlyInv'  BY OrderlyStep
<1> QED  BY OrderlyInit, <1>1, PTL DEF OrderlySpec

\* Called in the order that is left to its callers, in one dimension, the
\* record and the ledger tell one story: the charge written on a reservation is
\* what its hold took into `committed`, through every retry and crash.
THEOREM RecordMatchesLedgerHolds ==
    ASSUME OneDimension PROVE OrderlySpec => []RecordMatchesLedger
<1>1. OrderlyInv => RecordMatchesLedger  BY DEF OrderlyInv, Recorded, RecordMatchesLedger
<1> QED  BY OrderlyInvariant, <1>1, PTL

\* The one step that lets open holds go is a Release.
LEMMA OnlyReleaseLetsGo ==
    ASSUME HoldsInv, NextEventIsTrue, [ApiNext]_ledgerVars, NEW k \in Keys,
           holdState[k] = "reserved", holdState'[k] = "released"
    PROVE  Release(k)
<1>1. LedgerTypeOK /\ Placement  BY DEF HoldsInv, SafeLedger
<1>2. holdState' # holdState  OBVIOUS
<1>3. ASSUME NEW j \in Keys, MarkUncertain(j)  PROVE FALSE
  BY <1>1, <1>3 DEF MarkUncertain, LedgerTypeOK
<1>4. ASSUME NEW j \in Keys, NEW a \in Accounts, NEW q \in Offers(j), Reserve(j, a, q)
      PROVE  FALSE
  BY <1>1, <1>4 DEF Reserve, LedgerTypeOK
<1>5. ASSUME NEW j \in Keys, ReconcileUncertain(j)  PROVE FALSE
  <2>1. j = k  BY <1>1, <1>5 DEF ReconcileUncertain, LedgerTypeOK
  <2> QED  BY <1>1, <1>5, <2>1 DEF ReconcileUncertain, Placement, Placed
<1>6. ASSUME NEW j \in Keys, Release(j)  PROVE Release(k)
  <2>1. j = k  BY <1>1, <1>6 DEF Release, LedgerTypeOK
  <2> QED  BY <1>6, <2>1
<1>7. \A j \in Keys : ~Deny(j)  BY <1>2 DEF Deny, holdVars
<1>8. ASSUME NEW s \in Sagas, SettleStep(s)  PROVE FALSE
  BY <1>2, <1>8
  DEF SettleStep, SettleBegin, SettleCommit, PeerAboveCap, SettleDenied, SettleUnknown,
      SettleResolve, holdVars
<1>9. CASE \/ \E d \in Dims, c \in Ceilings : Grant(d, c)
           \/ \E x \in Children, d \in Dims, n \in Ceilings : Delegate(x, d, n)
           \/ \E x \in Children, d \in Dims : Rollup(x, d)
           \/ Continue \/ Crash \/ UNCHANGED ledgerVars
  BY <1>2, <1>9 DEF Grant, Delegate, Rollup, Continue, Crash, ledgerVars, holdVars
<1> QED  BY <1>3, <1>4, <1>5, <1>6, <1>7, <1>8, <1>9 DEF ApiNext

\* A release returns exactly the demonstrably unspent remainder to the account
\* it was reserved in: the items less the charge, no more and no less.
THEOREM ReleaseIsExactHolds == ASSUME OneDimension PROVE OrderlySpec => ReleaseIsExact
<1> DEFINE Back(k) == [d \in Dims |-> ledger'[<<account[k], d>>]["remaining"]
                                       - ledger[<<account[k], d>>]["remaining"]]
           Exact ==
        \A k \in Keys : holdState[k] = "reserved" /\ holdState'[k] = "released"
                        => Total(Back(k)) = Total(amount[k]) - charged[k]
<1>1. ASSUME OrderlyInv, [ApiNext /\ Orderly]_ledgerVars  PROVE [Exact]_ledgerVars
  <2> SUFFICES ASSUME NEW k \in Keys, holdState[k] = "reserved", holdState'[k] = "released"
               PROVE  Total(Back(k)) = Total(amount[k]) - charged[k]
    OBVIOUS
  <2> USE DEF Flow!Buckets
  <2>1. LedgerTypeOK /\ Placed(k) /\ charged[k] = Total(holdCharged[k])
    BY <1>1 DEF OrderlyInv, HoldsInv, SafeLedger, Placement, Recorded
  <2>2. Release(k)  BY <1>1, OnlyReleaseLetsGo DEF OrderlyInv
  <2>3. MoveBetween("reserved", "remaining", account[k], Rest(k))
    BY <2>2 DEF Release, MoveHolds
  <2>4. account[k] \in Accounts /\ \A d \in Dims : amount[k][d] > 0
    BY <2>1, <2>2 DEF Release, Placed
  <2>5. ASSUME NEW d \in Dims
        PROVE  Total(Back(k)) = Total(amount[k]) - charged[k]
    <3> DEFINE r == <<account[k], d>>
    <3>1. r \in Rows  BY <2>4 DEF Rows
    <3>2. Rest(k) \in [Dims -> Int]  BY <2>1, RestType
    <3>3. ledger'[r]["remaining"] - ledger[r]["remaining"] = Rest(k)[d]
      BY <2>1, <2>3, <3>1, <3>2, MovedBuckets
    <3>4. Back(k)[d] = Rest(k)[d]  BY <3>3
    <3>5. Back(k) \in [Dims -> Int]  BY <3>2, <3>4 DEF OneDimension
    <3> HIDE DEF Back
    <3>6. Total(Back(k)) = Rest(k)[d]  BY <3>4, <3>5, OneTotal
    <3>7. amount[k] \in [Dims -> Int] /\ holdCharged[k] \in [Dims -> Int]
      BY <2>1 DEF LedgerTypeOK
    <3>8. Total(amount[k]) = amount[k][d] /\ Total(holdCharged[k]) = holdCharged[k][d]
      BY <3>7, OneTotal
    <3> QED  BY <2>1, <3>6, <3>8 DEF Rest
  <2>6. CASE Dims = {}
    <3>1. \A q : Total(q) = 0  BY <2>6, SumEmpty DEF Total
    <3> QED  BY <2>1, <3>1
  <2> QED  BY <2>5, <2>6
<1> QED  BY OrderlyInvariant, <1>1, PTL DEF OrderlySpec, ReleaseIsExact
=============================================================================
