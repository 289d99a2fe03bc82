-------------------------- MODULE GreenfieldProofs --------------------------
(***************************************************************************)
(* Proofs about Greenfield: its types, that no two overlapping scopes are  *)
(* owned, that what active_seam reads is the owner's, and that the saga    *)
(* implements ScopeAuthority.                                              *)
(*                                                                         *)
(* The inductive invariant adds what ties the four tables together: only   *)
(* the last enablement of a scope can be live, binding and mapping follow  *)
(* the row's state, the owner row belongs to the last epoch and is active  *)
(* exactly while the last row is, and a receipt names an epoch that was    *)
(* there.                                                                  *)
(***************************************************************************)
EXTENDS Greenfield, TLAPS

\* Only the last row of a scope is live; binding and mapping follow the state.
RowsFollowState ==
    \A s \in Scopes : \A n \in 1 .. Epoch(s) :
        /\ n # Epoch(s) => enabled[s][n].state \notin Live
        /\ enabled[s][n].state = "bindings_created" =>
              enabled[s][n].binding = "pending" /\ enabled[s][n].mapping = "pending"
        /\ enabled[s][n].state = "active" =>
              enabled[s][n].binding = "active" /\ enabled[s][n].mapping = "active"
        /\ enabled[s][n].state \notin Live =>
              enabled[s][n].binding = "void" /\ enabled[s][n].mapping = "void"

\* The owner row is the last epoch's, and byom's exactly while that is active.
OwnerFollowsLast ==
    \A s \in Scopes :
        IF Epoch(s) = 0 THEN owner[s] = None
        ELSE /\ owner[s] # None
             /\ owner[s].epoch = Epoch(s)
             /\ Owned(s) <=> Current(s).state = "active"

\* A receipt names a request of its own key and epochs that exist.
ReceiptsName ==
    /\ \A k \in Keys : asked[k] # None => Epoch(asked[k].scope) > 0
    /\ \A k \in Keys : taken[k].activate # 0 =>
          asked[k] # None /\ taken[k].activate <= Epoch(asked[k].scope)

\* A running command is past its first transaction only with its receipt.
HandlerFollowsReceipt ==
    /\ at.step # "idle" => at.req \in Requests
    /\ at.step \in {"verify", "rollback", "activate"} => asked[at.req.key] = at.req

IInv ==
    /\ GreenfieldTypeOK
    /\ RowsFollowState
    /\ OwnerFollowsLast
    /\ ReceiptsName
    /\ HandlerFollowsReceipt
    /\ NoOverlappingActiveOwners

-----------------------------------------------------------------------------
(* Sequences.                                                              *)

\* What Append leaves and adds.
LEMMA Appended ==
    ASSUME NEW S, NEW q \in Seq(S), NEW e \in S
    PROVE  /\ Append(q, e) \in Seq(S)
           /\ Len(Append(q, e)) = Len(q) + 1
           /\ \A n \in 1 .. Len(q) : Append(q, e)[n] = q[n]
           /\ Append(q, e)[Len(q) + 1] = e
  OBVIOUS

\* What replacing one element leaves.
LEMMA Replaced ==
    ASSUME NEW S, NEW q \in Seq(S), NEW m \in 1 .. Len(q), NEW e \in S
    PROVE  /\ [q EXCEPT ![m] = e] \in Seq(S)
           /\ Len([q EXCEPT ![m] = e]) = Len(q)
           /\ \A n \in 1 .. Len(q) : [q EXCEPT ![m] = e][n] = IF n = m THEN e ELSE q[n]
  OBVIOUS

\* A request has its fields.
LEMMA RequestFields ==
    ASSUME NEW r \in Requests
    PROVE  r.key \in Keys /\ r.scope \in Scopes /\ r.society \in Societies /\ r # None
  <1>1. r \in EnableRequest
    BY RequestsAssumption
  <1>2. r.scope \in Scopes /\ r.society \in Societies
    BY <1>1 DEF EnableRequest
  <1> QED
    BY <1>2, NoneAssumption DEF Keys

\* What adding a row leaves of the table.
LEMMA AfterAppend ==
    ASSUME GreenfieldTypeOK, NEW s \in Scopes, NEW row \in EnablementRow,
           enabled' = [enabled EXCEPT ![s] = Append(@, row)]
    PROVE  /\ enabled' \in [Scopes -> Seq(EnablementRow)]
           /\ \A t \in Scopes : t # s => enabled'[t] = enabled[t]
           /\ Len(enabled'[s]) = Len(enabled[s]) + 1
           /\ \A n \in 1 .. Len(enabled[s]) : enabled'[s][n] = enabled[s][n]
           /\ enabled'[s][Len(enabled[s]) + 1] = row
  <1>1. enabled \in [Scopes -> Seq(EnablementRow)]
    BY DEF GreenfieldTypeOK
  <1>2. enabled[s] \in Seq(EnablementRow)
    BY <1>1
  <1>3. enabled'[s] = Append(enabled[s], row)
    BY <1>1
  <1>4. \A t \in Scopes : t # s => enabled'[t] = enabled[t]
    BY <1>1
  <1>5. Append(enabled[s], row) \in Seq(EnablementRow)
    BY <1>2, Appended
  <1>6. enabled' \in [Scopes -> Seq(EnablementRow)]
    BY <1>1, <1>5
  <1> QED
    BY <1>2, <1>3, <1>4, <1>6, Appended

-----------------------------------------------------------------------------
(* What each action does, said once for the invariant and the refinement.  *)

\* The row of the last epoch, and the owner's, have their shapes.
LEMMA RowShapes ==
    ASSUME GreenfieldTypeOK
    PROVE  /\ \A s \in Scopes : Epoch(s) \in Nat
           /\ \A s \in Scopes : \A n \in 1 .. Epoch(s) : enabled[s][n] \in EnablementRow
           /\ \A s \in Scopes : owner[s] # None => owner[s] \in OwnerRow
  BY DEF GreenfieldTypeOK, Epoch

\* An owner row taken over or frozen is an owner row of the same epoch.
LEMMA Reowned ==
    ASSUME NEW row \in OwnerRow
    PROVE  /\ TakenOver(row) \in OwnerRow /\ TakenOver(row).epoch = row.epoch
           /\ TakenOver(row).owner = "byom" /\ TakenOver(row).status = "active"
           /\ Frozen(row) \in OwnerRow /\ Frozen(row).epoch = row.epoch
           /\ Frozen(row).status = "frozen"
  <1>1. row.revision + 1 \in Nat
    BY DEF OwnerRow
  <1> QED
    BY <1>1 DEF OwnerRow, TakenOver, Frozen

\* The initial state.
LEMMA InitIInv == GreenfieldInit => IInv
  <1> SUFFICES ASSUME GreenfieldInit PROVE IInv
    OBVIOUS
  <1> USE DEF GreenfieldInit
  <1>1. /\ enabled \in [Scopes -> Seq(EnablementRow)] /\ \A s \in Scopes : Epoch(s) = 0
    BY DEF Epoch
  <1>2. GreenfieldTypeOK
    BY <1>1 DEF GreenfieldTypeOK, NoAnswer, Idle
  <1>3. RowsFollowState
    BY <1>1 DEF RowsFollowState
  <1>4. OwnerFollowsLast
    BY <1>1 DEF OwnerFollowsLast
  <1>5. ReceiptsName /\ HandlerFollowsReceipt
    BY DEF ReceiptsName, HandlerFollowsReceipt, Idle
  <1>6. NoOverlappingActiveOwners
    BY OverlapAssumption DEF NoOverlappingActiveOwners, Owned
  <1> QED
    BY <1>2, <1>3, <1>4, <1>5, <1>6 DEF IInv

\* A new epoch: the row is pending, the owner row nobody's.
LEMMA NewEpochFacts ==
    ASSUME IInv, NEW r \in Requests, NewEpoch(r), at.era \in Nat,
           Epoch(r.scope) = 0 \/ Current(r.scope).state \notin Live,
           UNCHANGED taken, UNCHANGED society
    PROVE  /\ enabled' \in [Scopes -> Seq(EnablementRow)]
           /\ owner' \in [Scopes -> OwnerRow \union {None}]
           /\ RowsFollowState' /\ OwnerFollowsLast' /\ NoOverlappingActiveOwners'
           /\ \A s \in Scopes : Epoch(s)' >= Epoch(s)
           /\ Epoch(r.scope)' = Epoch(r.scope) + 1
           /\ ~Owned(r.scope)'
           /\ \A s \in Scopes : s # r.scope => enabled'[s] = enabled[s] /\ owner'[s] = owner[s]
           /\ \A n \in 1 .. Epoch(r.scope) : enabled'[r.scope][n] = enabled[r.scope][n]
           /\ enabled'[r.scope][Epoch(r.scope) + 1].state = "bindings_created"
           /\ enabled'[r.scope][Epoch(r.scope) + 1].binding = "pending"
  <1> DEFINE s == r.scope
             rev == IF owner[s] = None THEN 1 ELSE owner[s].revision + 1
             row == [state |-> "bindings_created", binding |-> "pending",
                     mapping |-> "pending", society |-> r.society, era |-> at.era,
                     expects |-> rev]
             own == [revision |-> rev, epoch |-> Epoch(s) + 1, owner |-> "none",
                     status |-> "active"]
  <1>1. s \in Scopes /\ r.society \in Societies
    BY RequestFields
  <1>2. GreenfieldTypeOK /\ RowsFollowState /\ OwnerFollowsLast /\ NoOverlappingActiveOwners
    BY DEF IInv
  <1>3. rev \in Nat
    BY <1>1, <1>2, RowShapes DEF OwnerRow
  <1>4. row \in EnablementRow
    BY <1>1, <1>3 DEF EnablementRow
  <1>5. Epoch(s) \in Nat
    BY <1>1, <1>2, RowShapes
  <1>6. own \in OwnerRow
    BY <1>3, <1>5 DEF OwnerRow
  <1>7. enabled' = [enabled EXCEPT ![s] = Append(@, row)] /\ owner' = [owner EXCEPT ![s] = own]
    BY DEF NewEpoch
  <1>8. owner \in [Scopes -> OwnerRow \union {None}]
    BY <1>2 DEF GreenfieldTypeOK
  <1>9. /\ owner' \in [Scopes -> OwnerRow \union {None}]
        /\ owner'[s] = own
        /\ \A t \in Scopes : t # s => owner'[t] = owner[t]
    BY <1>1, <1>6, <1>7, <1>8
  <1> HIDE DEF s, row
  <1>10. /\ enabled' \in [Scopes -> Seq(EnablementRow)]
         /\ \A t \in Scopes : t # s => enabled'[t] = enabled[t]
         /\ Len(enabled'[s]) = Len(enabled[s]) + 1
         /\ \A n \in 1 .. Len(enabled[s]) : enabled'[s][n] = enabled[s][n]
         /\ enabled'[s][Len(enabled[s]) + 1] = row
    BY <1>1, <1>2, <1>4, <1>7, AfterAppend
  <1>11. /\ \A t \in Scopes : t # s => Epoch(t)' = Epoch(t)
         /\ Epoch(s)' = Epoch(s) + 1
    BY <1>10 DEF Epoch
  <1>12. row.state = "bindings_created" /\ row.binding = "pending" /\ row.mapping = "pending"
    BY DEF row
  <1>13. \A n \in 1 .. Epoch(s) : enabled'[s][n] = enabled[s][n] /\ enabled'[s][n].state \notin Live
    <2> TAKE n \in 1 .. Epoch(s)
    <2>1. enabled'[s][n] = enabled[s][n]
      BY <1>10 DEF Epoch
    <2>2. CASE n # Epoch(s)
      BY <1>1, <1>2, <2>1, <2>2 DEF RowsFollowState
    <2>3. CASE n = Epoch(s)
      BY <1>5, <2>1, <2>3 DEF Current, s
    <2> QED
      BY <2>1, <2>2, <2>3
  <1>14. enabled'[s][Epoch(s) + 1] = row
    BY <1>10 DEF Epoch
  <1>15. RowsFollowState'
    <2> SUFFICES ASSUME NEW t \in Scopes, NEW n \in 1 .. Epoch(t)'
                 PROVE  /\ n # Epoch(t)' => enabled'[t][n].state \notin Live
                        /\ enabled'[t][n].state = "bindings_created" =>
                              enabled'[t][n].binding = "pending" /\ enabled'[t][n].mapping = "pending"
                        /\ enabled'[t][n].state = "active" =>
                              enabled'[t][n].binding = "active" /\ enabled'[t][n].mapping = "active"
                        /\ enabled'[t][n].state \notin Live =>
                              enabled'[t][n].binding = "void" /\ enabled'[t][n].mapping = "void"
      BY DEF RowsFollowState, Live
    <2>1. CASE t # s
      <3>1. enabled'[t] = enabled[t] /\ Epoch(t)' = Epoch(t)
        BY <1>10, <1>11, <2>1
      <3> QED
        BY <1>2, <3>1 DEF RowsFollowState
    <2>2. CASE t = s /\ n = Epoch(s) + 1
      BY <1>11, <1>12, <1>14, <2>2 DEF Live
    <2>3. CASE t = s /\ n # Epoch(s) + 1
      <3>1. n \in 1 .. Epoch(s)
        BY <1>5, <1>11, <2>3
      <3> QED
        BY <1>1, <1>2, <1>13, <2>3, <3>1 DEF RowsFollowState
    <2> QED
      BY <2>1, <2>2, <2>3
  <1>16. ~Owned(s)'
    BY <1>9 DEF Owned
  <1>17. own # None
    BY <1>6, NoneAssumption
  <1>18. OwnerFollowsLast'
    <2> SUFFICES ASSUME NEW t \in Scopes
                 PROVE  (IF Epoch(t) = 0 THEN owner[t] = None
                         ELSE /\ owner[t] # None
                              /\ owner[t].epoch = Epoch(t)
                              /\ Owned(t) <=> Current(t).state = "active")'
      BY DEF OwnerFollowsLast
    <2>1. CASE t # s
      <3>1. enabled'[t] = enabled[t] /\ owner'[t] = owner[t]
        BY <1>9, <1>10, <2>1
      <3> QED
        BY <1>2, <3>1 DEF OwnerFollowsLast, Epoch, Current, Owned
    <2>2. CASE t = s
      <3>1. Current(s)' = row
        BY <1>11, <1>14 DEF Current
      <3> QED
        BY <1>5, <1>9, <1>11, <1>12, <1>16, <1>17, <2>2, <3>1
    <2> QED
      BY <2>1, <2>2
  <1>19. NoOverlappingActiveOwners'
    BY <1>2, <1>9, <1>16, OverlapAssumption DEF NoOverlappingActiveOwners, Owned
  <1>20. \A t \in Scopes : Epoch(t)' >= Epoch(t)
    BY <1>2, <1>5, <1>11, RowShapes
  <1> QED
    BY <1>9, <1>10, <1>11, <1>12, <1>13, <1>14, <1>15, <1>16, <1>18, <1>19, <1>20 DEF s

\* The last row of a scope moves on: what stays, and what the row fields say.
LEMMA LastRowSet ==
    ASSUME IInv, NEW s \in Scopes, Epoch(s) > 0, NEW row \in EnablementRow,
           enabled' = [enabled EXCEPT ![s] = [enabled[s] EXCEPT ![Epoch(s)] = row]],
           \/ row.state = "active" /\ row.binding = "active" /\ row.mapping = "active"
           \/ row.state \in {"rolled_back", "disabled"} /\ row.binding = "void" /\ row.mapping = "void"
    PROVE  /\ enabled' \in [Scopes -> Seq(EnablementRow)]
           /\ RowsFollowState'
           /\ \A t \in Scopes : Epoch(t)' = Epoch(t)
           /\ \A t \in Scopes : t # s => enabled'[t] = enabled[t]
           /\ Current(s)' = row
           /\ \A n \in 1 .. Epoch(s) : n # Epoch(s) => enabled'[s][n] = enabled[s][n]
           /\ enabled'[s][Epoch(s)] = row
  <1>1. GreenfieldTypeOK /\ RowsFollowState
    BY DEF IInv
  <1>2. Epoch(s) \in 1 .. Len(enabled[s])
    BY <1>1, RowShapes DEF Epoch
  <1>3. /\ enabled' \in [Scopes -> Seq(EnablementRow)]
        /\ \A t \in Scopes : t # s => enabled'[t] = enabled[t]
        /\ Len(enabled'[s]) = Len(enabled[s])
        /\ \A n \in 1 .. Len(enabled[s]) :
              enabled'[s][n] = IF n = Epoch(s) THEN row ELSE enabled[s][n]
    <2>1. PICK m \in 1 .. Len(enabled[s]) : m = Epoch(s)
      BY <1>2
    <2>2. enabled' = [enabled EXCEPT ![s] = [enabled[s] EXCEPT ![m] = row]]
      BY <2>1
    <2>3. enabled \in [Scopes -> Seq(EnablementRow)] /\ enabled[s] \in Seq(EnablementRow)
      BY <1>1 DEF GreenfieldTypeOK
    <2>4. enabled'[s] = [enabled[s] EXCEPT ![m] = row]
      BY <2>2, <2>3
    <2>5. \A t \in Scopes : t # s => enabled'[t] = enabled[t]
      BY <2>2, <2>3
    <2>6. /\ [enabled[s] EXCEPT ![m] = row] \in Seq(EnablementRow)
          /\ Len([enabled[s] EXCEPT ![m] = row]) = Len(enabled[s])
          /\ \A n \in 1 .. Len(enabled[s]) :
                [enabled[s] EXCEPT ![m] = row][n] = IF n = m THEN row ELSE enabled[s][n]
      BY <2>3, Replaced
    <2>7. enabled' \in [Scopes -> Seq(EnablementRow)]
      BY <2>2, <2>3, <2>6
    <2> QED
      BY <2>1, <2>4, <2>5, <2>6, <2>7
  <1>4. \A t \in Scopes : Epoch(t)' = Epoch(t)
    BY <1>3 DEF Epoch
  <1>5. enabled'[s][Epoch(s)] = row
    BY <1>2, <1>3
  <1>6. \A n \in 1 .. Epoch(s) : n # Epoch(s) => enabled'[s][n] = enabled[s][n]
    BY <1>3 DEF Epoch
  <1>7. Current(s)' = row
    BY <1>4, <1>5 DEF Current
  <1>8. RowsFollowState'
    <2> SUFFICES ASSUME NEW t \in Scopes, NEW n \in 1 .. Epoch(t)
                 PROVE  /\ n # Epoch(t) => enabled'[t][n].state \notin Live
                        /\ enabled'[t][n].state = "bindings_created" =>
                              enabled'[t][n].binding = "pending" /\ enabled'[t][n].mapping = "pending"
                        /\ enabled'[t][n].state = "active" =>
                              enabled'[t][n].binding = "active" /\ enabled'[t][n].mapping = "active"
                        /\ enabled'[t][n].state \notin Live =>
                              enabled'[t][n].binding = "void" /\ enabled'[t][n].mapping = "void"
      BY <1>4 DEF RowsFollowState, Live
    <2>1. CASE t # s
      BY <1>1, <1>3, <2>1 DEF RowsFollowState
    <2>2. CASE t = s /\ n = Epoch(s)
      BY <1>5, <2>2 DEF Live
    <2>3. CASE t = s /\ n # Epoch(s)
      BY <1>1, <1>6, <2>3 DEF RowsFollowState
    <2> QED
      BY <2>1, <2>2, <2>3
  <1> QED
    BY <1>3, <1>4, <1>5, <1>6, <1>7, <1>8

\* A rollback: the pending row of the last epoch is void, the owner untouched.
LEMMA RollBackFacts ==
    ASSUME IInv, RollBack
    PROVE  /\ IInv'
           /\ \/ UNCHANGED <<enabled, owner>>
              \/ \E s \in Scopes :
                    /\ Epoch(s) > 0 /\ Current(s).state = "bindings_created"
                    /\ Current(s)'.binding = "void"
                    /\ \A t \in Scopes : Epoch(t)' = Epoch(t)
                    /\ \A t \in Scopes : \A n \in 1 .. Epoch(t) :
                          t # s \/ n # Epoch(t) => enabled'[t][n] = enabled[t][n]
                    /\ UNCHANGED owner
  <1>0. GreenfieldTypeOK /\ RowsFollowState /\ OwnerFollowsLast /\ ReceiptsName
        /\ HandlerFollowsReceipt /\ NoOverlappingActiveOwners
    BY DEF IInv
  <1>1. at.step = "rollback" /\ at.req \in Requests /\ asked[at.req.key] = at.req
    BY <1>0 DEF RollBack, HandlerFollowsReceipt
  <1>2. PICK s \in Scopes, k \in Keys : s = at.req.scope /\ k = at.req.key
    BY <1>1, RequestFields
  <1>3. Epoch(s) > 0
    BY <1>0, <1>1, <1>2, RequestFields DEF ReceiptsName
  <1>4. at' = Idle /\ answer' = [is |-> "refused", req |-> at.req, society |-> None]
    BY DEF RollBack, End, Answered
  <1>5. UNCHANGED <<owner, asked, society>>
    BY DEF RollBack
  <1>6. CASE UNCHANGED <<enabled, taken>>
    <2>1. GreenfieldTypeOK'
      BY <1>0, <1>1, <1>4, <1>5, <1>6 DEF GreenfieldTypeOK, Idle
    <2>2. RowsFollowState' /\ OwnerFollowsLast' /\ NoOverlappingActiveOwners'
      BY <1>0, <1>5, <1>6 DEF RowsFollowState, OwnerFollowsLast, NoOverlappingActiveOwners,
         Epoch, Current, Owned
    <2>3. ReceiptsName' /\ HandlerFollowsReceipt'
      BY <1>0, <1>4, <1>5, <1>6 DEF ReceiptsName, HandlerFollowsReceipt, Epoch, Idle
    <2> QED
      BY <1>5, <1>6, <2>1, <2>2, <2>3 DEF IInv
  <1>7. CASE /\ Current(s).state = "bindings_created"
             /\ enabled' = [enabled EXCEPT ![s][Epoch(s)] =
                   [@ EXCEPT !.state = "rolled_back", !.binding = "void", !.mapping = "void"]]
             /\ taken' = [taken EXCEPT ![k].rollback = at.epoch]
    <2>1. Epoch(s) \in 1 .. Epoch(s)
      BY <1>0, <1>2, <1>3, RowShapes
    <2>2. Current(s) \in EnablementRow
      BY <1>0, <1>2, <2>1, RowShapes DEF Current
    <2>3. PICK row \in EnablementRow :
               row = [Current(s) EXCEPT !.state = "rolled_back", !.binding = "void",
                                        !.mapping = "void"]
      BY <2>2 DEF EnablementRow
    <2>a. row.state = "rolled_back" /\ row.binding = "void" /\ row.mapping = "void"
      BY <2>2, <2>3 DEF EnablementRow
    <2>4. enabled' = [enabled EXCEPT ![s] = [enabled[s] EXCEPT ![Epoch(s)] = row]]
      BY <1>7, <2>3 DEF Current
    <2>5. /\ enabled' \in [Scopes -> Seq(EnablementRow)]
          /\ RowsFollowState'
          /\ \A t \in Scopes : Epoch(t)' = Epoch(t)
          /\ \A t \in Scopes : t # s => enabled'[t] = enabled[t]
          /\ Current(s)' = row
          /\ \A n \in 1 .. Epoch(s) : n # Epoch(s) => enabled'[s][n] = enabled[s][n]
      BY <1>2, <1>3, <2>a, <2>4, LastRowSet
    <2>6. taken' \in [Keys -> [rollback : Nat, activate : Nat]]
          /\ \A j \in Keys : taken'[j].activate = taken[j].activate
      BY <1>0, <1>2, <1>7 DEF GreenfieldTypeOK
    <2>7. GreenfieldTypeOK'
      <3>1. at' \in [step : {"idle", "create", "verify", "rollback", "activate"},
                     req : Requests \union {None}, era : Nat, epoch : Nat]
        BY <1>4 DEF Idle
      <3>2. answer' \in [is : {"none", "active", "refused", "unavailable"},
                         req : Requests \union {None}, society : Societies \union {None}]
        BY <1>1, <1>4
      <3> QED
        BY <1>0, <1>5, <2>5, <2>6, <3>1, <3>2 DEF GreenfieldTypeOK
    <2>8. OwnerFollowsLast'
      <3> SUFFICES ASSUME NEW t \in Scopes
                   PROVE  (IF Epoch(t) = 0 THEN owner[t] = None
                           ELSE /\ owner[t] # None
                                /\ owner[t].epoch = Epoch(t)
                                /\ Owned(t) <=> Current(t).state = "active")'
        BY DEF OwnerFollowsLast
      <3>1. CASE t # s
        BY <1>0, <1>5, <2>5, <3>1 DEF OwnerFollowsLast, Current, Owned
      <3>2. CASE t = s
        BY <1>0, <1>2, <1>3, <1>5, <1>7, <2>a, <2>5, <3>2 DEF OwnerFollowsLast, Owned
      <3> QED
        BY <3>1, <3>2
    <2>9. ReceiptsName'
      BY <1>0, <1>5, <2>5, <2>6, RequestFields DEF ReceiptsName, GreenfieldTypeOK
    <2>10. HandlerFollowsReceipt'
      BY <1>4 DEF HandlerFollowsReceipt, Idle
    <2>11. NoOverlappingActiveOwners'
      BY <1>0, <1>5 DEF NoOverlappingActiveOwners, Owned
    <2>12. IInv'
      BY <2>5, <2>7, <2>8, <2>9, <2>10, <2>11 DEF IInv
    <2> QED
      BY <1>2, <1>3, <1>5, <1>7, <2>a, <2>5, <2>12
  <1> QED
    BY <1>1, <1>2, <1>6, <1>7 DEF RollBack

\* A disable: the active row is the last one; the owner is frozen with it.
LEMMA DisableFacts ==
    ASSUME IInv, NEW s \in Scopes, NEW n \in 1 .. Epoch(s), Disable(s, n)
    PROVE  /\ IInv'
           /\ n = Epoch(s) /\ Current(s).binding = "active" /\ Current(s)'.binding = "void"
           /\ \A t \in Scopes : Epoch(t)' = Epoch(t)
           /\ \A t \in Scopes : \A j \in 1 .. Epoch(t) :
                 t # s \/ j # Epoch(t) => enabled'[t][j] = enabled[t][j]
           /\ ~Owned(s)'
           /\ \A t \in Scopes : t # s => owner'[t] = owner[t]
  <1>0. GreenfieldTypeOK /\ RowsFollowState /\ OwnerFollowsLast /\ ReceiptsName
        /\ HandlerFollowsReceipt /\ NoOverlappingActiveOwners
    BY DEF IInv
  <1>1. enabled[s][n].state = "active" /\ UNCHANGED <<asked, taken, at, society>>
        /\ answer' = NoAnswer
    BY DEF Disable
  <1>2. n = Epoch(s) /\ Epoch(s) > 0
    BY <1>0, <1>1, RowShapes DEF RowsFollowState, Live
  <1>3. Current(s).binding = "active"
    BY <1>0, <1>1, <1>2 DEF RowsFollowState, Current
  <1>4. Current(s) \in EnablementRow /\ owner[s] \in OwnerRow
    BY <1>0, <1>2, RowShapes DEF Current, OwnerFollowsLast
  <1>5. PICK row \in EnablementRow :
             row = [Current(s) EXCEPT !.state = "disabled", !.binding = "void", !.mapping = "void"]
    BY <1>4 DEF EnablementRow
  <1>6. row.state = "disabled" /\ row.binding = "void" /\ row.mapping = "void"
    BY <1>4, <1>5 DEF EnablementRow
  <1>7. enabled' = [enabled EXCEPT ![s] = [enabled[s] EXCEPT ![Epoch(s)] = row]]
    BY <1>2, <1>5 DEF Disable, Current
  <1>8. /\ enabled' \in [Scopes -> Seq(EnablementRow)]
        /\ RowsFollowState'
        /\ \A t \in Scopes : Epoch(t)' = Epoch(t)
        /\ \A t \in Scopes : t # s => enabled'[t] = enabled[t]
        /\ Current(s)' = row
        /\ \A j \in 1 .. Epoch(s) : j # Epoch(s) => enabled'[s][j] = enabled[s][j]
    BY <1>2, <1>6, <1>7, LastRowSet
  <1>9. PICK own \in OwnerRow : own = Frozen(owner[s])
    BY <1>4, Reowned
  <1>10. own.status = "frozen" /\ own.epoch = owner[s].epoch
    BY <1>4, <1>9, Reowned
  <1>11. owner' = [owner EXCEPT ![s] = own]
    BY <1>9 DEF Disable
  <1>12. /\ owner' \in [Scopes -> OwnerRow \union {None}]
         /\ owner'[s] = own
         /\ \A t \in Scopes : t # s => owner'[t] = owner[t]
    BY <1>0, <1>11 DEF GreenfieldTypeOK
  <1>13. ~Owned(s)' /\ own # None
    BY <1>10, <1>12, NoneAssumption DEF Owned
  <1>14. GreenfieldTypeOK'
    <2>1. answer' \in [is : {"none", "active", "refused", "unavailable"},
                       req : Requests \union {None}, society : Societies \union {None}]
      BY <1>1 DEF NoAnswer
    <2> QED
      BY <1>0, <1>1, <1>8, <1>12, <2>1 DEF GreenfieldTypeOK
  <1>15. OwnerFollowsLast'
    <2> SUFFICES ASSUME NEW t \in Scopes
                 PROVE  (IF Epoch(t) = 0 THEN owner[t] = None
                         ELSE /\ owner[t] # None
                              /\ owner[t].epoch = Epoch(t)
                              /\ Owned(t) <=> Current(t).state = "active")'
      BY DEF OwnerFollowsLast
    <2>1. CASE t # s
      BY <1>0, <1>8, <1>12, <2>1 DEF OwnerFollowsLast, Current, Owned
    <2>2. CASE t = s
      BY <1>0, <1>2, <1>6, <1>8, <1>10, <1>12, <1>13, <2>2 DEF OwnerFollowsLast
    <2> QED
      BY <2>1, <2>2
  <1>16. ReceiptsName'
    BY <1>0, <1>1, <1>8, RequestFields DEF ReceiptsName, GreenfieldTypeOK
  <1>17. HandlerFollowsReceipt'
    BY <1>0, <1>1 DEF HandlerFollowsReceipt
  <1>18. NoOverlappingActiveOwners'
    BY <1>0, <1>12, <1>13, OverlapAssumption DEF NoOverlappingActiveOwners, Owned
  <1>19. IInv'
    BY <1>8, <1>14, <1>15, <1>16, <1>17, <1>18 DEF IInv
  <1> QED
    BY <1>2, <1>3, <1>6, <1>8, <1>12, <1>13, <1>19

\* An activation: the pending row of the last epoch takes over, with no
\* overlapping scope owned.
LEMMA ActivateFacts ==
    ASSUME IInv, Activate
    PROVE  /\ IInv'
           /\ \/ UNCHANGED <<enabled, owner>>
              \/ \E s \in Scopes :
                    /\ Epoch(s) > 0 /\ Current(s).binding = "pending" /\ ~Owned(s)
                    /\ \A t \in Scopes : <<s, t>> \in Overlap => ~Owned(t)
                    /\ Current(s)'.binding = "active"
                    /\ \A t \in Scopes : Epoch(t)' = Epoch(t)
                    /\ \A t \in Scopes : \A j \in 1 .. Epoch(t) :
                          t # s \/ j # Epoch(t) => enabled'[t][j] = enabled[t][j]
                    /\ Owned(s)' /\ owner'[s].epoch = Epoch(s)
                    /\ \A t \in Scopes : t # s => owner'[t] = owner[t]
  <1>0. GreenfieldTypeOK /\ RowsFollowState /\ OwnerFollowsLast /\ ReceiptsName
        /\ HandlerFollowsReceipt /\ NoOverlappingActiveOwners
    BY DEF IInv
  <1>1. at.step = "activate" /\ at.req \in Requests /\ asked[at.req.key] = at.req
    BY <1>0 DEF Activate, HandlerFollowsReceipt
  <1>2. PICK s \in Scopes, k \in Keys : s = at.req.scope /\ k = at.req.key
    BY <1>1, RequestFields
  <1>3. Epoch(s) > 0 /\ Epoch(s) \in 1 .. Epoch(s)
    BY <1>0, <1>1, <1>2, RequestFields, RowShapes DEF ReceiptsName
  <1>4. UNCHANGED <<asked, society>>
    BY DEF Activate
  <1>5. ASSUME NEW is \in {"none", "active", "refused", "unavailable"},
               NEW so \in Societies \union {None}, End(is, so)
        PROVE  /\ at' = Idle
               /\ at' \in [step : {"idle", "create", "verify", "rollback", "activate"},
                           req : Requests \union {None}, era : Nat, epoch : Nat]
               /\ answer' \in [is : {"none", "active", "refused", "unavailable"},
                               req : Requests \union {None}, society : Societies \union {None}]
    BY <1>1, <1>5 DEF End, Answered, Idle
  <1>6. CASE /\ UNCHANGED <<enabled, owner, taken>>
             /\ \/ End("refused", None)
                \/ /\ taken[k].activate # 0
                   /\ End("active", enabled[s][taken[k].activate].society)
    <2>1. CASE taken[k].activate # 0
      <3>1. taken[k].activate \in 1 .. Epoch(s)
        BY <1>0, <1>1, <1>2, <1>3, <2>1, RowShapes DEF ReceiptsName, GreenfieldTypeOK
      <3>2. enabled[s][taken[k].activate].society \in Societies
        BY <1>0, <3>1, RowShapes DEF EnablementRow
      <3> QED
        <4>1. at' = Idle
              /\ at' \in [step : {"idle", "create", "verify", "rollback", "activate"},
                          req : Requests \union {None}, era : Nat, epoch : Nat]
              /\ answer' \in [is : {"none", "active", "refused", "unavailable"},
                              req : Requests \union {None}, society : Societies \union {None}]
          BY <1>5, <1>6, <3>2
        <4> QED
          BY SMTT(30), <1>0, <1>4, <1>6, <4>1 DEF IInv, GreenfieldTypeOK, RowsFollowState,
             OwnerFollowsLast, ReceiptsName, HandlerFollowsReceipt, Idle,
             NoOverlappingActiveOwners, Epoch, Current, Owned
    <2>2. CASE End("refused", None)
      <3>1. at' = Idle
            /\ at' \in [step : {"idle", "create", "verify", "rollback", "activate"},
                        req : Requests \union {None}, era : Nat, epoch : Nat]
            /\ answer' \in [is : {"none", "active", "refused", "unavailable"},
                            req : Requests \union {None}, society : Societies \union {None}]
        BY <1>5, <2>2
      <3> QED
        BY <1>0, <1>4, <1>6, <3>1 DEF IInv, GreenfieldTypeOK, RowsFollowState,
           OwnerFollowsLast, ReceiptsName, HandlerFollowsReceipt, Idle,
           NoOverlappingActiveOwners, Epoch, Current, Owned
    <2> QED
      BY <1>6, <2>1, <2>2
  <1>7. CASE /\ Epoch(s) = at.epoch /\ Current(s).state = "bindings_created"
             /\ OwnerUnmoved(s)
             /\ NoOverlap(s)
             /\ owner' = [owner EXCEPT ![s] = TakenOver(@)]
             /\ enabled' = [enabled EXCEPT ![s][at.epoch] =
                   [@ EXCEPT !.state = "active", !.binding = "active", !.mapping = "active"]]
             /\ taken' = [taken EXCEPT ![k].activate = at.epoch]
             /\ End("active", Current(s).society)
    <2>1. Current(s) \in EnablementRow /\ owner[s] \in OwnerRow
      BY <1>0, <1>3, RowShapes DEF Current, OwnerFollowsLast
    <2>2. Current(s).binding = "pending" /\ ~Owned(s)
      BY <1>0, <1>3, <1>7 DEF RowsFollowState, Current, OwnerFollowsLast
    <2>3. PICK row \in EnablementRow :
               row = [Current(s) EXCEPT !.state = "active", !.binding = "active",
                                        !.mapping = "active"]
      BY <2>1 DEF EnablementRow
    <2>4. row.state = "active" /\ row.binding = "active" /\ row.mapping = "active"
      BY <2>1, <2>3 DEF EnablementRow
    <2>5. enabled' = [enabled EXCEPT ![s] = [enabled[s] EXCEPT ![Epoch(s)] = row]]
      BY <1>7, <2>3 DEF Current
    <2>6. /\ enabled' \in [Scopes -> Seq(EnablementRow)]
          /\ RowsFollowState'
          /\ \A t \in Scopes : Epoch(t)' = Epoch(t)
          /\ \A t \in Scopes : t # s => enabled'[t] = enabled[t]
          /\ Current(s)' = row
          /\ \A j \in 1 .. Epoch(s) : j # Epoch(s) => enabled'[s][j] = enabled[s][j]
      BY <1>3, <2>4, <2>5, LastRowSet
    <2>7. PICK own \in OwnerRow : own = TakenOver(owner[s])
      BY <2>1, Reowned
    <2>8. own.status = "active" /\ own.owner = "byom" /\ own.epoch = Epoch(s) /\ own # None
      BY <1>7, <2>1, <2>7, Reowned, NoneAssumption DEF OwnerUnmoved
    <2>9. owner' = [owner EXCEPT ![s] = own]
      BY <1>7, <2>7
    <2>10. /\ owner' \in [Scopes -> OwnerRow \union {None}]
           /\ owner'[s] = own
           /\ \A t \in Scopes : t # s => owner'[t] = owner[t]
      BY <1>0, <2>9 DEF GreenfieldTypeOK
    <2>11. Owned(s)'
      BY <2>8, <2>10 DEF Owned
    <2>12. \A t \in Scopes : <<s, t>> \in Overlap => ~Owned(t)
      BY <1>7 DEF NoOverlap
    <2>13. Current(s).society \in Societies
      BY <2>1 DEF EnablementRow
    <2>14. /\ at' = Idle
           /\ at' \in [step : {"idle", "create", "verify", "rollback", "activate"},
                       req : Requests \union {None}, era : Nat, epoch : Nat]
           /\ answer' \in [is : {"none", "active", "refused", "unavailable"},
                           req : Requests \union {None}, society : Societies \union {None}]
      BY <1>5, <1>7, <2>13
    <2>15. taken' \in [Keys -> [rollback : Nat, activate : Nat]]
           /\ taken'[k].activate = Epoch(s)
           /\ \A j \in Keys : j # k => taken'[j].activate = taken[j].activate
      BY <1>0, <1>7 DEF GreenfieldTypeOK
    <2>16. GreenfieldTypeOK'
      BY <1>0, <1>4, <2>6, <2>10, <2>14, <2>15 DEF GreenfieldTypeOK
    <2>17. OwnerFollowsLast'
      <3> SUFFICES ASSUME NEW t \in Scopes
                   PROVE  (IF Epoch(t) = 0 THEN owner[t] = None
                           ELSE /\ owner[t] # None
                                /\ owner[t].epoch = Epoch(t)
                                /\ Owned(t) <=> Current(t).state = "active")'
        BY DEF OwnerFollowsLast
      <3>1. CASE t # s
        BY SMTT(30), <1>0, <2>6, <2>10, <3>1 DEF OwnerFollowsLast, Current, Owned
      <3>2. CASE t = s
        BY <1>3, <2>4, <2>6, <2>8, <2>10, <2>11, <3>2
      <3> QED
        BY <3>1, <3>2
    <2>18. ReceiptsName'
      <3>1. \A j \in Keys : asked[j] # None => asked[j].scope \in Scopes
        BY <1>0, RequestFields DEF GreenfieldTypeOK
      <3>2. asked[k] # None /\ asked[k].scope = s
        BY <1>1, <1>2, RequestFields
      <3>3. Epoch(s) <= Epoch(s)
        BY <1>0, RowShapes
      <3>4. \A j \in Keys : asked[j] # None => Epoch(asked[j].scope)' = Epoch(asked[j].scope)
        BY <1>4, <2>6, <3>1
      <3> QED
        BY <1>0, <1>4, <2>15, <3>2, <3>3, <3>4 DEF ReceiptsName
    <2>19. HandlerFollowsReceipt'
      BY <2>14 DEF HandlerFollowsReceipt, Idle
    <2>20. NoOverlappingActiveOwners'
      BY ZenonT(40), <1>0, <2>10, <2>12, OverlapAssumption DEF NoOverlappingActiveOwners, Owned
    <2>21. IInv'
      BY <2>6, <2>16, <2>17, <2>18, <2>19, <2>20 DEF IInv
    <2> QED
      BY <1>3, <2>2, <2>4, <2>6, <2>8, <2>10, <2>11, <2>12, <2>21
  <1> QED
    BY <1>2, <1>6, <1>7 DEF Activate

\* A first transaction: it replays, adopts the pending row, or opens an epoch.
LEMMA CreateFacts ==
    ASSUME IInv, Create
    PROVE  /\ IInv'
           /\ \/ UNCHANGED <<enabled, owner>>
              \/ \E s \in Scopes :
                    /\ Epoch(s) = 0 \/ Current(s).state \notin Live
                    /\ Epoch(s)' = Epoch(s) + 1
                    /\ \A n \in 1 .. Epoch(s) : enabled'[s][n] = enabled[s][n]
                    /\ enabled'[s][Epoch(s) + 1].binding = "pending"
                    /\ ~Owned(s)'
                    /\ \A t \in Scopes : t # s => enabled'[t] = enabled[t] /\ owner'[t] = owner[t]
  <1>0. GreenfieldTypeOK /\ RowsFollowState /\ OwnerFollowsLast /\ ReceiptsName
        /\ HandlerFollowsReceipt /\ NoOverlappingActiveOwners
    BY DEF IInv
  <1>1. at.step = "create" /\ at.req \in Requests /\ at.era \in Nat
    BY <1>0 DEF Create, HandlerFollowsReceipt, GreenfieldTypeOK
  <1>2. PICK r \in Requests : r = at.req
    BY <1>1
  <1>3. r.scope \in Scopes /\ r.key \in Keys /\ r # None
    BY RequestFields
  <1>4. UNCHANGED society
    BY DEF Create
  <1> DEFINE AtType == at' \in [step : {"idle", "create", "verify", "rollback", "activate"},
                                req : Requests \union {None}, era : Nat, epoch : Nat]
             AnswerType == answer' \in [is : {"none", "active", "refused", "unavailable"},
                                        req : Requests \union {None},
                                        society : Societies \union {None}]
  <1>5. CASE UNCHANGED <<enabled, owner, asked, taken>>
    <2>1. \/ at' = [at EXCEPT !.step = "verify"] /\ asked[r.key] = r /\ UNCHANGED answer
          \/ at' = Idle /\ answer' = [is |-> "refused", req |-> r, society |-> None]
      <3>1. CASE asked[r.key] = r
        BY <1>2, <3>1 DEF Create
      <3>2. CASE asked[r.key] # r
        <4>1. asked[r.key] = None => asked'[r.key] = r \/ End("refused", None)
          BY <1>0, <1>2, <1>3, <3>2 DEF Create, GreenfieldTypeOK
        <4>2. End("refused", None)
          BY <1>2, <1>3, <1>5, <3>2, <4>1 DEF Create
        <4> QED
          BY <1>2, <4>2 DEF End, Answered
      <3> QED
        BY <3>1, <3>2
    <2>2. AtType /\ AnswerType
      <3>1. CASE at' = [at EXCEPT !.step = "verify"] /\ UNCHANGED answer
        BY <1>0, <3>1 DEF GreenfieldTypeOK
      <3>2. CASE at' = Idle /\ answer' = [is |-> "refused", req |-> r, society |-> None]
        BY <3>2 DEF Idle
      <3> QED
        BY <2>1, <3>1, <3>2
    <2>3. GreenfieldTypeOK'
      BY <1>0, <1>4, <1>5, <2>2 DEF GreenfieldTypeOK
    <2>4. HandlerFollowsReceipt'
      <3>1. CASE at' = [at EXCEPT !.step = "verify"] /\ asked[r.key] = r
        <4>1. at'.req = r
          BY <1>0, <1>2, <3>1 DEF GreenfieldTypeOK
        <4> QED
          BY <1>5, <3>1, <4>1 DEF HandlerFollowsReceipt
      <3>2. CASE at' = Idle
        BY <3>2 DEF HandlerFollowsReceipt, Idle
      <3> QED
        BY <2>1, <3>1, <3>2
    <2> QED
      BY <1>0, <1>5, <2>3, <2>4 DEF IInv, RowsFollowState, OwnerFollowsLast, ReceiptsName,
         NoOverlappingActiveOwners, Epoch, Current, Owned
  <1>6. CASE /\ asked[r.key] = None
             /\ \/ Epoch(r.scope) > 0 /\ UNCHANGED <<enabled, owner>>
                \/ /\ Epoch(r.scope) = 0 \/ Current(r.scope).state \notin Live
                   /\ NewEpoch(r)
             /\ asked' = [asked EXCEPT ![r.key] = r]
             /\ at' = [at EXCEPT !.step = "verify"]
             /\ UNCHANGED <<taken, answer>>
    <2>1. asked' \in [Keys -> Requests \union {None}]
          /\ asked'[r.key] = r
          /\ \A k \in Keys : k # r.key => asked'[k] = asked[k]
      BY <1>0, <1>3, <1>6 DEF GreenfieldTypeOK
    <2>2. AtType /\ AnswerType /\ at'.req = r
      BY <1>0, <1>2, <1>6 DEF GreenfieldTypeOK
    <2>3. HandlerFollowsReceipt'
      BY <2>1, <2>2 DEF HandlerFollowsReceipt
    <2>4. /\ enabled' \in [Scopes -> Seq(EnablementRow)]
          /\ owner' \in [Scopes -> OwnerRow \union {None}]
          /\ RowsFollowState' /\ OwnerFollowsLast' /\ NoOverlappingActiveOwners'
          /\ \A s \in Scopes : Epoch(s)' >= Epoch(s)
          /\ Epoch(r.scope)' > 0
      <3>1. CASE Epoch(r.scope) > 0 /\ UNCHANGED <<enabled, owner>>
        <4>1. \A s \in Scopes : Epoch(s) \in Nat
          BY <1>0, RowShapes
        <4> QED
          BY <1>0, <3>1, <4>1 DEF GreenfieldTypeOK, RowsFollowState, OwnerFollowsLast,
             NoOverlappingActiveOwners, Epoch, Current, Owned
      <3>2. CASE /\ Epoch(r.scope) = 0 \/ Current(r.scope).state \notin Live
                 /\ NewEpoch(r)
        BY <1>0, <1>1, <1>3, <1>4, <1>6, <3>2, NewEpochFacts, RowShapes
      <3> QED
        BY <1>6, <3>1, <3>2
    <2>5. GreenfieldTypeOK'
      BY <1>0, <1>4, <1>6, <2>1, <2>2, <2>4 DEF GreenfieldTypeOK
    <2>6. ReceiptsName'
      <3>1. ASSUME NEW k \in Keys, asked'[k] # None PROVE Epoch(asked[k].scope)' > 0
        <4>1. CASE k = r.key
          BY <2>1, <2>4, <4>1
        <4>2. CASE k # r.key
          <5>1. asked[k] # None /\ asked'[k] = asked[k] /\ Epoch(asked[k].scope) > 0
            BY <1>0, <2>1, <3>1, <4>2 DEF ReceiptsName
          <5>2. asked[k].scope \in Scopes
            BY <1>0, <5>1, RequestFields DEF GreenfieldTypeOK
          <5>3. Epoch(asked[k].scope) \in Nat /\ Epoch(asked[k].scope)' \in Nat
            BY <1>0, <2>4, <5>1, <5>2, RowShapes DEF Epoch
          <5>4. Epoch(asked[k].scope)' >= Epoch(asked[k].scope)
            BY <2>4, <5>1, <5>2
          <5> QED
            BY <5>1, <5>3, <5>4
        <4> QED
          BY <4>1, <4>2
      <3>2. ASSUME NEW k \in Keys, taken'[k].activate # 0
            PROVE  asked'[k] # None /\ taken'[k].activate <= Epoch(asked[k].scope)'
        <4>1. asked[k] # None /\ taken[k].activate <= Epoch(asked[k].scope) /\ k # r.key
          BY <1>0, <1>6, <3>2 DEF ReceiptsName
        <4>2. taken[k].activate \in Nat /\ asked[k].scope \in Scopes
          BY <1>0, <4>1, RequestFields DEF GreenfieldTypeOK
        <4>3. Epoch(asked[k].scope)' >= Epoch(asked[k].scope)
          BY <2>1, <2>4, <4>1, <4>2
        <4>4. Epoch(asked[k].scope) \in Nat /\ Epoch(asked[k].scope)' \in Nat
          BY <1>0, <2>1, <2>4, <4>1, <4>2, RowShapes DEF Epoch
        <4> QED
          BY <1>6, <2>1, <4>1, <4>2, <4>3, <4>4
      <3> QED
        BY <3>1, <3>2 DEF ReceiptsName
    <2>7. IInv'
      BY <2>3, <2>4, <2>5, <2>6 DEF IInv
    <2>8. CASE UNCHANGED <<enabled, owner>>
      BY <2>7, <2>8
    <2>9. CASE /\ Epoch(r.scope) = 0 \/ Current(r.scope).state \notin Live
               /\ NewEpoch(r)
      BY <1>1, <1>3, <1>4, <1>6, <2>7, <2>9, NewEpochFacts
    <2> QED
      BY <1>6, <2>8, <2>9
  <1>7. Epoch(r.scope) > 0 \/ Epoch(r.scope) = 0
    BY <1>0, <1>3, RowShapes
  <1>8. \/ Epoch(r.scope) = 0
        \/ Current(r.scope).state = "bindings_created"
        \/ Current(r.scope).state \notin Live
        \/ Current(r.scope).state = "active"
    BY DEF Live
  <1>9. ~Owned(r.scope) /\ Epoch(r.scope) > 0 => Current(r.scope).state # "active"
    BY <1>0, <1>3 DEF OwnerFollowsLast
  <1>10. CASE asked[r.key] = r
    <2>1. UNCHANGED durable
      BY <1>2, <1>10 DEF Create
    <2> QED
      BY <1>5, <2>1 DEF durable
  <1>11. CASE asked[r.key] # r
    <2>1. CASE End("refused", None) /\ UNCHANGED durable
      BY <1>5, <2>1 DEF durable
    <2>2. CASE /\ asked[r.key] = None
               /\ asked' = [asked EXCEPT ![r.key] = r]
               /\ at' = [at EXCEPT !.step = "verify"]
               /\ UNCHANGED <<taken, answer>>
               /\ \/ /\ Epoch(r.scope) > 0 /\ Current(r.scope).state = "bindings_created"
                     /\ UNCHANGED <<enabled, owner>>
                  \/ /\ Epoch(r.scope) = 0 \/ Current(r.scope).state # "bindings_created"
                     /\ OwnerExpected(r.scope, r.expects)
                     /\ NewEpoch(r)
      <3>1. OwnerExpected(r.scope, r.expects) => ~Owned(r.scope)
        BY DEF OwnerExpected, Owned
      <3> QED
        BY <1>6, <1>7, <1>8, <1>9, <2>2, <3>1
    <2> QED
      BY <1>2, <1>7, <1>11, <2>1, <2>2 DEF Create
  <1> QED
    BY <1>10, <1>11

\* A step that leaves the tables alone keeps what is said of them.
LEMMA TablesUntouched ==
    ASSUME IInv, UNCHANGED durable, GreenfieldTypeOK', HandlerFollowsReceipt'
    PROVE  IInv'
  BY DEF IInv, durable, RowsFollowState, OwnerFollowsLast, ReceiptsName,
     NoOverlappingActiveOwners, Epoch, Current, Owned

\* The steps that only read the tables.
LEMMA ReadingSteps ==
    ASSUME IInv, (\E r \in Requests : Enable(r)) \/ Verify \/ Die
    PROVE  IInv' /\ UNCHANGED <<enabled, owner>>
  <1>0. GreenfieldTypeOK /\ RowsFollowState /\ ReceiptsName /\ HandlerFollowsReceipt
    BY DEF IInv
  <1>1. CASE \E r \in Requests : Enable(r)
    <2>1. PICK r \in Requests : Enable(r)
      BY <1>1
    <2>2. UNCHANGED durable /\ UNCHANGED society
      BY <2>1 DEF Enable
    <2>3. r.scope \in Scopes /\ r.society \in Societies
      BY RequestFields
    <2>4. society[r.society].era \in Nat
      BY <1>0, <2>3 DEF GreenfieldTypeOK
    <2>5. Epoch(r.scope) > 0 => Current(r.scope).society \in Societies
      <3>1. Epoch(r.scope) > 0 => Epoch(r.scope) \in 1 .. Epoch(r.scope)
        BY <1>0, <2>3, RowShapes
      <3>2. Epoch(r.scope) > 0 => Current(r.scope) \in EnablementRow
        BY <1>0, <2>3, <3>1, RowShapes DEF Current
      <3> QED
        BY <3>2 DEF EnablementRow
    <2>6. CASE /\ Epoch(r.scope) > 0
               /\ Answered("active", r, Current(r.scope).society)
               /\ UNCHANGED at
      <3>1. GreenfieldTypeOK'
        BY <1>0, <2>2, <2>5, <2>6 DEF GreenfieldTypeOK, Answered, durable
      <3>2. HandlerFollowsReceipt'
        BY <1>0, <2>2, <2>6 DEF HandlerFollowsReceipt, durable
      <3> QED
        BY <2>2, <3>1, <3>2, TablesUntouched DEF durable
    <2>7. CASE /\ at' = [step |-> "create", req |-> r, era |-> society[r.society].era,
                          epoch |-> 0]
               /\ answer' = NoAnswer
      <3>1. GreenfieldTypeOK'
        BY <1>0, <2>2, <2>4, <2>7 DEF GreenfieldTypeOK, NoAnswer, durable
      <3>2. HandlerFollowsReceipt'
        BY <2>7 DEF HandlerFollowsReceipt
      <3> QED
        BY <2>2, <3>1, <3>2, TablesUntouched DEF durable
    <2> QED
      BY <2>1, <2>6, <2>7 DEF Enable
  <1>2. CASE Verify
    <2>1. UNCHANGED durable /\ UNCHANGED society
      BY <1>2 DEF Verify
    <2>2. at.step = "verify" /\ at.req \in Requests /\ asked[at.req.key] = at.req
      BY <1>0, <1>2 DEF Verify, HandlerFollowsReceipt
    <2>3. at.req.scope \in Scopes /\ at.req.key \in Keys /\ at.req # None
      BY <2>2, RequestFields
    <2>4. Epoch(at.req.scope) \in Nat /\ Epoch(at.req.scope) > 0
      BY <1>0, <2>2, <2>3, RequestFields, RowShapes DEF ReceiptsName
    <2>5. Current(at.req.scope).society \in Societies
      <3>1. Current(at.req.scope) \in EnablementRow
        BY <1>0, <2>3, <2>4, RowShapes DEF Current
      <3> QED
        BY <3>1 DEF EnablementRow
    <2>6. \/ /\ at' = Idle
             /\ \/ answer' = [is |-> "active", req |-> at.req,
                              society |-> Current(at.req.scope).society]
                \/ answer' = [is |-> "refused", req |-> at.req, society |-> None]
                \/ answer' = [is |-> "unavailable", req |-> at.req, society |-> None]
          \/ /\ \/ at' = [at EXCEPT !.epoch = Epoch(at.req.scope), !.step = "rollback"]
                \/ at' = [at EXCEPT !.epoch = Epoch(at.req.scope), !.step = "activate"]
             /\ UNCHANGED answer
      BY <1>2 DEF Verify, End, Answered
    <2>7. answer' \in [is : {"none", "active", "refused", "unavailable"},
                       req : Requests \union {None}, society : Societies \union {None}]
      BY <1>0, <2>2, <2>5, <2>6 DEF GreenfieldTypeOK
    <2>8. CASE at' = Idle
      <3>1. GreenfieldTypeOK'
        BY <1>0, <2>1, <2>7, <2>8 DEF GreenfieldTypeOK, Idle, durable
      <3>2. HandlerFollowsReceipt'
        BY <2>8 DEF HandlerFollowsReceipt, Idle
      <3> QED
        BY <2>1, <3>1, <3>2, TablesUntouched DEF durable
    <2>9. CASE \/ at' = [at EXCEPT !.epoch = Epoch(at.req.scope), !.step = "rollback"]
               \/ at' = [at EXCEPT !.epoch = Epoch(at.req.scope), !.step = "activate"]
      <3>1. at' \in [step : {"idle", "create", "verify", "rollback", "activate"},
                     req : Requests \union {None}, era : Nat, epoch : Nat]
            /\ at'.req = at.req
        BY <1>0, <2>4, <2>9 DEF GreenfieldTypeOK
      <3>2. GreenfieldTypeOK'
        BY <1>0, <2>1, <2>7, <3>1 DEF GreenfieldTypeOK, durable
      <3>3. HandlerFollowsReceipt'
        BY <2>1, <2>2, <3>1 DEF HandlerFollowsReceipt, durable
      <3> QED
        BY <2>1, <3>2, <3>3, TablesUntouched DEF durable
    <2> QED
      BY <2>6, <2>8, <2>9
  <1>3. CASE Die
    <2>1. GreenfieldTypeOK'
      BY <1>0, <1>3 DEF Die, GreenfieldTypeOK, Idle, durable
    <2>2. HandlerFollowsReceipt'
      BY <1>3 DEF Die, HandlerFollowsReceipt, Idle
    <2> QED
      BY <1>3, <2>1, <2>2, TablesUntouched DEF Die, durable
  <1> QED
    BY <1>1, <1>2, <1>3

\* byom moves; Kovee's tables do not.
LEMMA SocietyMoves ==
    ASSUME IInv, \E so \in Societies : Turn(so) \/ Recover(so)
    PROVE  IInv' /\ UNCHANGED <<enabled, owner>>
  <1>0. GreenfieldTypeOK /\ HandlerFollowsReceipt
    BY DEF IInv
  <1>1. PICK so \in Societies : Turn(so) \/ Recover(so)
    OBVIOUS
  <1>2. UNCHANGED durable /\ UNCHANGED <<at, answer>>
    BY <1>1 DEF Turn, Recover
  <1>3. society[so].era + 1 \in Nat
    BY <1>0 DEF GreenfieldTypeOK
  <1>4. society' \in [Societies -> [active : BOOLEAN, era : Nat]]
    <2>0. society \in [Societies -> [active : BOOLEAN, era : Nat]]
      BY <1>0 DEF GreenfieldTypeOK
    <2>1. CASE Turn(so)
      <3>1. PICK on \in BOOLEAN : on = ~society[so].active
        OBVIOUS
      <3>2. society' = [society EXCEPT ![so].active = on]
        BY <2>1, <3>1 DEF Turn
      <3> QED
        BY <2>0, <3>2
    <2>2. CASE Recover(so)
      BY <1>3, <2>0, <2>2 DEF Recover
    <2> QED
      BY <1>1, <2>1, <2>2
  <1>5. GreenfieldTypeOK'
    BY <1>0, <1>2, <1>4 DEF GreenfieldTypeOK, durable
  <1>6. HandlerFollowsReceipt'
    BY <1>0, <1>2 DEF HandlerFollowsReceipt, durable
  <1> QED
    BY <1>2, <1>5, <1>6, TablesUntouched DEF durable

\* Every step keeps the inductive invariant.
LEMMA NextIInv == IInv /\ [GreenfieldNext]_vars => IInv'
  <1> SUFFICES ASSUME IInv, [GreenfieldNext]_vars PROVE IInv'
    OBVIOUS
  <1>1. CASE (\E r \in Requests : Enable(r)) \/ Verify \/ Die
    BY <1>1, ReadingSteps
  <1>2. CASE Create
    BY <1>2, CreateFacts
  <1>3. CASE RollBack
    BY <1>3, RollBackFacts
  <1>4. CASE Activate
    BY <1>4, ActivateFacts
  <1>5. ASSUME NEW s \in Scopes, NEW n \in 1 .. Epoch(s), Disable(s, n) PROVE IInv'
    BY <1>5, DisableFacts
  <1>6. CASE \E so \in Societies : Turn(so) \/ Recover(so)
    BY <1>6, SocietyMoves
  <1>7. CASE UNCHANGED vars
    <2>1. GreenfieldTypeOK' /\ HandlerFollowsReceipt'
      BY <1>7 DEF vars, durable, IInv, GreenfieldTypeOK, HandlerFollowsReceipt
    <2> QED
      BY <1>7, <2>1, TablesUntouched DEF vars
  <1> QED
    BY <1>1, <1>2, <1>3, <1>4, <1>5, <1>6, <1>7 DEF GreenfieldNext

-----------------------------------------------------------------------------
(* The theorems.                                                           *)

\* Every variable of the greenfield saga keeps its shape.
THEOREM GreenfieldTypeSafe == GreenfieldSpec => []GreenfieldTypeOK
  <1>1. IInv => GreenfieldTypeOK
    BY DEF IInv
  <1> QED
    BY InitIInv, NextIInv, <1>1, PTL DEF GreenfieldSpec

\* However many scopes overlap, however many commands race, die or are sent
\* again, no two overlapping scopes are owned by byom at the same time.
THEOREM NoOverlapSafe == GreenfieldSpec => []NoOverlappingActiveOwners
  <1>1. IInv => NoOverlappingActiveOwners
    BY DEF IInv
  <1> QED
    BY InitIInv, NextIInv, <1>1, PTL DEF GreenfieldSpec

\* What active_seam finds active is the latest epoch, and the owner's.
THEOREM SeamSafe == GreenfieldSpec => []SeamIsOwned
  <1>1. ASSUME IInv PROVE SeamIsOwned
    <2> SUFFICES ASSUME NEW s \in Scopes, NEW n \in 1 .. Epoch(s),
                        \/ enabled[s][n].binding = "active"
                        \/ enabled[s][n].mapping = "active"
                        \/ enabled[s][n].state = "active"
                 PROVE  /\ n = Epoch(s)
                        /\ Owned(s) /\ owner[s].epoch = n
                        /\ enabled[s][n].binding = "active" /\ enabled[s][n].mapping = "active"
      BY DEF SeamIsOwned
    <2>1. GreenfieldTypeOK /\ RowsFollowState /\ OwnerFollowsLast
      BY <1>1 DEF IInv
    <2>2. enabled[s][n].state = "active"
      BY <2>1 DEF RowsFollowState, Live
    <2>3. n = Epoch(s)
      BY <2>1, <2>2 DEF RowsFollowState, Live
    <2> QED
      BY <2>1, <2>2, <2>3, RowShapes DEF RowsFollowState, OwnerFollowsLast, Current
  <1> QED
    BY InitIInv, NextIInv, <1>1, PTL DEF GreenfieldSpec

-----------------------------------------------------------------------------
(* The refinement.                                                         *)

\* What the mapped variables are, for a scope.
LEMMA Mapped ==
    ASSUME IInv, NEW s \in Scopes
    PROVE  /\ Owned(s) => owner[s].epoch = Epoch(s) /\ Epoch(s) # 0
           /\ Epoch(s) \in Nat
           /\ Epoch(s) # 0 => (Current(s).state \in Live <=> Current(s).binding # "void")
           /\ Epoch(s) # 0 => (Owned(s) <=> Current(s).binding = "active")
  <1>1. GreenfieldTypeOK /\ RowsFollowState /\ OwnerFollowsLast
    BY DEF IInv
  <1>2. Epoch(s) \in Nat
    BY <1>1, RowShapes
  <1>3. Owned(s) => owner[s].epoch = Epoch(s) /\ Epoch(s) # 0
    BY <1>1 DEF OwnerFollowsLast, Owned
  <1>4. Epoch(s) # 0 => Epoch(s) \in 1 .. Epoch(s)
    BY <1>2
  <1>5. Epoch(s) # 0 => (Current(s).state \in Live <=> Current(s).binding # "void")
    BY <1>1, <1>4 DEF RowsFollowState, Current, Live
  <1>6. Epoch(s) # 0 => (Current(s).state = "active" <=> Current(s).binding = "active")
    BY <1>1, <1>4 DEF RowsFollowState, Current, Live
  <1> QED
    BY <1>1, <1>2, <1>3, <1>5, <1>6 DEF OwnerFollowsLast

\* A step that leaves the tables alone stutters.
LEMMA Stutters ==
    UNCHANGED <<enabled, owner>> => UNCHANGED Authority!vars
  BY DEF Authority!vars, Epoch, Owned

\* The three that do not are the abstract steps.
LEMMA Maps == IInv /\ [GreenfieldNext]_vars => [Authority!Next]_Authority!vars
  <1> SUFFICES ASSUME IInv, [GreenfieldNext]_vars PROVE [Authority!Next]_Authority!vars
    OBVIOUS
  <1> DEFINE Opened == [s \in Scopes |-> Epoch(s)]
             Void(s) == {n \in 1 .. Epoch(s) : enabled[s][n].binding = "void"}
             Spent  == [s \in Scopes |-> Void(s)]
             Holds(s) == IF Owned(s) THEN owner[s].epoch ELSE 0
             Holder == [s \in Scopes |-> Holds(s)]
  <1>1. CASE UNCHANGED <<enabled, owner>>
    BY <1>1, Stutters
  <1>2. ASSUME NEW s \in Scopes,
               Epoch(s) = 0 \/ Current(s).state \notin Live,
               Epoch(s)' = Epoch(s) + 1,
               \A n \in 1 .. Epoch(s) : enabled'[s][n] = enabled[s][n],
               enabled'[s][Epoch(s) + 1].binding = "pending",
               ~Owned(s)',
               \A t \in Scopes : t # s => enabled'[t] = enabled[t] /\ owner'[t] = owner[t]
        PROVE  Authority!Next
    <2>1. Epoch(s) \in Nat /\ ~Owned(s)
      BY <1>2, Mapped DEF Live
    <2>2. Epoch(s) # 0 => Epoch(s) \in Void(s)
      BY <1>2, <2>1, Mapped DEF Current
    <2>3. Void(s)' = Void(s)
      BY <1>2, <2>1
    <2>4. \A t \in Scopes : t # s => Epoch(t)' = Epoch(t) /\ Void(t)' = Void(t) /\ Holds(t)' = Holds(t)
      BY <1>2 DEF Epoch, Owned
    <2>5. Holds(s) = 0 /\ Holds(s)' = 0
      BY <1>2, <2>1
    <2> HIDE DEF Void, Holds
    <2>6. Opened' = [Opened EXCEPT ![s] = @ + 1]
      BY <1>2, <2>4
    <2>7. Spent' = Spent /\ Holder' = Holder
      BY <2>3, <2>4, <2>5
    <2>8. /\ Holder[s] = 0
          /\ Opened[s] # 0 => Opened[s] \in Spent[s]
      BY <2>2, <2>5
    <2>9. Authority!Open(s)
      BY <2>6, <2>7, <2>8 DEF Authority!Open, Void, Holds
    <2> QED
      BY <2>9 DEF Authority!Next
  <1>3. ASSUME NEW s \in Scopes,
               Epoch(s) > 0, Current(s).binding = "pending", ~Owned(s),
               \A t \in Scopes : <<s, t>> \in Overlap => ~Owned(t),
               Current(s)'.binding = "active",
               \A t \in Scopes : Epoch(t)' = Epoch(t),
               \A t \in Scopes : \A j \in 1 .. Epoch(t) :
                   t # s \/ j # Epoch(t) => enabled'[t][j] = enabled[t][j],
               Owned(s)', owner'[s].epoch = Epoch(s),
               \A t \in Scopes : t # s => owner'[t] = owner[t]
        PROVE  Authority!Next
    <2>1. Epoch(s) \in Nat /\ Epoch(s) # 0
      BY <1>3, Mapped
    <2>2. Epoch(s) \notin Void(s)
      BY <1>3 DEF Current
    <2>3. \A t \in Scopes : Void(t)' = Void(t)
      <3> TAKE t \in Scopes
      <3>1. CASE t # s
        BY <1>3, <3>1
      <3>2. CASE t = s
        BY <1>3, <2>1, <3>2 DEF Current
      <3> QED
        BY <3>1, <3>2
    <2>4. \A t \in Scopes : t # s => Holds(t)' = Holds(t)
      BY <1>3 DEF Owned
    <2>5. Holds(s) = 0 /\ Holds(s)' = Epoch(s)
      BY <1>3
    <2>6. \A t \in Scopes : <<s, t>> \in Overlap => Holds(t) = 0
      BY <1>3
    <2> HIDE DEF Void, Holds
    <2>7. Opened' = Opened /\ Spent' = Spent
      BY <1>3, <2>3
    <2>8. Holder' = [Holder EXCEPT ![s] = Opened[s]]
      BY <2>4, <2>5
    <2>9. /\ Holder[s] = 0
          /\ Opened[s] # 0 /\ Opened[s] \notin Spent[s]
          /\ \A t \in Scopes : <<s, t>> \in Overlap => Holder[t] = 0
      BY <2>1, <2>2, <2>5, <2>6
    <2>10. Authority!Take(s)
      BY <2>7, <2>8, <2>9 DEF Authority!Take, Void, Holds
    <2> QED
      BY <2>10 DEF Authority!Next
  <1>4. ASSUME NEW s \in Scopes,
               Epoch(s) > 0, Current(s).binding # "void", Current(s)'.binding = "void",
               \A t \in Scopes : Epoch(t)' = Epoch(t),
               \A t \in Scopes : \A j \in 1 .. Epoch(t) :
                   t # s \/ j # Epoch(t) => enabled'[t][j] = enabled[t][j],
               ~Owned(s)',
               \A t \in Scopes : t # s => owner'[t] = owner[t]
        PROVE  Authority!Next
    <2>1. Epoch(s) \in Nat /\ Epoch(s) # 0
      BY <1>4, Mapped
    <2>2. Epoch(s) \notin Void(s)
      BY <1>4 DEF Current
    <2>3. Void(s)' = Void(s) \union {Epoch(s)}
      <3>1. \A n : n \in Void(s)' <=> n \in Void(s) \/ n = Epoch(s)
        BY <1>4, <2>1 DEF Current
      <3> HIDE DEF Void
      <3> QED
        BY <3>1
    <2>4. \A t \in Scopes : t # s => Void(t)' = Void(t) /\ Holds(t)' = Holds(t)
      BY <1>4 DEF Owned
    <2>5. Holds(s)' = 0
      BY <1>4
    <2> HIDE DEF Void, Holds
    <2>6. Opened' = Opened
      BY <1>4
    <2>7. Spent' = [Spent EXCEPT ![s] = @ \union {Opened[s]}]
      BY <2>3, <2>4
    <2>8. Holder' = [Holder EXCEPT ![s] = 0]
      BY <2>4, <2>5
    <2>9. Opened[s] # 0 /\ Opened[s] \notin Spent[s]
      BY <2>1, <2>2
    <2>10. Authority!Spend(s)
      BY <2>6, <2>7, <2>8, <2>9 DEF Authority!Spend, Void, Holds
    <2> QED
      BY <2>10 DEF Authority!Next
  <1>5. CASE (\E r \in Requests : Enable(r)) \/ Verify \/ Die
    BY <1>1, <1>5, ReadingSteps
  <1>6. CASE Create
    BY <1>1, <1>2, <1>6, CreateFacts
  <1>7. CASE RollBack
    <2>1. ASSUME NEW s \in Scopes,
                 Epoch(s) > 0, Current(s).state = "bindings_created"
          PROVE  ~Owned(s) /\ Current(s).binding # "void"
      BY <2>1, Mapped DEF IInv, OwnerFollowsLast, Live
    <2>2. UNCHANGED owner
      BY <1>7 DEF RollBack
    <2>3. \A s \in Scopes : Owned(s)' <=> Owned(s)
      BY <2>2 DEF Owned
    <2> QED
      BY <1>1, <1>4, <1>7, <2>1, <2>2, <2>3, RollBackFacts
  <1>8. CASE Activate
    BY <1>1, <1>3, <1>8, ActivateFacts
  <1>9. ASSUME NEW s \in Scopes, NEW n \in 1 .. Epoch(s), Disable(s, n) PROVE Authority!Next
    BY <1>4, <1>9, DisableFacts, Mapped
  <1>10. CASE \E so \in Societies : Turn(so) \/ Recover(so)
    BY <1>1, <1>10, SocietyMoves
  <1>11. CASE UNCHANGED vars
    BY <1>1, <1>11 DEF vars, durable
  <1> QED
    BY <1>5, <1>6, <1>7, <1>8, <1>9, <1>10, <1>11 DEF GreenfieldNext

\* The greenfield saga implements ScopeAuthority: whatever it is interrupted
\* by, an epoch takes authority at most once and never after it was undone.
THEOREM GreenfieldImplements == GreenfieldSpec => AuthoritySpec
  <1>1. GreenfieldInit => Authority!Init
    BY DEF GreenfieldInit, Authority!Init, Epoch, Owned
  <1> QED
    BY InitIInv, NextIInv, Maps, <1>1, PTL DEF GreenfieldSpec, AuthoritySpec, Authority!Spec
=============================================================================
