------------------------- MODULE EpisodeTailProofs --------------------------
(***************************************************************************)
(* Proofs about EpisodeTail, for any Episodes, amounts and usages, any     *)
(* answer of byom and any crash: the pipeline keeps the order the ledger   *)
(* leaves to its callers, and what that order, with the steps of a tail,   *)
(* gives for the two ledgers.                                              *)
(*                                                                         *)
(* The inductive invariant says of each Episode what its reservation and   *)
(* its tail imply of byom's bridge (LocalOK, TailOK, SagasOK), and of the  *)
(* running operation what its earlier steps have established (CallOK), so  *)
(* that a Crash may fall after any of them.                                *)
(*                                                                         *)
(* The last section adds up the accounts: with the sums of SumProofs, what *)
(* the ledger's theorems say of one account (CapacityLedgerProofs) becomes *)
(* the balance of the realm when every tail is done.                       *)
(***************************************************************************)
EXTENDS EpisodeTail, CapacityLedgerProofs

Steps == {"none", "admit", "dispatch", "meter", "report", "ask", "apply", "settle",
          "settled", "terminalize", "unbind", "adopt", "release", "close"}

\* The steps after the settlement of a tail.
PastSettlement == {"settled", "terminalize", "unbind", "adopt", "release", "close"}

CallRow ==
    [op     : {"none", "admit", "settle", "meter", "evidence", "complete", "resume", "sweep"},
     key    : Keys \union {None},
     kind   : {"none", "attempt", "model", "complete"},
     charge : Nat,
     step   : Steps,
     from   : {"none"} \union Unfinished,
     answer : [is : {"none", "settled", "denied", "unknown", "no_token", "maxed"},
               charge : Nat]]

TailTypeOK ==
    /\ binding \in [Keys -> {"none", "bound", "fenced", "released"}]
    /\ tail \in [Keys -> TailPhase]
    /\ effect \in [Keys -> {"none", "dispatching", "observed", "ambiguous"}]
    /\ spent \in [Keys -> Nat]
    /\ reported \in [Keys -> BOOLEAN]
    /\ mode \in {"down", "settlements", "tails", "serving"}
    /\ created \in Seq(Sagas)
    /\ sagasToDo \subseteq Sagas
    /\ tailsToDo \subseteq Keys
    /\ call \in CallRow
    /\ bridge \in [Keys -> {"none", "confirmed", "settled", "maxed"}]
    /\ byomCharged \in [Keys -> Nat]
    /\ terminal \in [Keys -> BOOLEAN]
    /\ late \in [Keys -> SUBSET Nat]
    /\ lateComplete \in [Keys -> BOOLEAN]

\* The reservation: what is held and charged follows from the record's state.
LocalOK(e) ==
    /\ state[e] \in {"absent", "requested", "confirmed", "settled", "released"}
    /\ holdState[e] \in {"none", "reserved", "released"}
    /\ state[e] = "absent" <=> holdState[e] = "none"
    /\ state[e] \in {"requested", "confirmed"} => holdState[e] = "reserved"
    /\ state[e] = "released" => holdState[e] = "released"
    /\ state[e] \in {"absent", "requested", "confirmed"} =>
          charged[e] = 0 /\ holdCharged[e][Unit] = 0

\* byom's bridge, and what it has been asked for.
BridgeOK(e) ==
    /\ bridge[e] = "none" => binding[e] = "none" /\ late[e] = {} /\ ~lateComplete[e] /\ ~terminal[e]
    /\ bridge[e] # "none" => state[e] # "absent"
    /\ bridge[e] = "maxed" => terminal[e]
    /\ terminal[e] => bridge[e] \in {"settled", "maxed"} /\ late[e] = {} /\ ~lateComplete[e]
    /\ state[e] \in {"settled", "released"} => bridge[e] = "settled"
    /\ state[e] = "confirmed" =>
          /\ ~lateComplete[e]
          /\ \A c \in late[e] : c <= amount[e][Unit]
          /\ bridge[e] = "settled" => byomCharged[e] <= amount[e][Unit]

\* The tail: nothing is let go before the binding, the binding not before the
\* settlement.
TailOK(e) ==
    /\ tail[e] # "none" => binding[e] # "none"
    /\ tail[e] \in {"peer_pending", "releasing", "done"} => state[e] # "confirmed"
    /\ tail[e] \in {"releasing", "done"} => binding[e] = "released"
    /\ tail[e] = "done" => holdState[e] = "released"
    /\ holdState[e] = "released" => tail[e] \in {"releasing", "done"}

\* A settlement that was begun: within the items, and one charge on both sides
\* once the reservation is settled.
SagasOK ==
    /\ \A s \in Sagas : saga[s].phase # "none" =>
          /\ s[2] # "terminal"
          /\ saga[s].key = s[1] /\ saga[s].dim = Unit
          /\ saga[s].charge <= amount[s[1]][Unit]
          /\ state[s[1]] \notin {"absent", "requested"}
          /\ bridge[s[1]] # "none"
          /\ state[s[1]] \in {"settled", "released"} => charged[s[1]] = byomCharged[s[1]]
    /\ \A s \in sagasToDo : saga[s].phase # "none"

\* What the running operation has established, by the step it has reached.
CallOK ==
    LET e == call.key
    IN  /\ call.step = "none" => call = NoCall
        /\ call.step # "none" => e \in Keys /\ call.op # "none"
        /\ call.step = "admit" => state[e] # "absent" /\ bridge[e] = "none"
        /\ call.step \notin {"none", "admit"} => <<e, call.kind>> \in Sagas /\ bridge[e] # "none"
        /\ call.step = "ask" => call.charge <= amount[e][Unit] \/ state[e] # "confirmed"
        /\ call.step = "apply" /\ call.answer.is = "settled" =>
              bridge[e] = "settled" /\ byomCharged[e] = call.answer.charge
        /\ call.answer.is = "maxed" => bridge[e] = "maxed"
        /\ call.step = "unbind" => call.answer.is = "maxed" \/ bridge[e] = "settled"
        /\ call.step = "adopt" => bridge[e] = "maxed"
        /\ call.step \in {"release", "close"} =>
              bridge[e] = "settled" /\ binding[e] = "released" /\ tail[e] = "releasing"
        /\ call.step = "close" => holdState[e] = "released"

\* An operation that carries a tail, and the phase a resumed one was found in.
ResumeOK ==
    LET e == call.key
    IN  /\ call.op = "sweep" => call.step \in {"ask", "apply"}
        /\ call.step \in {"settle"} \union PastSettlement => call.op \in {"complete", "resume"}
        /\ call.step \in PastSettlement => state[e] \notin {"absent", "confirmed"}
        /\ call.op \in {"complete", "resume"} =>
              /\ call.from # "none" /\ binding[e] # "none"
              /\ call.step \in {"settle", "ask", "apply"} \union PastSettlement
              /\ holdState[e] = "released" => call.from = "releasing" \/ call.step = "close"
        /\ call.op = "complete" => call.from = "settling"
        /\ call.op = "resume" /\ call.from # "settling" =>
              /\ call.step \in PastSettlement \ {"settled"}
              /\ call.from = "releasing" => binding[e] = "released"

\* One operation at a time, each in its mode; the list of tails holds
\* unfinished ones, and what has left it is not held up.
ModeOK ==
    /\ call.step # "none" =>
          /\ call.op = "resume" => mode = "tails"
          /\ call.op = "sweep" => mode = "settlements"
          /\ call.op \notin {"resume", "sweep"} => mode = "serving"
    /\ mode = "tails" => \A e \in tailsToDo : tail[e] \in Unfinished /\ e # call.key
    /\ SweptTailsFinish

\* Between the transactions of a reserve, its admit waits and byom has not
\* been asked.
HandlerOK ==
    handler.step \in {"requested", "confirm"} =>
        /\ call.step = "admit" /\ call.key = handler.key
        /\ bridge[handler.key] = "none"
        /\ state[handler.key] = "requested"

LocalsOK  == \A e \in Keys : LocalOK(e)
BridgesOK == \A e \in Keys : BridgeOK(e)
TailsOK   == \A e \in Keys : TailOK(e)

TailInv ==
    /\ TailTypeOK /\ LocalsOK /\ BridgesOK /\ TailsOK
    /\ SagasOK /\ CallOK /\ ResumeOK /\ ModeOK /\ HandlerOK

Inv == SafeLedger /\ NextEventIsTrue /\ TailInv

\* Without the crash inside reserve, a reservation byom knows of is confirmed.
SteadyInv ==
    \A e \in Keys :
        /\ state[e] = "requested" =>
              handler.step \in {"requested", "confirm"} /\ handler.key = e
        /\ bridge[e] # "none" => state[e] # "requested"
        /\ state[e] \in {"settled", "released"} => charged[e] = byomCharged[e]
-----------------------------------------------------------------------------
(* The ledger: every step of the pipeline is one of its operations, called *)
(* in the order it leaves to its callers.                                  *)

LedgerMove == (ApiNext /\ Orderly) \/ UNCHANGED ledgerVars

\* No state changes, or one that nothing was settled or marked in.
LEMMA OrderKept ==
    ASSUME UNCHANGED <<state, charged>>
    PROVE  Orderly
BY DEF Orderly

\* subordinate_items offers an amount that the parent admits.
LEMMA NarrowedOffered ==
    ASSUME Inv, NEW e \in Keys, Narrows(e), Admissible(e, Narrowed(e))
    PROVE  Narrowed(e) \in Offers(e)
<1>1. ASSUME NEW d \in Dims
      PROVE  Narrowed(e)[d] \in Amounts(e)
  <2> DEFINE p == ParentItem[e][d]
             r == ledger[<<Realm, d>>]["remaining"]
  <2>1. p \in Nat  BY ParentItemAssumption
  <2>2. r \in Int /\ r >= 0
    <3>1. <<Realm, d>> \in Rows  BY DEF Rows, Accounts
    <3>2. "remaining" \in Flow!Fields  BY DEF Flow!Fields, Flow!Buckets
    <3> QED  BY <3>1, <3>2 DEF Inv, SafeLedger, NeverOverdrawn, LedgerTypeOK
  <2> HIDE DEF p, r
  <2>3. p \div 2 \in Nat  BY <2>1
  <2>4. Min({p \div 2, r}) \in Nat
    <3>1. PICK x \in {p \div 2, r} : \A y \in {p \div 2, r} : x <= y  BY <2>2, <2>3
    <3>2. Min({p \div 2, r}) \in {p \div 2, r}  BY <3>1 DEF Min
    <3> QED  BY <2>2, <2>3, <3>2
  <2>5. Narrowed(e)[d] = Min({p \div 2, r})  BY DEF Narrowed, p, r
  <2>6. Narrowed(e)[d] <= p  BY DEF Admissible, p
  <2> QED  BY <2>1, <2>4, <2>5, <2>6 DEF Amounts, p
<1>2. Narrowed(e) \in [Dims -> Amounts(e)]  BY <1>1 DEF Narrowed
<1> QED  BY <1>2 DEF Offers

\* A settlement that was begun, or found begun.
LEMMA BeginMoves ==
    ASSUME Inv, NEW s \in Sagas, s[1] \in Keys, NEW c \in Nat, Begins(s, c), Begin(s, c)
    PROVE  LedgerMove
<1>1. CASE saga[s].phase # "none"  BY <1>1 DEF Begin, sagaVars, LedgerMove
<1>2. CASE saga[s].phase = "none"
  <2>1. SettleBegin(s, s[1], Unit, c)  BY <1>2 DEF Begin
  <2>2. Unit \in Dims  BY UnitAssumption
  <2>3. amount[s[1]][Unit] \in Nat /\ c <= amount[s[1]][Unit]
    BY <1>2, <2>2 DEF Begins, WithinItems, Inv, SafeLedger, LedgerTypeOK
  <2>4. c \in 0 .. amount[s[1]][Unit]  BY <2>3
  <2>5. ApiNext  BY <2>1, <2>2, <2>4 DEF ApiNext, SettleStep
  <2>6. Orderly  BY <2>1, OrderKept DEF SettleBegin, recordVars
  <2> QED  BY <2>5, <2>6 DEF LedgerMove
<1> QED  BY <1>1, <1>2

\* A running settlement names its saga.
LEMMA CallSaga ==
    ASSUME Inv, call.step \notin {"none", "admit"}
    PROVE  /\ <<call.key, call.kind>> \in Sagas
           /\ call.key \in Keys /\ call.charge \in Nat /\ call.answer.charge \in Nat
<1>1. <<call.key, call.kind>> \in Sagas  BY DEF Inv, TailInv, CallOK
<1>2. call.key \in Keys  BY DEF Inv, TailInv, CallOK
<1> QED  BY <1>1, <1>2 DEF Inv, TailInv, TailTypeOK, CallRow

\* settle_commit, of a number both sides agree on.
LEMMA CommitMoves ==
    ASSUME Inv, At("apply"), call.answer.is = "settled",
           SettleCommit(<<call.key, call.kind>>, call.answer.charge)
    PROVE  LedgerMove
<1> DEFINE s == <<call.key, call.kind>>
           c == call.answer.charge
<1>1. s \in Sagas /\ call.key \in Keys /\ c \in Nat  BY CallSaga DEF At
<1>2. saga[s].phase # "none"  BY DEF SettleCommit
<1>3. /\ saga[s].key = call.key /\ saga[s].charge \in Nat
      /\ state[call.key] = "released" => charged[call.key] = byomCharged[call.key]
  BY <1>1, <1>2, SagaType DEF Inv, TailInv, SagasOK, SafeLedger
<1>4. c \in 0 .. saga[s].charge  BY <1>1, <1>3 DEF SettleCommit
<1>5. ApiNext  BY <1>1, <1>4 DEF ApiNext, SettleStep
<1>6. byomCharged[call.key] = c  BY DEF At, Inv, TailInv, CallOK
<1>7. state[call.key] \notin {"settled", "uncertain"}
  BY <1>1, <1>3 DEF SettleCommit, Inv, TailInv, LocalsOK, LocalOK
<1>8. /\ state' = [state EXCEPT ![call.key] = "settled"]
      /\ charged' = [charged EXCEPT ![call.key] = c]
  BY <1>3 DEF SettleCommit
<1>9. state \in [Keys -> ReservationState] /\ charged \in [Keys -> Nat]
  BY DEF Inv, SafeLedger, LedgerTypeOK
<1> HIDE DEF s, c
<1>10. Orderly  BY <1>1, <1>3, <1>6, <1>7, <1>8, <1>9 DEF Orderly
<1> QED  BY <1>5, <1>10 DEF LedgerMove

\* The stamps of a saga row.
LEMMA ResolveMoves ==
    ASSUME Inv, At("apply"),
           \/ SettleDenied(<<call.key, call.kind>>)
           \/ SettleUnknown(<<call.key, call.kind>>)
           \/ PeerAboveCap(<<call.key, call.kind>>, call.answer.charge)
    PROVE  LedgerMove
<1> DEFINE s == <<call.key, call.kind>>
<1>1. s \in Sagas /\ call.answer.charge \in Nat  BY CallSaga DEF At
<1>2. CASE SettleDenied(s) \/ SettleUnknown(s)
  <2>1. ApiNext  BY <1>1, <1>2 DEF ApiNext, SettleStep
  <2>2. Orderly  BY <1>2, OrderKept DEF SettleDenied, SettleUnknown, SettleResolve, recordVars
  <2> QED  BY <2>1, <2>2 DEF LedgerMove
<1>3. CASE PeerAboveCap(s, call.answer.charge)
  <2>1. saga[s].charge \in Nat  BY <1>1, <1>3, SagaType DEF PeerAboveCap, Inv, SafeLedger
  <2>2. PeerAboveCap(s, saga[s].charge + 1)  BY <1>3, <2>1 DEF PeerAboveCap
  <2>3. ApiNext  BY <1>1, <2>2 DEF ApiNext, SettleStep
  <2>4. Orderly  BY <1>3, OrderKept DEF PeerAboveCap, recordVars
  <2> QED  BY <2>3, <2>4 DEF LedgerMove
<1> QED  BY <1>2, <1>3

\* The transactions an operation of the ledger leaves for after its first one.
LEMMA ContinueMoves ==
    ASSUME Inv, Continue
    PROVE  LedgerMove
<1>1. ApiNext  BY DEF ApiNext
<1>2. state \in [Keys -> ReservationState]  BY DEF Inv, SafeLedger, LedgerTypeOK
<1>3. CASE handler.step = "confirm"
  <2>1. state[handler.key] = "requested"  BY <1>3 DEF Inv, TailInv, HandlerOK
  <2>2. state' = [state EXCEPT ![handler.key] = "confirmed"] /\ charged' = charged
    BY <1>3 DEF Continue, Confirm
  <2> QED  BY <1>1, <1>2, <2>1, <2>2 DEF Orderly, LedgerMove
<1>4. CASE handler.step # "confirm"
  <2>1. UNCHANGED <<state, charged>>  BY <1>4 DEF Continue, Announce
  <2> QED  BY <1>1, <2>1, OrderKept DEF LedgerMove
<1> QED  BY <1>3, <1>4

\* A release follows no other.
LEMMA ReleaseMoves ==
    ASSUME Inv, NEW e \in Keys, Release(e)
    PROVE  LedgerMove
<1>1. ApiNext  BY DEF ApiNext
<1>2. state' = [state EXCEPT ![e] = "released"] /\ charged' = charged  BY DEF Release
<1>3. state \in [Keys -> ReservationState]  BY DEF Inv, SafeLedger, LedgerTypeOK
<1> QED  BY <1>1, <1>2, <1>3 DEF Orderly, LedgerMove

\* A reservation is made where there is none.
LEMMA ReserveMoves ==
    ASSUME Inv, NEW e \in Keys, Narrows(e), Reserve(e, Realm, Narrowed(e))
    PROVE  LedgerMove
<1>1. Narrowed(e) \in Offers(e)  BY NarrowedOffered DEF Reserve
<1>2. Realm \in Accounts  BY DEF Accounts
<1>3. ApiNext  BY <1>1, <1>2 DEF ApiNext
<1>4. state[e] = "absent" /\ state' = [state EXCEPT ![e] = "requested"] /\ charged' = charged
  BY DEF Reserve
<1>5. state \in [Keys -> ReservationState]  BY DEF Inv, SafeLedger, LedgerTypeOK
<1> QED  BY <1>3, <1>4, <1>5 DEF Orderly, LedgerMove

LEMMA LedgerSteps ==
    ASSUME Inv, [EpisodeNext]_vars
    PROVE  [ApiNext /\ Orderly]_ledgerVars
<1> SUFFICES LedgerMove  BY DEF LedgerMove
<1>1. CASE UNCHANGED sagaVars  BY <1>1 DEF sagaVars, LedgerMove
<1>2. ASSUME NEW e \in Keys,
             PlacementAdmit(e) \/ Bind(e) \/ Fence(e) \/ ModelCall(e) \/ Complete(e)
                \/ ByomCatchesUp(e)
      PROVE  LedgerMove
  BY <1>1, <1>2 DEF PlacementAdmit, Bind, Fence, ModelCall, Complete, ByomCatchesUp
<1>3. CASE \/ Exchange \/ AskSettlement \/ ApplyEvidence \/ RecordReport \/ TailSettled
           \/ AskComplete \/ Unbind \/ CloseTail \/ SweepSaga \/ SweepTails \/ ResumeTail
           \/ Serve
  BY <1>1, <1>3 DEF Exchange, AskSettlement, ApplyEvidence, RecordReport, TailSettled,
     AskComplete, Unbind, CloseTail, SweepSaga, SweepTails, ResumeTail, Serve
<1>4. ASSUME NEW e \in Keys, Admit(e)  PROVE LedgerMove
  BY <1>4, ReserveMoves DEF Admit, LedgerMove
<1>5. ASSUME NEW e \in Keys, NEW c \in 0 .. amount[e][Unit], Settle(e, c)  PROVE LedgerMove
  <2>1. c \in Nat  BY UnitAssumption DEF Inv, SafeLedger, LedgerTypeOK
  <2> QED  BY <1>5, <2>1, BeginMoves DEF Settle
<1>6. CASE ReportUsage
  BY <1>1, <1>6, CallSaga, BeginMoves DEF ReportUsage, At
<1>7. CASE TerminalSettlement
  <2>1. MeteredTotal(call.key) \in Nat /\ <<call.key, "complete">> \in Sagas /\ call.key \in Keys
    BY <1>7, CallSaga, SagasAssumption
    DEF TerminalSettlement, At, MeteredTotal, Inv, TailInv, TailTypeOK
  <2> QED  BY <1>1, <1>7, <2>1, BeginMoves DEF TerminalSettlement
<1>8. CASE Adopt
  <2>1. call.answer.charge \in Nat /\ <<call.key, "terminal">> \in Sagas /\ call.key \in Keys
    BY <1>8, CallSaga, SagasAssumption DEF Adopt, At
  <2> QED  BY <1>1, <1>8, <2>1, BeginMoves DEF Adopt
<1>9. CASE ApplySettled
  BY <1>9, CommitMoves, ResolveMoves DEF ApplySettled, LedgerMove
<1>10. CASE ApplyUnsettled
  BY <1>10, ResolveMoves DEF ApplyUnsettled, LedgerMove
<1>11. CASE ReleaseRemainder
  BY <1>11, CallSaga, ReleaseMoves DEF ReleaseRemainder, LedgerMove, At
<1>12. CASE Die
  <2>1. CASE handler = Idle
    BY <1>12, <2>1 DEF Die, ledgerVars, accountVars, recordVars, holdVars, LedgerMove
  <2>2. CASE handler # Idle
    <3>1. Crash  BY <1>12, <2>2 DEF Die, Crash
    <3>2. Orderly  BY <1>12, OrderKept DEF Die, recordVars
    <3> QED  BY <3>1, <3>2 DEF ApiNext, LedgerMove
  <2> QED  BY <2>1, <2>2
<1>13. CASE Start
  <2>1. CASE UNCHANGED ledgerVars  BY <2>1 DEF LedgerMove
  <2>2. ASSUME NEW c \in Ceilings, Grant(Unit, c)  PROVE LedgerMove
    <3>1. ApiNext  BY <2>2, UnitAssumption DEF ApiNext
    <3>2. Orderly  BY <2>2, OrderKept DEF Grant, recordVars
    <3> QED  BY <3>1, <3>2 DEF LedgerMove
  <2> QED  BY <1>13, <2>1, <2>2 DEF Start
<1>14. CASE LedgerGoesOn  BY <1>14, ContinueMoves DEF LedgerGoesOn
<1>15. CASE UNCHANGED vars  BY <1>1, <1>15 DEF vars
<1> QED
  BY <1>2, <1>3, <1>4, <1>5, <1>6, <1>7, <1>8, <1>9, <1>10, <1>11, <1>12, <1>13, <1>14, <1>15
  DEF EpisodeNext, Work, Requests

-----------------------------------------------------------------------------
(* What a step leaves alone.                                               *)

\* The shapes of what a step reads.
LEMMA Shapes ==
    ASSUME Inv
    PROVE  /\ state \in [Keys -> ReservationState] /\ charged \in [Keys -> Nat]
           /\ amount \in [Keys -> [Dims -> Nat]] /\ \A e \in Keys : amount[e][Unit] \in Nat
           /\ holdState \in [Keys -> HoldState] /\ holdCharged \in [Keys -> [Dims -> Int]]
           /\ call \in CallRow /\ TailTypeOK
           /\ \A s \in Sagas : s[1] \in Keys /\ s[2] \in {"attempt", "model", "complete", "terminal"}
           /\ \A s \in Sagas : saga[s].phase # "none" =>
                 saga[s] \in [phase : SagaPhase, key : Keys, dim : Dims, charge : Nat]
<1>1. \A e \in Keys : amount[e][Unit] \in Nat
  BY UnitAssumption DEF Inv, SafeLedger, LedgerTypeOK
<1>2. \A s \in Sagas : saga[s].phase # "none" =>
         saga[s] \in [phase : SagaPhase, key : Keys, dim : Dims, charge : Nat]
  BY SagaType DEF Inv, SafeLedger
<1>3. \A s \in Sagas : s[1] \in Keys /\ s[2] \in {"attempt", "model", "complete", "terminal"}
  BY SagasAssumption
<1> QED  BY <1>1, <1>2, <1>3 DEF Inv, SafeLedger, LedgerTypeOK, TailInv, TailTypeOK

\* A conjunct whose variables a step leaves alone.
LEMMA Frame ==
    ASSUME Inv
    PROVE  /\ UNCHANGED <<state, holdState, charged, holdCharged>> => LocalsOK'
           /\ UNCHANGED <<state, amount, binding, bridge, byomCharged, terminal, late,
                          lateComplete>> => BridgesOK'
           /\ UNCHANGED <<state, holdState, binding, tail>> => TailsOK'
           /\ UNCHANGED <<saga, state, amount, charged, bridge, byomCharged>>
                /\ sagasToDo' \subseteq sagasToDo => SagasOK'
           /\ handler' = Idle => HandlerOK'
<1>1. ASSUME UNCHANGED <<state, holdState, charged, holdCharged>>  PROVE LocalsOK'
  BY <1>1 DEF Inv, TailInv, LocalsOK, LocalOK
<1>2. ASSUME UNCHANGED <<state, amount, binding, bridge, byomCharged, terminal, late,
                         lateComplete>>
      PROVE  BridgesOK'
  BY <1>2 DEF Inv, TailInv, BridgesOK, BridgeOK
<1>3. ASSUME UNCHANGED <<state, holdState, binding, tail>>  PROVE TailsOK'
  BY <1>3 DEF Inv, TailInv, TailsOK, TailOK
<1>4. ASSUME UNCHANGED <<saga, state, amount, charged, bridge, byomCharged>>,
             sagasToDo' \subseteq sagasToDo
      PROVE  SagasOK'
  BY <1>4 DEF Inv, TailInv, SagasOK
<1>5. ASSUME handler' = Idle  PROVE HandlerOK'
  BY <1>5 DEF HandlerOK, Idle
<1> QED  BY <1>1, <1>2, <1>3, <1>4, <1>5

\* An operation that returns leaves nothing established.
LEMMA Returns ==
    ASSUME call' = NoCall
    PROVE  call' \in CallRow /\ CallOK' /\ ResumeOK'
BY DEF NoCall, NoAnswer, CallRow, CallOK, ResumeOK, Steps, PastSettlement

\* The rows of a call that goes on.
LEMMA GoesOn ==
    ASSUME Inv, NEW step \in Steps, Goto(step)
    PROVE  /\ call' \in CallRow /\ call'.step = step
           /\ call'.op = call.op /\ call'.key = call.key /\ call'.kind = call.kind
           /\ call'.charge = call.charge /\ call'.from = call.from
           /\ call'.answer = call.answer
<1>1. call \in CallRow  BY Shapes
<1> QED  BY <1>1 DEF Goto, CallRow

\* A daemon that serves has no sweep to answer for.
LEMMA Serves ==
    ASSUME mode' = "serving", call' = NoCall \/ call'.op \notin {"resume", "sweep"}
    PROVE  ModeOK'
BY DEF ModeOK, SweptTailsFinish, NoCall

\* A running operation goes on, and nothing happens to any other Episode.
LEMMA CarriesOn ==
    ASSUME Inv, call.step # "none", call'.op = call.op, call'.key = call.key,
           UNCHANGED <<mode, tailsToDo>>,
           \A e \in Keys \ {call.key} : tail'[e] = tail[e] /\ state'[e] = state[e]
    PROVE  ModeOK'
<1> USE DEF Inv, TailInv, ModeOK
<1>1. SweptTailsFinish'  BY DEF SweptTailsFinish
<1>2. tailsToDo \subseteq Keys  BY DEF TailTypeOK
<1> QED  BY <1>1, <1>2

\* A resumed tail that goes no further is still to be settled here.
LEMMA Ends ==
    ASSUME Inv, call.step # "none", call' = NoCall, UNCHANGED <<mode, tailsToDo>>,
           \A e \in Keys \ {call.key} : tail'[e] = tail[e] /\ state'[e] = state[e],
           call.op = "resume" /\ tail'[call.key] \in {"peer_pending", "releasing"}
              => state'[call.key] \notin {"settled", "released"}
    PROVE  ModeOK'
<1> USE DEF Inv, TailInv, ModeOK
<1>1. SweptTailsFinish'
  <2>1. mode = "tails" => call.op = "resume"  OBVIOUS
  <2> QED  BY <2>1 DEF SweptTailsFinish, NoCall
<1>2. tailsToDo \subseteq Keys  BY DEF TailTypeOK
<1>3. \A e \in tailsToDo' : mode = "tails" => tail'[e] \in Unfinished /\ e # call'.key
  BY <1>2, NoneAssumption DEF NoCall
<1> QED  BY <1>1, <1>3 DEF NoCall

-----------------------------------------------------------------------------
(* byom.                                                                   *)

\* A bridge settles once and is terminalized once; neither undoes the other.
PeerKeeps ==
    \A f \in Keys :
        /\ bridge[f] = "none" <=> bridge'[f] = "none"
        /\ bridge[f] = "settled" => bridge'[f] = "settled" /\ byomCharged'[f] = byomCharged[f]
        /\ bridge[f] = "maxed" => bridge'[f] = "maxed"

PeerTypeOK ==
    /\ bridge \in [Keys -> {"none", "confirmed", "settled", "maxed"}]
    /\ byomCharged \in [Keys -> Nat]
    /\ terminal \in [Keys -> BOOLEAN]
    /\ late \in [Keys -> SUBSET Nat]
    /\ lateComplete \in [Keys -> BOOLEAN]

LEMMA PeerSettles ==
    ASSUME Inv, NEW e \in Keys, NEW c \in Nat, SettleBridge(e, c),
           state[e] = "confirmed" => c <= amount[e][Unit],
           UNCHANGED <<state, charged, amount, saga, binding, sagasToDo>>
    PROVE  /\ BridgesOK' /\ SagasOK' /\ PeerKeeps /\ PeerTypeOK'
           /\ bridge'[e] = "settled" /\ byomCharged'[e] = c
<1>1. PeerTypeOK  BY Shapes DEF TailTypeOK, PeerTypeOK
<1>2. /\ bridge[e] = "confirmed" /\ ~terminal[e]
      /\ bridge'[e] = "settled" /\ byomCharged'[e] = c /\ late'[e] = {}
      /\ UNCHANGED <<terminal, lateComplete>>
      /\ \A f \in Keys \ {e} : /\ bridge'[f] = bridge[f] /\ byomCharged'[f] = byomCharged[f]
                               /\ late'[f] = late[f]
  BY <1>1 DEF SettleBridge, PeerTypeOK
<1>3. PeerTypeOK'  BY <1>1 DEF SettleBridge, PeerTypeOK
<1>4. PeerKeeps  BY <1>2 DEF PeerKeeps
<1>5. BridgesOK'  BY <1>2 DEF Inv, TailInv, BridgesOK, BridgeOK
<1>6. state[e] \notin {"settled", "released"}
  BY <1>2 DEF Inv, TailInv, BridgesOK, BridgeOK
<1>7. SagasOK'
  <2>1. \A f \in Keys : /\ bridge[f] # "none" => bridge'[f] # "none"
                        /\ f # e => byomCharged'[f] = byomCharged[f]
    BY <1>2
  <2> QED  BY <1>6, <2>1, Shapes DEF Inv, TailInv, SagasOK
<1> QED  BY <1>2, <1>3, <1>4, <1>5, <1>7

LEMMA PeerTerminalizes ==
    ASSUME Inv, NEW e \in Keys, NEW c \in TerminalCharges(e), Terminalize(e, c),
           bridge[e] # "none", state[e] # "confirmed",
           UNCHANGED <<state, charged, amount, saga, binding, sagasToDo>>
    PROVE  /\ BridgesOK' /\ SagasOK' /\ PeerKeeps /\ PeerTypeOK' /\ c \in Nat
           /\ bridge'[e] = "settled" \/ bridge'[e] = "maxed"
<1>1. PeerTypeOK  BY Shapes DEF TailTypeOK, PeerTypeOK
<1>2. amount[e][Unit] \in Nat /\ ParentItem[e][Unit] \in Nat
  BY Shapes, UnitAssumption, ParentItemAssumption
<1>3. c \in Nat  BY <1>1, <1>2 DEF TerminalCharges, PeerTypeOK
<1>4. /\ ~terminal[e] /\ terminal'[e] /\ late'[e] = {} /\ ~lateComplete'[e]
      /\ \/ /\ bridge[e] = "settled" /\ bridge'[e] = "settled"
            /\ byomCharged'[e] = byomCharged[e]
         \/ bridge[e] # "settled" /\ bridge'[e] = "maxed"
      /\ \A f \in Keys \ {e} : /\ bridge'[f] = bridge[f] /\ byomCharged'[f] = byomCharged[f]
                               /\ terminal'[f] = terminal[f] /\ late'[f] = late[f]
                               /\ lateComplete'[f] = lateComplete[f]
  BY <1>1 DEF Terminalize, PeerTypeOK
<1>5. PeerTypeOK'  BY <1>1, <1>3 DEF Terminalize, PeerTypeOK
<1>6. bridge[e] \in {"confirmed", "settled"}
  BY <1>1, <1>4 DEF PeerTypeOK, Inv, TailInv, BridgesOK, BridgeOK
<1>7. PeerKeeps  BY <1>4, <1>6 DEF PeerKeeps
<1>8. BridgesOK'
  <2>1. BridgeOK(e)'  BY <1>4 DEF Inv, TailInv, BridgesOK, BridgeOK
  <2>2. ASSUME NEW f \in Keys \ {e}  PROVE BridgeOK(f)'
    BY <1>4 DEF Inv, TailInv, BridgesOK, BridgeOK
  <2> QED  BY <2>1, <2>2 DEF BridgesOK
<1>9. SagasOK'
  <2>1. \A f \in Keys : /\ bridge[f] # "none" => bridge'[f] # "none"
                        /\ state[f] \in {"settled", "released"} => byomCharged'[f] = byomCharged[f]
    BY <1>4 DEF Inv, TailInv, BridgesOK, BridgeOK
  <2> QED  BY <2>1, Shapes DEF Inv, TailInv, SagasOK
<1> QED  BY <1>3, <1>4, <1>5, <1>7, <1>8, <1>9

\* What the running operation knows of byom stays true.
LEMMA PeerKeepsCall ==
    ASSUME Inv, PeerKeeps, UNCHANGED <<state, amount, holdState, binding, tail, call>>
    PROVE  CallOK' /\ ResumeOK'
<1>1. CASE call.step = "none"
  <2>1. call' = NoCall  BY <1>1 DEF Inv, TailInv, CallOK
  <2> QED  BY <2>1, Returns
<1>2. CASE call.step # "none"
  <2>1. call.key \in Keys  BY <1>2 DEF Inv, TailInv, CallOK
  <2>2. CallOK'  BY <2>1 DEF Inv, TailInv, CallOK, PeerKeeps
  <2>3. ResumeOK'  BY <2>1 DEF Inv, TailInv, ResumeOK
  <2> QED  BY <2>2, <2>3
<1> QED  BY <1>1, <1>2

LEMMA ByomCatchesUpTail ==
    ASSUME Inv, NEW e \in Keys, ByomCatchesUp(e)
    PROVE  TailInv'
<1>1. UNCHANGED <<state, charged, amount, holdState, holdCharged, saga, handler, created,
                  binding, tail, effect, spent, reported, mode, sagasToDo, tailsToDo, call>>
  BY DEF ByomCatchesUp, sagaVars, ledgerVars, recordVars, holdVars, localVars, sweepVars
<1>2. BridgesOK' /\ SagasOK' /\ PeerKeeps /\ PeerTypeOK'
  <2>1. ASSUME NEW c \in late[e], SettleBridge(e, c)
        PROVE  BridgesOK' /\ SagasOK' /\ PeerKeeps /\ PeerTypeOK'
    <3>1. c \in Nat  BY Shapes DEF TailTypeOK
    <3>2. state[e] = "confirmed" => c <= amount[e][Unit]
      BY DEF Inv, TailInv, BridgesOK, BridgeOK
    <3> QED  BY <1>1, <2>1, <3>1, <3>2, PeerSettles
  <2>2. ASSUME lateComplete[e], NEW c \in TerminalCharges(e), Terminalize(e, c)
        PROVE  BridgesOK' /\ SagasOK' /\ PeerKeeps /\ PeerTypeOK'
    <3>1. bridge[e] # "none" /\ state[e] # "confirmed"
      BY <2>2 DEF Inv, TailInv, BridgesOK, BridgeOK
    <3> QED  BY <1>1, <2>2, <3>1, PeerTerminalizes
  <2> QED  BY <2>1, <2>2 DEF ByomCatchesUp
<1>3. LocalsOK' /\ TailsOK'  BY <1>1, Frame
<1>4. CallOK' /\ ResumeOK'  BY <1>1, <1>2, PeerKeepsCall
<1>5. ModeOK'  BY <1>1 DEF Inv, TailInv, ModeOK, SweptTailsFinish
<1>6. HandlerOK'
  <2>1. handler \in {Idle} \union [step : HandlerStep, key : Keys]
    BY DEF Inv, SafeLedger, LedgerTypeOK
  <2>2. handler.step \in {"requested", "confirm"} => handler.key \in Keys
    BY <2>1 DEF Idle
  <2> QED  BY <1>1, <1>2, <2>2 DEF Inv, TailInv, HandlerOK, PeerKeeps
<1>7. TailTypeOK'  BY <1>1, <1>2, Shapes DEF TailTypeOK, PeerTypeOK
<1> QED  BY <1>2, <1>3, <1>4, <1>5, <1>6, <1>7 DEF TailInv

-----------------------------------------------------------------------------
(* Admission and binding.                                                  *)

LEMMA AdmitTail ==
    ASSUME Inv, NEW e \in Keys, Admit(e)
    PROVE  TailInv'
<1>1. /\ call' = [op |-> "admit", key |-> e, kind |-> "none", charge |-> 0, step |-> "admit",
                  from |-> "none", answer |-> NoAnswer]
      /\ mode = "serving" /\ handler = Idle /\ call = NoCall /\ bridge[e] = "none"
      /\ UNCHANGED <<created, binding, tail, effect, spent, reported, mode, sagasToDo,
                     tailsToDo, bridge, byomCharged, terminal, late, lateComplete>>
  BY DEF Admit, Serving, NoCall, localVars, sweepVars, byomVars
<1>2. call' \in CallRow  BY <1>1 DEF CallRow, Steps, NoAnswer
<1>3. \/ UNCHANGED ledgerVars /\ state[e] # "absent"
      \/ /\ state[e] = "absent"
         /\ state' = [state EXCEPT ![e] = "requested"]
         /\ holdState' = [holdState EXCEPT ![e] = "reserved"]
         /\ amount' = [amount EXCEPT ![e] = Narrowed(e)]
         /\ handler' = [step |-> "requested", key |-> e]
         /\ UNCHANGED <<charged, holdCharged, saga>>
  BY DEF Admit, Reserve, Then
<1>4. TailTypeOK'  BY <1>1, <1>2, Shapes DEF TailTypeOK
<1>5. ResumeOK' /\ ModeOK'  BY <1>1, Serves DEF ResumeOK, PastSettlement
<1>6. CASE UNCHANGED ledgerVars /\ state[e] # "absent"
  <2>1. LocalsOK' /\ BridgesOK' /\ TailsOK' /\ SagasOK' /\ HandlerOK'
    BY <1>1, <1>6, Frame DEF ledgerVars, accountVars, recordVars, holdVars
  <2>2. CallOK'
    BY <1>1, <1>6 DEF CallOK, NoAnswer, ledgerVars, recordVars, PastSettlement
  <2> QED  BY <1>4, <1>5, <2>1, <2>2 DEF TailInv
<1>7. CASE state[e] = "absent"
  <2> USE <1>1, <1>3, <1>7
  <2>1. /\ state'[e] = "requested" /\ holdState'[e] = "reserved"
        /\ \A f \in Keys \ {e} : /\ state'[f] = state[f] /\ holdState'[f] = holdState[f]
                                 /\ amount'[f] = amount[f]
        /\ UNCHANGED <<charged, holdCharged, saga>>
        /\ handler' = [step |-> "requested", key |-> e]
    BY Shapes DEF ledgerVars, recordVars
  <2>2. \A s \in Sagas : saga[s].phase # "none" => s[1] # e
    BY DEF Inv, TailInv, SagasOK
  <2>3. LocalsOK'  BY <2>1 DEF Inv, TailInv, LocalsOK, LocalOK
  <2>4. BridgesOK'  BY <2>1 DEF Inv, TailInv, BridgesOK, BridgeOK
  <2>5. TailsOK'
    BY <2>1 DEF Inv, TailInv, TailsOK, TailOK, BridgesOK, BridgeOK
  <2>6. SagasOK'  BY <2>1, <2>2, Shapes DEF Inv, TailInv, SagasOK
  <2>7. CallOK'  BY <2>1 DEF CallOK, NoAnswer, PastSettlement
  <2>8. HandlerOK'  BY <2>1 DEF HandlerOK
  <2> QED  BY <1>4, <1>5, <2>3, <2>4, <2>5, <2>6, <2>7, <2>8 DEF TailInv
<1> QED  BY <1>3, <1>6, <1>7

LEMMA PlacementAdmitTail ==
    ASSUME Inv, NEW e \in Keys, PlacementAdmit(e)
    PROVE  TailInv'
<1>1. /\ call.step = "admit" /\ call.key = e /\ handler = Idle /\ call' = NoCall
      /\ bridge' \in {bridge, [bridge EXCEPT ![e] = "confirmed"]}
      /\ UNCHANGED <<state, charged, amount, holdState, holdCharged, saga, handler, created,
                     binding, tail, effect, spent, reported, mode, sagasToDo, tailsToDo,
                     byomCharged, terminal, late, lateComplete>>
  BY DEF PlacementAdmit, At, Return, sagaVars, ledgerVars, recordVars, holdVars, localVars,
     sweepVars
<1>2. mode = "serving" /\ state[e] # "absent" /\ bridge[e] = "none"
  BY <1>1 DEF Inv, TailInv, CallOK, ResumeOK, ModeOK, PastSettlement
<1>3. CallOK' /\ ResumeOK' /\ call' \in CallRow  BY <1>1, Returns
<1>4. LocalsOK' /\ TailsOK'  BY <1>1, Frame
<1>5. ModeOK'  BY <1>1, <1>2, Serves
<1>6. TailTypeOK'  BY <1>1, <1>3, Shapes DEF TailTypeOK
<1>7. HandlerOK'  BY <1>1, Frame
<1>8. BridgesOK'
  <2>1. \A f \in Keys \ {e} : bridge'[f] = bridge[f]  BY <1>1, Shapes DEF TailTypeOK
  <2>2. bridge'[e] \in {"none", "confirmed"}  BY <1>1, <1>2, Shapes DEF TailTypeOK
  <2>3. BridgeOK(e)'
    BY <1>1, <1>2, <2>2 DEF Inv, TailInv, BridgesOK, BridgeOK
  <2>4. ASSUME NEW f \in Keys \ {e}  PROVE BridgeOK(f)'
    BY <1>1, <2>1 DEF Inv, TailInv, BridgesOK, BridgeOK
  <2> QED  BY <2>3, <2>4 DEF BridgesOK
<1>9. SagasOK'
  <2>1. \A f \in Keys : bridge[f] # "none" => bridge'[f] # "none"
    BY <1>1, Shapes DEF TailTypeOK
  <2> QED  BY <1>1, <2>1, Shapes DEF Inv, TailInv, SagasOK
<1> QED  BY <1>3, <1>4, <1>5, <1>6, <1>7, <1>8, <1>9 DEF TailInv

LEMMA BindTail ==
    ASSUME Inv, NEW e \in Keys, Bind(e) \/ Fence(e)
    PROVE  TailInv'
<1>1. /\ mode = "serving" /\ handler = Idle /\ call = NoCall
      /\ \/ binding[e] = "bound"
         \/ binding[e] = "none" /\ bridge[e] = "confirmed"
      /\ binding' \in {[binding EXCEPT ![e] = "bound"], [binding EXCEPT ![e] = "fenced"]}
      /\ UNCHANGED <<state, charged, amount, holdState, holdCharged, saga, handler, created,
                     tail, effect, spent, reported, mode, sagasToDo, tailsToDo, call, bridge,
                     byomCharged, terminal, late, lateComplete>>
  BY DEF Bind, Fence, Serving, sagaVars, ledgerVars, recordVars, holdVars, sweepVars, byomVars
<1>2. /\ binding'[e] \in {"bound", "fenced"}
      /\ \A f \in Keys \ {e} : binding'[f] = binding[f]
      /\ bridge[e] # "none"
  BY <1>1, Shapes DEF TailTypeOK, Inv, TailInv, BridgesOK, BridgeOK
<1>3. CallOK' /\ ResumeOK' /\ call' \in CallRow  BY <1>1, Returns
<1>4. LocalsOK' /\ SagasOK' /\ HandlerOK'  BY <1>1, Frame
<1>5. ModeOK'  BY <1>1, Serves
<1>6. TailTypeOK'  BY <1>1, <1>3, Shapes DEF TailTypeOK
<1>7. BridgesOK'  BY <1>1, <1>2 DEF Inv, TailInv, BridgesOK, BridgeOK
<1>8. TailsOK'
  <2>1. tail[e] \notin {"releasing", "done"}  BY <1>1 DEF Inv, TailInv, TailsOK, TailOK
  <2> QED  BY <1>1, <1>2, <2>1 DEF Inv, TailInv, TailsOK, TailOK
<1> QED  BY <1>3, <1>4, <1>5, <1>6, <1>7, <1>8 DEF TailInv

-----------------------------------------------------------------------------
(* Settlements and metering.                                               *)

\* A settlement that was begun, or found begun, is within the items.
LEMMA Begun ==
    ASSUME Inv, NEW s \in Sagas, NEW c \in Nat, Begins(s, c), Begin(s, c), bridge[s[1]] # "none",
           s[2] # "terminal", UNCHANGED <<bridge, byomCharged>>, sagasToDo' \subseteq sagasToDo
    PROVE  /\ UNCHANGED <<state, charged, amount, holdState, holdCharged, handler>>
           /\ created' \in Seq(Sagas)
           /\ c <= amount[s[1]][Unit]
           /\ SagasOK'
<1>1. s[1] \in Keys /\ created \in Seq(Sagas)  BY Shapes DEF TailTypeOK
<1>2. CASE saga[s].phase # "none"
  <2>1. UNCHANGED sagaVars /\ saga[s].charge = c  BY <1>2 DEF Begins, Begin
  <2>2. UNCHANGED <<state, charged, amount, holdState, holdCharged, handler, saga, created>>
    BY <2>1 DEF sagaVars, ledgerVars, recordVars, holdVars
  <2>3. saga[s].charge <= amount[s[1]][Unit]  BY <1>2 DEF Inv, TailInv, SagasOK
  <2> QED  BY <1>1, <2>1, <2>2, <2>3, Frame
<1>3. CASE saga[s].phase = "none"
  <2>1. /\ saga' = [saga EXCEPT ![s] = [phase |-> "remote_pending", key |-> s[1],
                                        dim |-> Unit, charge |-> c]]
        /\ created' = Append(created, s)
        /\ state[s[1]] = "confirmed" /\ c <= amount[s[1]][Unit]
        /\ UNCHANGED <<state, charged, amount, holdState, holdCharged, handler>>
    BY <1>3 DEF Begins, Begin, SettleBegin, WithinItems, recordVars, holdVars
  <2>2. saga \in [Sagas -> {NoSaga} \union
                    [phase : SagaPhase, key : Keys, dim : Dims, charge : Nat]]
    BY DEF Inv, SafeLedger, LedgerTypeOK
  <2>3. /\ saga'[s] = [phase |-> "remote_pending", key |-> s[1], dim |-> Unit, charge |-> c]
        /\ \A t \in Sagas \ {s} : saga'[t] = saga[t]
    BY <2>1, <2>2
  <2>4. created' \in Seq(Sagas)  BY <1>1, <2>1
  <2>5. SagasOK'  BY <2>1, <2>3 DEF Inv, TailInv, SagasOK
  <2> QED  BY <2>1, <2>4, <2>5
<1> QED  BY <1>2, <1>3

LEMMA SettleTail ==
    ASSUME Inv, NEW e \in Keys, NEW c \in 0 .. amount[e][Unit], Settle(e, c)
    PROVE  TailInv'
<1> DEFINE s == <<e, "attempt">>
<1>1. /\ mode = "serving" /\ handler = Idle /\ call = NoCall /\ binding[e] = "bound"
      /\ s \in Sagas /\ Begins(s, c) /\ Begin(s, c)
      /\ call' = [op |-> "settle", key |-> e, kind |-> "attempt", charge |-> c, step |-> "ask",
                  from |-> "none", answer |-> NoAnswer]
      /\ UNCHANGED <<binding, tail, effect, spent, reported, mode, sagasToDo, tailsToDo, bridge,
                     byomCharged, terminal, late, lateComplete>>
  BY DEF Settle, Serving, Asking, NoCall, localVars, sweepVars, byomVars
<1>2. bridge[e] # "none"  BY <1>1 DEF Inv, TailInv, BridgesOK, BridgeOK
<1>3. c \in Nat  BY Shapes
<1>4. /\ UNCHANGED <<state, charged, amount, holdState, holdCharged, handler>>
      /\ created' \in Seq(Sagas) /\ c <= amount[e][Unit] /\ SagasOK'
  BY <1>1, <1>2, <1>3, Begun
<1>5. call' \in CallRow  BY <1>1, <1>3 DEF CallRow, Steps, NoAnswer
<1>6. LocalsOK' /\ BridgesOK' /\ TailsOK' /\ HandlerOK'  BY <1>1, <1>4, Frame
<1>7. ModeOK'  BY <1>1, Serves
<1>8. CallOK' /\ ResumeOK'
  BY <1>1, <1>2, <1>4 DEF CallOK, ResumeOK, NoAnswer, PastSettlement
<1>9. TailTypeOK'  BY <1>1, <1>4, <1>5, Shapes DEF TailTypeOK
<1> QED  BY <1>4, <1>6, <1>7, <1>8, <1>9 DEF TailInv

LEMMA ModelCallTail ==
    ASSUME Inv, NEW e \in Keys, ModelCall(e)
    PROVE  TailInv'
<1>1. /\ mode = "serving" /\ handler = Idle /\ call = NoCall /\ binding[e] = "bound"
      /\ <<e, "model">> \in Sagas
      /\ effect' = [effect EXCEPT ![e] = "dispatching"]
      /\ call' = [op |-> "meter", key |-> e, kind |-> "model", charge |-> 0,
                  step |-> "dispatch", from |-> "none", answer |-> NoAnswer]
      /\ UNCHANGED <<state, charged, amount, holdState, holdCharged, saga, handler, created,
                     binding, tail, spent, reported, mode, sagasToDo, tailsToDo, bridge,
                     byomCharged, terminal, late, lateComplete>>
  BY DEF ModelCall, Serving, NoCall, sagaVars, ledgerVars, recordVars, holdVars, sweepVars,
     byomVars
<1>2. bridge[e] # "none"  BY <1>1 DEF Inv, TailInv, BridgesOK, BridgeOK
<1>3. call' \in CallRow  BY <1>1 DEF CallRow, Steps, NoAnswer
<1>4. LocalsOK' /\ BridgesOK' /\ TailsOK' /\ SagasOK' /\ HandlerOK'  BY <1>1, Frame
<1>5. ModeOK'  BY <1>1, Serves
<1>6. CallOK' /\ ResumeOK'
  BY <1>1, <1>2 DEF CallOK, ResumeOK, NoAnswer, PastSettlement
<1>7. TailTypeOK'  BY <1>1, <1>3, Shapes DEF TailTypeOK
<1> QED  BY <1>4, <1>5, <1>6, <1>7 DEF TailInv

LEMMA ExchangeTail ==
    ASSUME Inv, Exchange
    PROVE  TailInv'
<1>1. /\ call.step = "dispatch" /\ handler = Idle
      /\ UNCHANGED <<state, charged, amount, holdState, holdCharged, saga, handler, created,
                     binding, tail, reported, mode, sagasToDo, tailsToDo, bridge, byomCharged,
                     terminal, late, lateComplete>>
  BY DEF Exchange, At, sagaVars, ledgerVars, recordVars, holdVars, sweepVars, byomVars
<1>2. LocalsOK' /\ BridgesOK' /\ TailsOK' /\ SagasOK' /\ HandlerOK'  BY <1>1, Frame
<1>3. /\ call.op \notin {"none", "complete", "resume", "sweep"} /\ call.key \in Keys
      /\ <<call.key, call.kind>> \in Sagas /\ bridge[call.key] # "none" /\ mode = "serving"
      /\ call.answer.is # "maxed" \/ bridge[call.key] = "maxed"
  BY <1>1 DEF Inv, TailInv, CallOK, ResumeOK, ModeOK, PastSettlement
<1>4. ASSUME effect' = [effect EXCEPT ![call.key] = "ambiguous"], spent' = spent, Return
      PROVE  TailInv'
  <2>1. call' \in CallRow /\ CallOK' /\ ResumeOK'  BY <1>4, Returns DEF Return
  <2>2. ModeOK'  BY <1>1, <1>3, <1>4, Serves DEF Return
  <2>3. TailTypeOK'  BY <1>1, <1>4, <2>1, Shapes DEF TailTypeOK
  <2> QED  BY <1>2, <2>1, <2>2, <2>3 DEF TailInv
<1>5. ASSUME NEW u \in Usages,
             effect' = [effect EXCEPT ![call.key] = "observed"],
             spent'  = [spent EXCEPT ![call.key] = u],
             call'   = [call EXCEPT !.step = "meter", !.charge = u]
      PROVE  TailInv'
  <2>1. u \in Nat  BY UsageAssumption
  <2>2. call' = [op |-> call.op, key |-> call.key, kind |-> call.kind, charge |-> u,
                 step |-> "meter", from |-> call.from, answer |-> call.answer]
    BY <1>5, Shapes DEF CallRow
  <2>3. call' \in CallRow  BY <2>1, <2>2, Shapes DEF CallRow, Steps
  <2>4. ModeOK'  BY <1>1, <1>3, <2>2, Serves
  <2>5. /\ call'.op = call.op /\ call'.key = call.key /\ call'.kind = call.kind
        /\ call'.step = "meter" /\ call'.answer = call.answer
    BY <2>2
  <2>7. CallOK'
    BY <1>1, <1>3, <2>5 DEF CallOK, PastSettlement
  <2>8. ResumeOK'
    BY <1>1, <1>3, <2>5 DEF ResumeOK, PastSettlement
  <2>6. TailTypeOK'  BY <1>1, <1>5, <2>1, <2>3, Shapes DEF TailTypeOK
  <2> QED  BY <1>2, <2>4, <2>6, <2>7, <2>8 DEF TailInv
<1> QED  BY <1>4, <1>5 DEF Exchange

LEMMA ReportUsageTail ==
    ASSUME Inv, ReportUsage
    PROVE  TailInv'
<1> DEFINE s == <<call.key, call.kind>>
<1>1. /\ call.step = "meter" /\ handler = Idle
      /\ UNCHANGED <<binding, tail, effect, spent, reported, mode, sagasToDo, tailsToDo, bridge,
                     byomCharged, terminal, late, lateComplete>>
  BY DEF ReportUsage, At, localVars, sweepVars, byomVars
<1>2. /\ call.op \notin {"none", "complete", "resume", "sweep"} /\ call.key \in Keys
      /\ s \in Sagas /\ bridge[call.key] # "none" /\ mode = "serving"
      /\ call.answer.is # "maxed" \/ bridge[call.key] = "maxed"
  BY <1>1 DEF Inv, TailInv, CallOK, ResumeOK, ModeOK, PastSettlement
<1>3. call.kind # "terminal" /\ call.charge \in Nat  BY Shapes DEF CallRow
<1>4. CASE Begins(s, call.charge) /\ Begin(s, call.charge) /\ Goto("ask")
  <2>1. /\ UNCHANGED <<state, charged, amount, holdState, holdCharged, handler>>
        /\ created' \in Seq(Sagas) /\ call.charge <= amount[call.key][Unit] /\ SagasOK'
    BY <1>1, <1>2, <1>3, <1>4, Begun
  <2>2. /\ call' \in CallRow /\ call'.step = "ask" /\ call'.op = call.op
        /\ call'.key = call.key /\ call'.kind = call.kind /\ call'.charge = call.charge
        /\ call'.answer = call.answer
    BY <1>4, GoesOn DEF Steps
  <2>3. LocalsOK' /\ BridgesOK' /\ TailsOK' /\ HandlerOK'  BY <1>1, <2>1, Frame
  <2>4. ModeOK'  BY <1>1, <1>2, <2>2, Serves
  <2>5. CallOK'  BY <1>1, <1>2, <2>1, <2>2 DEF CallOK, PastSettlement
  <2>6. ResumeOK'  BY <1>2, <2>2 DEF ResumeOK, PastSettlement
  <2>7. TailTypeOK'  BY <1>1, <2>1, <2>2, Shapes DEF TailTypeOK
  <2> QED  BY <2>1, <2>3, <2>4, <2>5, <2>6, <2>7 DEF TailInv
<1>5. ASSUME UNCHANGED sagaVars, state[call.key] # "confirmed",
             call' = [call EXCEPT !.op = "evidence", !.step = "ask"]
      PROVE  TailInv'
  <2>1. call' = [op |-> "evidence", key |-> call.key, kind |-> call.kind,
                 charge |-> call.charge, step |-> "ask", from |-> call.from,
                 answer |-> call.answer]
    BY <1>5, Shapes DEF CallRow
  <2>2. /\ call' \in CallRow /\ call'.step = "ask" /\ call'.op = "evidence"
        /\ call'.key = call.key /\ call'.kind = call.kind /\ call'.answer = call.answer
    BY <2>1, Shapes DEF CallRow, Steps
  <2>3. UNCHANGED <<state, charged, amount, holdState, holdCharged, saga, handler, created>>
    BY <1>5 DEF sagaVars, ledgerVars, recordVars, holdVars
  <2>4. LocalsOK' /\ BridgesOK' /\ TailsOK' /\ SagasOK' /\ HandlerOK'
    BY <1>1, <2>3, Frame
  <2>5. ModeOK'  BY <1>1, <1>2, <2>2, Serves
  <2>6. CallOK'  BY <1>1, <1>2, <1>5, <2>2, <2>3 DEF CallOK, PastSettlement
  <2>7. ResumeOK'  BY <2>2 DEF ResumeOK, PastSettlement
  <2>8. TailTypeOK'  BY <1>1, <2>2, <2>3, Shapes DEF TailTypeOK
  <2> QED  BY <2>4, <2>5, <2>6, <2>7, <2>8 DEF TailInv
<1>6. ASSUME UNCHANGED sagaVars, Return
      PROVE  TailInv'
  <2>1. call' = NoCall  BY <1>6 DEF Return
  <2>2. UNCHANGED <<state, charged, amount, holdState, holdCharged, saga, handler, created>>
    BY <1>6 DEF sagaVars, ledgerVars, recordVars, holdVars
  <2>3. call' \in CallRow /\ CallOK' /\ ResumeOK'  BY <2>1, Returns
  <2>4. LocalsOK' /\ BridgesOK' /\ TailsOK' /\ SagasOK' /\ HandlerOK'
    BY <1>1, <2>2, Frame
  <2>5. ModeOK'  BY <1>1, <1>2, <2>1, Serves
  <2>6. TailTypeOK'  BY <1>1, <2>2, <2>3, Shapes DEF TailTypeOK
  <2> QED  BY <2>3, <2>4, <2>5, <2>6 DEF TailInv
<1> QED  BY <1>4, <1>5, <1>6 DEF ReportUsage

\* byom's answer, one way or another, and the operation that asked.
LEMMA AnswerComes ==
    ASSUME Inv, At("ask"), NEW is \in {"settled", "denied", "unknown", "no_token"},
           NEW c \in Nat, Answered(is, c), PeerKeeps,
           is = "settled" => bridge'[call.key] = "settled" /\ byomCharged'[call.key] = c,
           UNCHANGED <<state, amount, holdState, binding, tail, mode, tailsToDo>>
    PROVE  call' \in CallRow /\ CallOK' /\ ResumeOK' /\ ModeOK'
<1>1. call' = [op |-> call.op, key |-> call.key, kind |-> call.kind, charge |-> call.charge,
               step |-> "apply", from |-> call.from, answer |-> [is |-> is, charge |-> c]]
  BY Shapes DEF CallRow, Answered
<1>2. /\ call' \in CallRow /\ call'.step = "apply" /\ call'.op = call.op
      /\ call'.key = call.key /\ call'.kind = call.kind /\ call'.from = call.from
      /\ call'.answer = [is |-> is, charge |-> c]
  BY <1>1, Shapes DEF CallRow, Steps
<1>3. /\ call.step = "ask" /\ call.key \in Keys /\ call.op # "none"
      /\ <<call.key, call.kind>> \in Sagas /\ bridge[call.key] # "none"
  BY DEF At, Inv, TailInv, CallOK
<1>4. CallOK'  BY <1>2, <1>3 DEF CallOK, PeerKeeps, PastSettlement
<1>5. ResumeOK'  BY <1>2, <1>3 DEF Inv, TailInv, ResumeOK, PastSettlement
<1>6. ModeOK'  BY <1>2, <1>3, CarriesOn
<1> QED  BY <1>2, <1>4, <1>5, <1>6

LEMMA AskSettlementTail ==
    ASSUME Inv, AskSettlement
    PROVE  TailInv'
<1> SUFFICES ASSUME NEW e, e = call.key, NEW c, c = call.charge
             PROVE  TailInv'
  OBVIOUS
<1>1. /\ call.step = "ask" /\ handler = Idle /\ At("ask")
      /\ UNCHANGED <<state, charged, amount, holdState, holdCharged, saga, handler, created,
                     binding, tail, effect, spent, reported, mode, sagasToDo, tailsToDo>>
  BY DEF AskSettlement, At, sagaVars, ledgerVars, recordVars, holdVars, localVars, sweepVars
<1>2. /\ e \in Keys /\ c \in Nat /\ byomCharged[e] \in Nat
      /\ state[e] = "confirmed" => c <= amount[e][Unit]
  BY <1>1, Shapes DEF Inv, TailInv, CallOK, CallRow, TailTypeOK
<1>3. LocalsOK' /\ TailsOK' /\ HandlerOK'  BY <1>1, Frame
<1> DEFINE Heard == /\ call' \in CallRow /\ CallOK' /\ ResumeOK' /\ ModeOK'
                    /\ BridgesOK' /\ SagasOK' /\ PeerTypeOK'
<1>4. ASSUME SettleBridge(e, c), Answered("settled", c)
      PROVE  Heard
  <2>1. /\ BridgesOK' /\ SagasOK' /\ PeerKeeps /\ PeerTypeOK'
        /\ bridge'[e] = "settled" /\ byomCharged'[e] = c
    BY <1>1, <1>2, <1>4, PeerSettles
  <2>2. call' \in CallRow /\ CallOK' /\ ResumeOK' /\ ModeOK'
    BY <1>1, <1>2, <1>4, <2>1, AnswerComes
  <2> QED  BY <2>1, <2>2
<1>5. ASSUME UNCHANGED byomVars,
             \/ bridge[e] = "settled" /\ Answered("settled", byomCharged[e])
             \/ Answered("denied", 0)
             \/ Answered("no_token", 0)
      PROVE  Heard
  <2>1. UNCHANGED <<bridge, byomCharged, terminal, late, lateComplete>>
    BY <1>5 DEF byomVars
  <2>2. BridgesOK' /\ SagasOK'  BY <1>1, <2>1, Frame
  <2>3. PeerKeeps  BY <2>1 DEF PeerKeeps
  <2>4. PeerTypeOK'  BY <2>1, Shapes DEF PeerTypeOK, TailTypeOK
  <2>5. call' \in CallRow /\ CallOK' /\ ResumeOK' /\ ModeOK'
    BY <1>1, <1>2, <1>5, <2>1, <2>3, AnswerComes
  <2> QED  BY <2>2, <2>4, <2>5
<1>6. ASSUME Answered("unknown", 0),
             late' = IF bridge[e] = "confirmed"
                     THEN [late EXCEPT ![e] = late[e] \union {c}] ELSE late,
             ~terminal[e],
             UNCHANGED <<bridge, byomCharged, terminal, lateComplete>>
      PROVE  Heard
  <2>1. PeerKeeps  BY <1>6 DEF PeerKeeps
  <2>2. late \in [Keys -> SUBSET Nat]  BY Shapes DEF TailTypeOK
  <2>3. late' \in [Keys -> SUBSET Nat]  BY <1>2, <1>6, <2>2
  <2>4. /\ \A f \in Keys \ {e} : late'[f] = late[f]
        /\ bridge[e] # "confirmed" => late'[e] = late[e]
        /\ \A x \in late'[e] : x \in late[e] \/ x = c
    BY <1>2, <1>6, <2>2
  <2>5. BridgesOK'
    <3>1. BridgeOK(e)'
      BY <1>1, <1>2, <1>6, <2>4 DEF Inv, TailInv, BridgesOK, BridgeOK
    <3>2. ASSUME NEW f \in Keys \ {e}  PROVE BridgeOK(f)'
      BY <1>1, <1>6, <2>4 DEF Inv, TailInv, BridgesOK, BridgeOK
    <3> QED  BY <3>1, <3>2 DEF BridgesOK
  <2>6. SagasOK'  BY <1>1, <1>6, Frame
  <2>7. PeerTypeOK'  BY <1>6, <2>3, Shapes DEF PeerTypeOK, TailTypeOK
  <2>8. call' \in CallRow /\ CallOK' /\ ResumeOK' /\ ModeOK'
    BY <1>1, <1>6, <2>1, AnswerComes
  <2> QED  BY <2>5, <2>6, <2>7, <2>8
<1>7. Heard  BY <1>4, <1>5, <1>6 DEF AskSettlement
<1>8. TailTypeOK'  BY <1>1, <1>7, Shapes DEF TailTypeOK, PeerTypeOK
<1> QED  BY <1>3, <1>7, <1>8 DEF TailInv

LEMMA ApplyEvidenceTail ==
    ASSUME Inv, ApplyEvidence
    PROVE  TailInv'
<1>1. /\ call.step = "apply" /\ call.op = "evidence" /\ handler = Idle
      /\ Goto("report") \/ call' = NoCall
      /\ UNCHANGED <<state, charged, amount, holdState, holdCharged, saga, handler, created,
                     binding, tail, effect, spent, reported, mode, sagasToDo, tailsToDo,
                     bridge, byomCharged, terminal, late, lateComplete>>
  BY DEF ApplyEvidence, At, Return, sagaVars, ledgerVars, recordVars, holdVars, localVars,
     sweepVars, byomVars
<1>2. LocalsOK' /\ BridgesOK' /\ TailsOK' /\ SagasOK' /\ HandlerOK'  BY <1>1, Frame
<1>3. mode = "serving"  BY <1>1 DEF Inv, TailInv, ModeOK
<1>4. CASE call' = NoCall
  <2>1. call' \in CallRow /\ CallOK' /\ ResumeOK'  BY <1>4, Returns
  <2>2. ModeOK'  BY <1>1, <1>3, <1>4, Serves
  <2>3. TailTypeOK'  BY <1>1, <2>1, Shapes DEF TailTypeOK
  <2> QED  BY <1>2, <2>1, <2>2, <2>3 DEF TailInv
<1>5. CASE Goto("report")
  <2>1. /\ call' \in CallRow /\ call'.step = "report" /\ call'.op = call.op
        /\ call'.key = call.key /\ call'.kind = call.kind /\ call'.answer = call.answer
    BY <1>5, GoesOn DEF Steps
  <2>2. ModeOK'  BY <1>1, <1>3, <2>1, Serves
  <2>3. CallOK'  BY <1>1, <2>1 DEF Inv, TailInv, CallOK, PastSettlement
  <2>4. ResumeOK'  BY <1>1, <2>1 DEF ResumeOK, PastSettlement
  <2>5. TailTypeOK'  BY <1>1, <2>1, Shapes DEF TailTypeOK
  <2> QED  BY <1>2, <2>2, <2>3, <2>4, <2>5 DEF TailInv
<1> QED  BY <1>1, <1>4, <1>5

LEMMA RecordReportTail ==
    ASSUME Inv, RecordReport
    PROVE  TailInv'
<1>1. /\ call.step = "report" /\ handler = Idle /\ call' = NoCall
      /\ reported' = [reported EXCEPT ![call.key] = TRUE]
      /\ UNCHANGED <<state, charged, amount, holdState, holdCharged, saga, handler, created,
                     binding, tail, effect, spent, mode, sagasToDo, tailsToDo,
                     bridge, byomCharged, terminal, late, lateComplete>>
  BY DEF RecordReport, At, Return, sagaVars, ledgerVars, recordVars, holdVars, sweepVars,
     byomVars
<1>2. LocalsOK' /\ BridgesOK' /\ TailsOK' /\ SagasOK' /\ HandlerOK'  BY <1>1, Frame
<1>3. mode = "serving"  BY <1>1 DEF Inv, TailInv, ResumeOK, ModeOK, PastSettlement
<1>4. call' \in CallRow /\ CallOK' /\ ResumeOK'  BY <1>1, Returns
<1>5. ModeOK'  BY <1>1, <1>3, Serves
<1>6. TailTypeOK'
  <2>1. reported' \in [Keys -> BOOLEAN]  BY <1>1, Shapes DEF TailTypeOK
  <2> QED  BY <1>1, <1>4, <2>1, Shapes DEF TailTypeOK
<1> QED  BY <1>2, <1>4, <1>5, <1>6 DEF TailInv

\* What an operation at its settlement has established.
LEMMA AtSettlement ==
    ASSUME Inv, call.step \in {"apply", "settle"}
    PROVE  /\ call.key \in Keys /\ call.op # "none" /\ bridge[call.key] # "none"
           /\ <<call.key, call.kind>> \in Sagas /\ call.kind # "terminal"
           /\ call.op \in {"complete", "resume"} =>
                 /\ call.from = "settling" /\ binding[call.key] # "none"
                 /\ holdState[call.key] # "released"
BY Shapes DEF Inv, TailInv, CallOK, ResumeOK, CallRow, PastSettlement

\* The error path of a settlement: a resumed tail is left where it was.
LEMMA FailsToSettle ==
    ASSUME Inv, call.step \in {"apply", "settle"}, Fail,
           UNCHANGED <<state, holdState, binding, mode, tailsToDo>>
    PROVE  /\ call' \in CallRow /\ CallOK' /\ ResumeOK' /\ ModeOK' /\ TailsOK'
           /\ tail' \in [Keys -> TailPhase]
<1> SUFFICES ASSUME NEW e \in Keys, e = call.key
             PROVE  /\ call' \in CallRow /\ CallOK' /\ ResumeOK' /\ ModeOK' /\ TailsOK'
                    /\ tail' \in [Keys -> TailPhase]
  BY AtSettlement
<1>1. call' = NoCall  BY DEF Fail, Return
<1>2. call' \in CallRow /\ CallOK' /\ ResumeOK'  BY <1>1, Returns
<1>3. tail \in [Keys -> TailPhase]  BY Shapes DEF TailTypeOK
<1>4. CASE tail' = tail /\ call.op # "resume"
  <2>1. ModeOK'  BY <1>1, <1>4, Ends
  <2>2. TailsOK'  BY <1>4, Frame
  <2> QED  BY <1>2, <1>3, <1>4, <2>1, <2>2
<1>5. CASE call.op = "resume"
  <2>1. tail' = [tail EXCEPT ![e] = "settling"]  BY <1>5, AtSettlement DEF Fail
  <2>2. tail'[e] = "settling" /\ \A f \in Keys \ {e} : tail'[f] = tail[f]
    BY <1>3, <2>1
  <2>3. tail' \in [Keys -> TailPhase]  BY <1>3, <2>1 DEF TailPhase
  <2>4. ModeOK'  BY <1>1, <2>2, Ends
  <2>5. TailsOK'
    <3>1. binding[e] # "none" /\ holdState[e] # "released"  BY <1>5, AtSettlement
    <3> QED  BY <2>2, <3>1 DEF Inv, TailInv, TailsOK, TailOK
  <2> QED  BY <1>2, <2>3, <2>4, <2>5
<1> QED  BY <1>4, <1>5 DEF Fail

\* A stamp on the row of a settlement that was begun.
LEMMA Stamped ==
    ASSUME Inv, NEW s \in Sagas, NEW phase \in SagaPhase, phase # "none",
           SettleResolve(s, phase), UNCHANGED <<bridge, byomCharged>>,
           sagasToDo' \subseteq sagasToDo
    PROVE  /\ UNCHANGED <<state, charged, amount, holdState, holdCharged, handler>>
           /\ SagasOK'
<1>1. /\ saga' = [saga EXCEPT ![s].phase = phase] /\ saga[s].phase # "none"
      /\ UNCHANGED <<state, charged, amount, holdState, holdCharged, handler>>
  BY DEF SettleResolve, recordVars, holdVars
<1>2. saga[s] \in [phase : SagaPhase, key : Keys, dim : Dims, charge : Nat]
  BY <1>1, Shapes
<1>3. saga \in [Sagas -> {NoSaga} \union
                  [phase : SagaPhase, key : Keys, dim : Dims, charge : Nat]]
  BY DEF Inv, SafeLedger, LedgerTypeOK
<1>4. /\ saga'[s].phase = phase /\ saga'[s].key = saga[s].key /\ saga'[s].dim = saga[s].dim
      /\ saga'[s].charge = saga[s].charge
      /\ \A t \in Sagas \ {s} : saga'[t] = saga[t]
  BY <1>1, <1>2, <1>3
<1>5. SagasOK'  BY <1>1, <1>4 DEF Inv, TailInv, SagasOK
<1> QED  BY <1>1, <1>5

LEMMA ApplySettledTail ==
    ASSUME Inv, ApplySettled
    PROVE  TailInv'
<1> SUFFICES ASSUME NEW e, e = call.key, NEW s, s = <<call.key, call.kind>>,
                    NEW c, c = call.answer.charge
             PROVE  TailInv'
  OBVIOUS
<1>1. /\ call.step = "apply" /\ call.op # "evidence" /\ call.answer.is = "settled"
      /\ handler = Idle
      /\ UNCHANGED <<created, binding, effect, spent, reported, mode, tailsToDo, bridge,
                     byomCharged, terminal, late, lateComplete>>
  BY DEF ApplySettled, At, byomVars
<1>2. /\ e \in Keys /\ s \in Sagas /\ s[1] = e /\ c \in Nat /\ call.op # "none"
      /\ bridge[e] = "settled" /\ byomCharged[e] = c /\ call.kind # "terminal"
  BY <1>1, AtSettlement, Shapes DEF CallRow, Inv, TailInv, CallOK
<1>3. ASSUME PeerAboveCap(s, c), Fail, sagasToDo' \in {sagasToDo, {}}
      PROVE  TailInv'
  <2>1. SettleResolve(s, "unknown")  BY <1>3 DEF PeerAboveCap, SettleResolve
  <2>2. /\ UNCHANGED <<state, charged, amount, holdState, holdCharged, handler>>
        /\ SagasOK'
    BY <1>1, <1>2, <1>3, <2>1, Stamped DEF SagaPhase
  <2>3. LocalsOK' /\ BridgesOK' /\ HandlerOK'  BY <1>1, <2>2, Frame
  <2>4. /\ call' \in CallRow /\ CallOK' /\ ResumeOK' /\ ModeOK' /\ TailsOK'
        /\ tail' \in [Keys -> TailPhase]
    BY <1>1, <1>3, <2>2, FailsToSettle
  <2>5. TailTypeOK'  BY <1>1, <1>3, <2>4, Shapes DEF TailTypeOK
  <2> QED  BY <2>2, <2>3, <2>4, <2>5 DEF TailInv
<1>4. ASSUME state'[e] = "settled", \A f \in Keys \ {e} : state'[f] = state[f],
             Proceed(StepAfterSettled), UNCHANGED <<tail, sagasToDo, holdState>>,
             state[e] \notin {"absent", "requested"},
             LocalsOK', SagasOK', HandlerOK', UNCHANGED amount
      PROVE  TailInv'
  <2>1. BridgesOK'
    BY <1>1, <1>2, <1>4 DEF Inv, TailInv, BridgesOK, BridgeOK
  <2>2. TailsOK'  BY <1>1, <1>4 DEF Inv, TailInv, TailsOK, TailOK
  <2>3. call' \in CallRow /\ CallOK' /\ ResumeOK' /\ ModeOK'
    <3>1. CASE call.op \notin {"complete", "resume", "meter"}
      <4>1. call' = NoCall  BY <1>2, <1>4, <3>1 DEF Proceed, StepAfterSettled, Return
      <4> QED  BY <1>1, <1>4, <3>1, <4>1, Returns, Ends, <1>2
    <3>2. ASSUME NEW step \in {"settled", "report"}, Goto(step),
                 call.op \in {"complete", "resume", "meter"},
                 step = "settled" <=> call.op \in {"complete", "resume"}
          PROVE  call' \in CallRow /\ CallOK' /\ ResumeOK' /\ ModeOK'
      <4>1. /\ call' \in CallRow /\ call'.step = step /\ call'.op = call.op
            /\ call'.key = e /\ call'.kind = call.kind /\ call'.charge = call.charge
            /\ call'.answer = call.answer /\ call'.from = call.from
        BY <1>2, <3>2, GoesOn DEF Steps
      <4>2. CallOK'  BY <1>1, <1>2, <3>2, <4>1 DEF CallOK, PastSettlement
      <4>3. ResumeOK'
        BY <1>1, <1>2, <1>4, <3>2, <4>1, AtSettlement DEF ResumeOK, PastSettlement
      <4>4. ModeOK'  BY <1>1, <1>2, <1>4, <4>1, CarriesOn
      <4> QED  BY <4>1, <4>2, <4>3, <4>4
    <3>3. CASE call.op = "meter"
      <4>1. Goto("report")  BY <1>2, <1>4, <3>3 DEF Proceed, StepAfterSettled
      <4> QED  BY <3>2, <3>3, <4>1
    <3>4. CASE call.op \in {"complete", "resume"}
      <4>1. Goto("settled")  BY <1>2, <1>4, <3>4 DEF Proceed, StepAfterSettled
      <4> QED  BY <3>2, <3>4, <4>1
    <3> QED  BY <3>1, <3>3, <3>4
  <2>5. TailTypeOK'  BY <1>1, <1>4, <2>3, Shapes DEF TailTypeOK
  <2> QED  BY <1>4, <2>1, <2>2, <2>3, <2>5 DEF TailInv
<1>5. ASSUME state[e] = "settled", UNCHANGED ledgerVars, Proceed(StepAfterSettled),
             UNCHANGED <<tail, sagasToDo>>
      PROVE  TailInv'
  <2>1. UNCHANGED <<state, charged, amount, holdState, holdCharged, saga, handler>>
    BY <1>5 DEF ledgerVars, recordVars, holdVars
  <2>2. LocalsOK' /\ SagasOK' /\ HandlerOK'  BY <1>1, <1>5, <2>1, Frame
  <2> QED  BY <1>4, <1>5, <2>1, <2>2
<1>6. ASSUME SettleCommit(s, c), Proceed(StepAfterSettled), UNCHANGED <<tail, sagasToDo>>
      PROVE  TailInv'
  <2>1. saga[s].phase # "none"  BY <1>6 DEF SettleCommit
  <2>2. saga[s].key = e /\ state[e] \notin {"absent", "requested"}
    BY <1>2, <2>1 DEF Inv, TailInv, SagasOK
  <2>3. /\ state' = [state EXCEPT ![e] = "settled"]
        /\ charged' = [charged EXCEPT ![e] = c]
        /\ saga' = [saga EXCEPT ![s].phase = "settled"]
        /\ handler' = [step |-> "settled", key |-> e]
        /\ UNCHANGED <<amount, holdState>>
        /\ \A f \in Keys \ {e} : holdCharged'[f] = holdCharged[f]
    BY <2>2, <1>6, Shapes DEF SettleCommit, Then
  <2>4. /\ state'[e] = "settled" /\ charged'[e] = c
        /\ \A f \in Keys \ {e} : state'[f] = state[f] /\ charged'[f] = charged[f]
    BY <1>2, <2>3, Shapes
  <2>5. LocalsOK'
    BY <1>2, <2>2, <2>3, <2>4 DEF Inv, TailInv, LocalsOK, LocalOK
  <2>6. HandlerOK'  BY <2>3 DEF HandlerOK
  <2>7. SagasOK'
    <3>1. saga[s] \in [phase : SagaPhase, key : Keys, dim : Dims, charge : Nat]
      BY <1>2, <2>1, Shapes
    <3>2. saga \in [Sagas -> {NoSaga} \union
                      [phase : SagaPhase, key : Keys, dim : Dims, charge : Nat]]
      BY DEF Inv, SafeLedger, LedgerTypeOK
    <3>3. /\ saga'[s].phase = "settled" /\ saga'[s].key = saga[s].key
          /\ saga'[s].dim = saga[s].dim /\ saga'[s].charge = saga[s].charge
          /\ \A t \in Sagas \ {s} : saga'[t] = saga[t]
      BY <1>2, <2>3, <3>1, <3>2
    <3>4. \A t \in Sagas : t[1] \in Keys  BY Shapes
    <3> QED
      BY <1>1, <1>2, <1>6, <2>1, <2>3, <2>4, <3>3, <3>4 DEF Inv, TailInv, SagasOK
  <2> QED  BY <1>4, <1>6, <2>2, <2>3, <2>4, <2>5, <2>6, <2>7
<1> QED  BY <1>1, <1>3, <1>5, <1>6 DEF ApplySettled

LEMMA ApplyUnsettledTail ==
    ASSUME Inv, ApplyUnsettled
    PROVE  TailInv'
<1> SUFFICES ASSUME NEW e, e = call.key, NEW s, s = <<call.key, call.kind>>
             PROVE  TailInv'
  OBVIOUS
<1>1. /\ call.step = "apply" /\ call.op # "evidence" /\ handler = Idle
      /\ SettleDenied(s) \/ SettleUnknown(s) \/ UNCHANGED ledgerVars
      /\ \/ Goto("report") /\ UNCHANGED tail /\ call.op = "meter"
            /\ call.answer.is = "denied"
         \/ Fail
      /\ UNCHANGED <<created, binding, effect, spent, reported, mode, sagasToDo, tailsToDo,
                     bridge, byomCharged, terminal, late, lateComplete>>
  BY DEF ApplyUnsettled, At, byomVars, sweepVars
<1>2. /\ e \in Keys /\ s \in Sagas /\ call.op # "none" /\ bridge[e] # "none"
      /\ call.kind # "terminal"
  BY <1>1, AtSettlement
<1>3. /\ UNCHANGED <<state, charged, amount, holdState, holdCharged, handler>>
      /\ SagasOK'
  <2>1. CASE SettleDenied(s) \/ SettleUnknown(s)
    BY <1>1, <1>2, <2>1, Stamped DEF SettleDenied, SettleUnknown, SagaPhase
  <2>2. CASE UNCHANGED ledgerVars
    <3>1. UNCHANGED <<state, charged, amount, holdState, holdCharged, saga, handler>>
      BY <2>2 DEF ledgerVars, recordVars, holdVars
    <3> QED  BY <1>1, <3>1, Frame
  <2> QED  BY <1>1, <2>1, <2>2
<1>4. LocalsOK' /\ BridgesOK' /\ HandlerOK'  BY <1>1, <1>3, Frame
<1>5. CASE Fail
  <2>1. /\ call' \in CallRow /\ CallOK' /\ ResumeOK' /\ ModeOK' /\ TailsOK'
        /\ tail' \in [Keys -> TailPhase]
    BY <1>1, <1>3, <1>5, FailsToSettle
  <2>2. TailTypeOK'  BY <1>1, <2>1, Shapes DEF TailTypeOK
  <2> QED  BY <1>3, <1>4, <2>1, <2>2 DEF TailInv
<1>6. ASSUME Goto("report"), UNCHANGED tail, call.op = "meter", call.answer.is = "denied"
      PROVE  TailInv'
  <2>1. /\ call' \in CallRow /\ call'.step = "report" /\ call'.op = call.op
        /\ call'.key = e /\ call'.kind = call.kind /\ call'.answer = call.answer
    BY <1>6, GoesOn DEF Steps
  <2>2. TailsOK'  BY <1>1, <1>3, <1>6, Frame
  <2>3. ModeOK'  BY <1>1, <1>2, <1>3, <1>6, <2>1, CarriesOn
  <2>4. CallOK'
    BY <1>1, <1>2, <1>6, <2>1 DEF CallOK, PastSettlement
  <2>5. ResumeOK'  BY <1>6, <2>1 DEF ResumeOK, PastSettlement
  <2>6. TailTypeOK'  BY <1>1, <1>6, <2>1, Shapes DEF TailTypeOK
  <2> QED  BY <1>3, <1>4, <2>1, <2>2, <2>3, <2>4, <2>5, <2>6 DEF TailInv
<1> QED  BY <1>1, <1>5, <1>6

-----------------------------------------------------------------------------
(* The terminal tail.                                                      *)

LEMMA CompleteTail ==
    ASSUME Inv, NEW e \in Keys, Complete(e)
    PROVE  TailInv'
<1>1. /\ mode = "serving" /\ handler = Idle /\ call = NoCall /\ binding[e] = "bound"
      /\ tail' = [tail EXCEPT ![e] = "settling"]
      /\ call' = [op |-> "complete", key |-> e, kind |-> "complete", charge |-> 0,
                  step |-> "settle", from |-> "settling", answer |-> NoAnswer]
      /\ UNCHANGED <<state, charged, amount, holdState, holdCharged, saga, handler, created,
                     binding, effect, spent, reported, mode, sagasToDo, tailsToDo, bridge,
                     byomCharged, terminal, late, lateComplete>>
  BY DEF Complete, Serving, NoCall, sagaVars, ledgerVars, recordVars, holdVars, sweepVars,
     byomVars
<1>2. /\ bridge[e] # "none" /\ holdState[e] # "released" /\ <<e, "complete">> \in Sagas
  BY <1>1, SagasAssumption DEF Inv, TailInv, BridgesOK, BridgeOK, TailsOK, TailOK
<1>3. call' \in CallRow  BY <1>1 DEF CallRow, Steps, NoAnswer, Unfinished
<1>4. LocalsOK' /\ BridgesOK' /\ SagasOK' /\ HandlerOK'  BY <1>1, Frame
<1>5. ModeOK'  BY <1>1, Serves
<1>6. CallOK'  BY <1>1, <1>2 DEF CallOK, NoAnswer, PastSettlement
<1>7. ResumeOK'  BY <1>1, <1>2 DEF ResumeOK, PastSettlement
<1>8. TailsOK'
  <2>1. tail'[e] = "settling" /\ \A f \in Keys \ {e} : tail'[f] = tail[f]
    BY <1>1, Shapes DEF TailTypeOK
  <2> QED  BY <1>1, <1>2, <2>1 DEF Inv, TailInv, TailsOK, TailOK
<1>9. TailTypeOK'
  <2>1. tail' \in [Keys -> TailPhase]  BY <1>1, Shapes DEF TailTypeOK, TailPhase
  <2> QED  BY <1>1, <1>3, <2>1, Shapes DEF TailTypeOK
<1> QED  BY <1>4, <1>5, <1>6, <1>7, <1>8, <1>9 DEF TailInv

LEMMA TerminalSettlementTail ==
    ASSUME Inv, TerminalSettlement
    PROVE  TailInv'
<1> SUFFICES ASSUME NEW e, e = call.key, NEW s, s = <<call.key, "complete">>,
                    NEW c, c = MeteredTotal(call.key)
             PROVE  TailInv'
  OBVIOUS
<1>1. /\ call.step = "settle" /\ handler = Idle
      /\ UNCHANGED <<binding, effect, spent, reported, mode, sagasToDo, tailsToDo, bridge,
                     byomCharged, terminal, late, lateComplete>>
  BY DEF TerminalSettlement, At, sweepVars, byomVars
<1>2. /\ e \in Keys /\ bridge[e] # "none" /\ <<e, call.kind>> \in Sagas
      /\ call.op \in {"complete", "resume"} /\ call.from = "settling"
      /\ binding[e] # "none" /\ holdState[e] # "released"
      /\ call.answer.is # "maxed" \/ bridge[e] = "maxed"
  BY <1>1, AtSettlement DEF Inv, TailInv, ResumeOK, CallOK
<1>3. s \in Sagas /\ s[1] = e /\ s[2] # "terminal" /\ c \in Nat /\ state[e] # "absent"
  BY <1>2, SagasAssumption, Shapes
  DEF MeteredTotal, TailTypeOK, Inv, TailInv, BridgesOK, BridgeOK
<1>4. ASSUME state[e] # "confirmed", Goto("settled"), UNCHANGED <<sagaVars, tail>>
      PROVE  TailInv'
  <2>1. /\ call' \in CallRow /\ call'.step = "settled" /\ call'.op = call.op
        /\ call'.key = e /\ call'.kind = call.kind /\ call'.from = call.from
        /\ call'.answer = call.answer
    BY <1>4, GoesOn DEF Steps
  <2>2. UNCHANGED <<state, charged, amount, holdState, holdCharged, saga, handler, created>>
    BY <1>4 DEF sagaVars, ledgerVars, recordVars, holdVars
  <2>3. LocalsOK' /\ BridgesOK' /\ TailsOK' /\ SagasOK' /\ HandlerOK'
    BY <1>1, <1>4, <2>2, Frame
  <2>4. ModeOK'  BY <1>1, <1>4, <2>1, <2>2, CarriesOn
  <2>5. CallOK'  BY <1>1, <1>2, <2>1 DEF CallOK, PastSettlement
  <2>6. ResumeOK'
    BY <1>1, <1>2, <1>3, <1>4, <2>1, <2>2 DEF ResumeOK, PastSettlement
  <2>7. TailTypeOK'  BY <1>1, <1>4, <2>1, <2>2, Shapes DEF TailTypeOK
  <2> QED  BY <2>3, <2>4, <2>5, <2>6, <2>7 DEF TailInv
<1>5. ASSUME Begins(s, c), Begin(s, c), UNCHANGED tail,
             call' = [call EXCEPT !.step = "ask", !.charge = c]
      PROVE  TailInv'
  <2>1. call' = [op |-> call.op, key |-> call.key, kind |-> call.kind, charge |-> c,
                 step |-> "ask", from |-> call.from, answer |-> call.answer]
    BY <1>5, Shapes DEF CallRow
  <2>2. /\ call' \in CallRow /\ call'.step = "ask" /\ call'.op = call.op /\ call'.key = e
        /\ call'.kind = call.kind /\ call'.charge = c /\ call'.from = call.from
        /\ call'.answer = call.answer
    BY <1>3, <2>1, Shapes DEF CallRow, Steps
  <2>3. /\ UNCHANGED <<state, charged, amount, holdState, holdCharged, handler>>
        /\ created' \in Seq(Sagas) /\ c <= amount[e][Unit] /\ SagasOK'
    BY <1>1, <1>2, <1>3, <1>5, Begun
  <2>4. LocalsOK' /\ BridgesOK' /\ TailsOK' /\ HandlerOK'  BY <1>1, <1>5, <2>3, Frame
  <2>5. ModeOK'  BY <1>1, <1>5, <2>2, <2>3, CarriesOn
  <2>6. CallOK'  BY <1>1, <1>2, <2>2, <2>3 DEF CallOK, PastSettlement
  <2>7. ResumeOK'  BY <1>1, <1>2, <2>2, <2>3 DEF ResumeOK, PastSettlement
  <2>8. TailTypeOK'  BY <1>1, <1>5, <2>2, <2>3, Shapes DEF TailTypeOK
  <2> QED  BY <2>3, <2>4, <2>5, <2>6, <2>7, <2>8 DEF TailInv
<1>6. ASSUME Fail, UNCHANGED sagaVars
      PROVE  TailInv'
  <2>1. UNCHANGED <<state, charged, amount, holdState, holdCharged, saga, handler, created>>
    BY <1>6 DEF sagaVars, ledgerVars, recordVars, holdVars
  <2>2. /\ call' \in CallRow /\ CallOK' /\ ResumeOK' /\ ModeOK' /\ TailsOK'
        /\ tail' \in [Keys -> TailPhase]
    BY <1>1, <1>6, <2>1, FailsToSettle
  <2>3. LocalsOK' /\ BridgesOK' /\ SagasOK' /\ HandlerOK'  BY <1>1, <2>1, Frame
  <2>4. TailTypeOK'  BY <1>1, <2>1, <2>2, Shapes DEF TailTypeOK
  <2> QED  BY <2>2, <2>3, <2>4 DEF TailInv
<1> QED  BY <1>4, <1>5, <1>6 DEF TerminalSettlement

\* What a tail past its settlement has established.
LEMMA AtTail ==
    ASSUME Inv, call.step \in PastSettlement
    PROVE  /\ call.key \in Keys /\ bridge[call.key] # "none"
           /\ <<call.key, call.kind>> \in Sagas /\ call.op \in {"complete", "resume"}
           /\ binding[call.key] # "none" /\ state[call.key] \notin {"absent", "confirmed"}
           /\ call.from \in Unfinished
           /\ holdState[call.key] = "released" => call.from = "releasing" \/ call.step = "close"
           /\ call.op = "complete" => call.from = "settling"
           /\ call.op = "resume" /\ call.from # "settling" =>
                 /\ call.step # "settled"
                 /\ call.from = "releasing" => binding[call.key] = "released"
           /\ call.answer.is = "maxed" => bridge[call.key] = "maxed"
BY Shapes DEF Inv, TailInv, CallOK, ResumeOK, CallRow, PastSettlement

LEMMA TailSettledTail ==
    ASSUME Inv, TailSettled
    PROVE  TailInv'
<1> SUFFICES ASSUME NEW e, e = call.key  PROVE TailInv'
  OBVIOUS
<1>1. /\ call.step = "settled" /\ handler = Idle /\ Goto("terminalize")
      /\ tail' = [tail EXCEPT ![e] = "peer_pending"]
      /\ UNCHANGED <<state, charged, amount, holdState, holdCharged, saga, handler, created,
                     binding, effect, spent, reported, mode, sagasToDo, tailsToDo, bridge,
                     byomCharged, terminal, late, lateComplete>>
  BY DEF TailSettled, At, sagaVars, ledgerVars, recordVars, holdVars, sweepVars, byomVars
<1>2. /\ e \in Keys /\ bridge[e] # "none" /\ <<e, call.kind>> \in Sagas
      /\ call.op \in {"complete", "resume"} /\ binding[e] # "none"
      /\ state[e] \notin {"absent", "confirmed"} /\ holdState[e] # "released"
      /\ call.from = "settling" /\ (call.answer.is = "maxed" => bridge[e] = "maxed")
  BY <1>1, AtTail DEF PastSettlement
<1>3. /\ call' \in CallRow /\ call'.step = "terminalize" /\ call'.op = call.op
      /\ call'.key = e /\ call'.kind = call.kind /\ call'.from = call.from
      /\ call'.answer = call.answer
  BY <1>1, GoesOn DEF Steps
<1>4. tail'[e] = "peer_pending" /\ \A f \in Keys \ {e} : tail'[f] = tail[f]
  BY <1>1, <1>2, Shapes DEF TailTypeOK
<1>5. LocalsOK' /\ BridgesOK' /\ SagasOK' /\ HandlerOK'  BY <1>1, Frame
<1>6. TailsOK'  BY <1>1, <1>2, <1>4 DEF Inv, TailInv, TailsOK, TailOK
<1>7. ModeOK'  BY <1>1, <1>3, <1>4, CarriesOn
<1>8. CallOK'  BY <1>1, <1>2, <1>3 DEF CallOK, PastSettlement
<1>9. ResumeOK'  BY <1>1, <1>2, <1>3 DEF ResumeOK, PastSettlement
<1>10. TailTypeOK'
  <2>1. tail' \in [Keys -> TailPhase]  BY <1>1, Shapes DEF TailTypeOK, TailPhase
  <2> QED  BY <1>1, <1>3, <2>1, Shapes DEF TailTypeOK
<1> QED  BY <1>5, <1>6, <1>7, <1>8, <1>9, <1>10 DEF TailInv

\* The error path of a tail: a resumed one is left in the phase it was found in.
LEMMA TailFails ==
    ASSUME Inv, call.step \in {"terminalize", "adopt"}, Fail,
           call.from # "settling" => state[call.key] \notin {"settled", "released"},
           UNCHANGED <<state, holdState, binding, mode, tailsToDo>>
    PROVE  /\ call' \in CallRow /\ CallOK' /\ ResumeOK' /\ ModeOK' /\ TailsOK'
           /\ tail' \in [Keys -> TailPhase]
<1> SUFFICES ASSUME NEW e \in Keys, e = call.key
             PROVE  /\ call' \in CallRow /\ CallOK' /\ ResumeOK' /\ ModeOK' /\ TailsOK'
                    /\ tail' \in [Keys -> TailPhase]
  BY AtTail DEF PastSettlement
<1>1. call' = NoCall  BY DEF Fail, Return
<1>2. call' \in CallRow /\ CallOK' /\ ResumeOK'  BY <1>1, Returns
<1>3. tail \in [Keys -> TailPhase]  BY Shapes DEF TailTypeOK
<1>4. /\ binding[e] # "none" /\ state[e] # "confirmed" /\ call.from \in Unfinished
      /\ call.op = "resume" /\ call.from = "releasing" => binding[e] = "released"
      /\ holdState[e] = "released" => call.from = "releasing"
  BY AtTail DEF PastSettlement
<1>5. CASE tail' = tail /\ call.op # "resume"
  <2>1. ModeOK'  BY <1>1, <1>5, Ends
  <2>2. TailsOK'  BY <1>5, Frame
  <2> QED  BY <1>2, <1>3, <1>5, <2>1, <2>2
<1>6. CASE call.op = "resume"
  <2>1. tail' = [tail EXCEPT ![e] = call.from]  BY <1>6 DEF Fail
  <2>2. tail'[e] = call.from /\ \A f \in Keys \ {e} : tail'[f] = tail[f]
    BY <1>3, <2>1
  <2>3. tail' \in [Keys -> TailPhase]
    BY <1>3, <1>4, <2>1 DEF TailPhase, Unfinished
  <2>4. ModeOK'  BY <1>1, <2>2, Ends
  <2>5. TailsOK'
    BY <1>4, <1>6, <2>2 DEF Inv, TailInv, TailsOK, TailOK, Unfinished
  <2> QED  BY <1>2, <2>3, <2>4, <2>5
<1> QED  BY <1>5, <1>6 DEF Fail

LEMMA AskCompleteTail ==
    ASSUME Inv, AskComplete
    PROVE  TailInv'
<1> SUFFICES ASSUME NEW e, e = call.key  PROVE TailInv'
  OBVIOUS
<1>1. /\ call.step = "terminalize" /\ handler = Idle
      /\ UNCHANGED <<state, charged, amount, holdState, holdCharged, saga, handler, created,
                     binding, effect, spent, reported, mode, sagasToDo, tailsToDo>>
  BY DEF AskComplete, At, sagaVars, ledgerVars, recordVars, holdVars, sweepVars
<1>2. /\ e \in Keys /\ bridge[e] # "none" /\ <<e, call.kind>> \in Sagas
      /\ call.op \in {"complete", "resume"} /\ binding[e] # "none"
      /\ state[e] \notin {"absent", "confirmed"} /\ call.from \in Unfinished
      /\ holdState[e] = "released" => call.from = "releasing"
      /\ call.op = "complete" => call.from = "settling"
      /\ call.op = "resume" /\ call.from = "releasing" => binding[e] = "released"
      /\ call.answer.is = "maxed" => bridge[e] = "maxed"
  BY <1>1, AtTail DEF PastSettlement
<1>3. LocalsOK' /\ HandlerOK'  BY <1>1, Frame
<1>4. ASSUME call' \in CallRow, call'.step = "unbind", call'.op = call.op, call'.key = e,
             call'.kind = call.kind, call'.from = call.from, UNCHANGED tail,
             call'.answer.is = "maxed" \/ bridge'[e] = "settled",
             call'.answer.is = "maxed" => bridge'[e] = "maxed",
             BridgesOK', SagasOK', PeerKeeps, PeerTypeOK'
      PROVE  TailInv'
  <2>1. TailsOK'  BY <1>1, <1>4, Frame
  <2>2. ModeOK'  BY <1>1, <1>4, CarriesOn
  <2>3. CallOK'  BY <1>1, <1>2, <1>4 DEF CallOK, PeerKeeps, PastSettlement
  <2>4. ResumeOK'  BY <1>1, <1>2, <1>4 DEF ResumeOK, PastSettlement, Unfinished
  <2>5. TailTypeOK'  BY <1>1, <1>4, Shapes DEF TailTypeOK, PeerTypeOK
  <2> QED  BY <1>3, <1>4, <2>1, <2>2, <2>3, <2>4, <2>5 DEF TailInv
<1>5. ASSUME NEW c \in TerminalCharges(e), Terminalize(e, c), UNCHANGED tail,
             call' = [call EXCEPT !.step = "unbind",
                         !.answer = [is |-> bridge'[e], charge |-> c]]
      PROVE  TailInv'
  <2>1. /\ BridgesOK' /\ SagasOK' /\ PeerKeeps /\ PeerTypeOK' /\ c \in Nat
        /\ bridge'[e] = "settled" \/ bridge'[e] = "maxed"
    BY <1>1, <1>2, <1>5, PeerTerminalizes
  <2>2. call' = [op |-> call.op, key |-> call.key, kind |-> call.kind,
                 charge |-> call.charge, step |-> "unbind", from |-> call.from,
                 answer |-> [is |-> bridge'[e], charge |-> c]]
    BY <1>5, Shapes DEF CallRow
  <2>3. /\ call' \in CallRow /\ call'.step = "unbind" /\ call'.op = call.op
        /\ call'.key = e /\ call'.kind = call.kind /\ call'.from = call.from
        /\ call'.answer.is = bridge'[e]
    BY <2>1, <2>2, Shapes DEF CallRow, Steps
  <2> QED  BY <1>4, <1>5, <2>1, <2>3
<1>6. ASSUME lateComplete' = [lateComplete EXCEPT ![e] = ~terminal[e]],
             UNCHANGED <<bridge, byomCharged, terminal, late>>
      PROVE  BridgesOK' /\ SagasOK' /\ PeerKeeps /\ PeerTypeOK'
  <2>1. PeerKeeps  BY <1>6 DEF PeerKeeps
  <2>2. SagasOK'  BY <1>1, <1>6, Frame
  <2>3. /\ lateComplete' \in [Keys -> BOOLEAN]
        /\ lateComplete'[e] = ~terminal[e]
        /\ \A f \in Keys \ {e} : lateComplete'[f] = lateComplete[f]
    BY <1>2, <1>6, Shapes DEF TailTypeOK
  <2>4. PeerTypeOK'  BY <1>6, <2>3, Shapes DEF PeerTypeOK, TailTypeOK
  <2>5. BridgeOK(e)'
    BY <1>1, <1>2, <1>6, <2>3 DEF Inv, TailInv, BridgesOK, BridgeOK
  <2>6. ASSUME NEW f \in Keys \ {e}  PROVE BridgeOK(f)'
    BY <1>1, <1>6, <2>3 DEF Inv, TailInv, BridgesOK, BridgeOK
  <2> QED  BY <2>1, <2>2, <2>4, <2>5, <2>6 DEF BridgesOK
<1>7. ASSUME Licensed(e), Goto("unbind"), UNCHANGED tail,
             BridgesOK', SagasOK', PeerKeeps, PeerTypeOK'
      PROVE  TailInv'
  <2>1. /\ call' \in CallRow /\ call'.step = "unbind" /\ call'.op = call.op
        /\ call'.key = e /\ call'.kind = call.kind /\ call'.from = call.from
        /\ call'.answer = call.answer
    BY <1>7, GoesOn DEF Steps
  <2>2. bridge'[e] = "settled"
    BY <1>2, <1>7 DEF Licensed, PeerKeeps, Inv, TailInv, BridgesOK, BridgeOK
  <2>3. call'.answer.is = "maxed" => bridge'[e] = "maxed"
    BY <1>2, <1>7, <2>1 DEF PeerKeeps
  <2> QED  BY <1>4, <1>7, <2>1, <2>2, <2>3
<1>8. ASSUME ~Licensed(e), Fail, BridgesOK', SagasOK', PeerTypeOK'
      PROVE  TailInv'
  <2>1. call.from # "settling" => state[call.key] \notin {"settled", "released"}
    BY <1>8 DEF Licensed
  <2>2. /\ call' \in CallRow /\ CallOK' /\ ResumeOK' /\ ModeOK' /\ TailsOK'
        /\ tail' \in [Keys -> TailPhase]
    BY <1>1, <1>8, <2>1, TailFails
  <2>3. TailTypeOK'  BY <1>1, <1>8, <2>2, Shapes DEF TailTypeOK, PeerTypeOK
  <2> QED  BY <1>3, <1>8, <2>2, <2>3 DEF TailInv
<1> QED  BY <1>5, <1>6, <1>7, <1>8 DEF AskComplete

LEMMA UnbindTail ==
    ASSUME Inv, Unbind
    PROVE  TailInv'
<1> SUFFICES ASSUME NEW e, e = call.key, NEW next \in {"adopt", "release"},
                    next = "adopt" <=> call.answer.is = "maxed"
             PROVE  TailInv'
  OBVIOUS
<1>1. /\ call.step = "unbind" /\ handler = Idle /\ Goto(next)
      /\ tail' = [tail EXCEPT ![e] = "releasing"]
      /\ binding' = [binding EXCEPT ![e] = "released"]
      /\ UNCHANGED <<state, charged, amount, holdState, holdCharged, saga, handler, created,
                     effect, spent, reported, mode, sagasToDo, tailsToDo, bridge,
                     byomCharged, terminal, late, lateComplete>>
  BY DEF Unbind, At, sagaVars, ledgerVars, recordVars, holdVars, sweepVars, byomVars
<1>2. /\ e \in Keys /\ bridge[e] # "none" /\ <<e, call.kind>> \in Sagas
      /\ call.op \in {"complete", "resume"} /\ state[e] \notin {"absent", "confirmed"}
      /\ call.from \in Unfinished
      /\ holdState[e] = "released" => call.from = "releasing"
      /\ call.op = "complete" => call.from = "settling"
      /\ call.answer.is = "maxed" => bridge[e] = "maxed"
      /\ call.answer.is = "maxed" \/ bridge[e] = "settled"
  BY <1>1, AtTail DEF PastSettlement, Inv, TailInv, CallOK
<1>3. /\ call' \in CallRow /\ call'.step = next /\ call'.op = call.op
      /\ call'.key = e /\ call'.kind = call.kind /\ call'.from = call.from
      /\ call'.answer = call.answer
  BY <1>1, GoesOn DEF Steps
<1>4. /\ tail'[e] = "releasing" /\ \A f \in Keys \ {e} : tail'[f] = tail[f]
      /\ binding'[e] = "released" /\ \A f \in Keys \ {e} : binding'[f] = binding[f]
  BY <1>1, <1>2, Shapes DEF TailTypeOK
<1>5. LocalsOK' /\ SagasOK' /\ HandlerOK'  BY <1>1, Frame
<1>6. BridgesOK'  BY <1>1, <1>2, <1>4 DEF Inv, TailInv, BridgesOK, BridgeOK
<1>7. TailsOK'  BY <1>1, <1>2, <1>4 DEF Inv, TailInv, TailsOK, TailOK
<1>8. ModeOK'  BY <1>1, <1>3, <1>4, CarriesOn
<1>9. CallOK'  BY <1>1, <1>2, <1>3, <1>4 DEF CallOK, PastSettlement
<1>10. ResumeOK'  BY <1>1, <1>2, <1>3, <1>4 DEF ResumeOK, PastSettlement, Unfinished
<1>11. TailTypeOK'
  <2>1. tail' \in [Keys -> TailPhase]  BY <1>1, Shapes DEF TailTypeOK, TailPhase
  <2>2. binding' \in [Keys -> {"none", "bound", "fenced", "released"}]
    BY <1>1, Shapes DEF TailTypeOK
  <2> QED  BY <1>1, <1>3, <2>1, <2>2, Shapes DEF TailTypeOK
<1> QED  BY <1>5, <1>6, <1>7, <1>8, <1>9, <1>10, <1>11 DEF TailInv

\* byom's maximum finds no reservation to be charged to: settled here, byom
\* would have settled first.
LEMMA AdoptTail ==
    ASSUME Inv, Adopt
    PROVE  TailInv'
<1> SUFFICES ASSUME NEW e, e = call.key, NEW s, s = <<call.key, "terminal">>
             PROVE  TailInv'
  OBVIOUS
<1>1. /\ call.step = "adopt" /\ handler = Idle
      /\ UNCHANGED <<binding, effect, spent, reported, mode, sagasToDo, tailsToDo, bridge,
                     byomCharged, terminal, late, lateComplete>>
  BY DEF Adopt, At, sweepVars, byomVars
<1>2. e \in Keys /\ state[e] # "confirmed" /\ bridge[e] = "maxed"
  BY <1>1, AtTail DEF PastSettlement, Inv, TailInv, CallOK
<1>3. s \in Sagas /\ s[1] = e /\ s[2] = "terminal"  BY <1>2, SagasAssumption
<1>4. saga[s].phase = "none"  BY <1>3 DEF Inv, TailInv, SagasOK
<1>5. ~Begins(s, call.answer.charge)  BY <1>2, <1>3, <1>4 DEF Begins
<1>6. Fail /\ UNCHANGED sagaVars  BY <1>5 DEF Adopt
<1>7. UNCHANGED <<state, charged, amount, holdState, holdCharged, saga, handler, created>>
  BY <1>6 DEF sagaVars, ledgerVars, recordVars, holdVars
<1>8. state[e] \notin {"settled", "released"}
  BY <1>2 DEF Inv, TailInv, BridgesOK, BridgeOK
<1>9. /\ call' \in CallRow /\ CallOK' /\ ResumeOK' /\ ModeOK' /\ TailsOK'
      /\ tail' \in [Keys -> TailPhase]
  BY <1>1, <1>6, <1>7, <1>8, TailFails
<1>10. LocalsOK' /\ BridgesOK' /\ SagasOK' /\ HandlerOK'  BY <1>1, <1>7, Frame
<1>11. TailTypeOK'  BY <1>1, <1>7, <1>9, Shapes DEF TailTypeOK
<1> QED  BY <1>9, <1>10, <1>11 DEF TailInv

LEMMA ReleaseRemainderTail ==
    ASSUME Inv, ReleaseRemainder
    PROVE  TailInv'
<1> SUFFICES ASSUME NEW e, e = call.key  PROVE TailInv'
  OBVIOUS
<1>1. /\ call.step = "release" /\ Goto("close")
      /\ \/ state[e] = "released" /\ UNCHANGED ledgerVars
         \/ state[e] # "released" /\ Release(e)
         \/ state[e] \in {"absent", "uncertain"}
      /\ UNCHANGED <<created, binding, tail, effect, spent, reported, mode, sagasToDo,
                     tailsToDo, bridge, byomCharged, terminal, late, lateComplete>>
  BY DEF ReleaseRemainder, At, localVars, sweepVars, byomVars
<1>2. /\ e \in Keys /\ bridge[e] = "settled" /\ <<e, call.kind>> \in Sagas
      /\ call.op \in {"complete", "resume"} /\ state[e] \notin {"absent", "confirmed"}
      /\ call.from \in Unfinished /\ binding[e] = "released" /\ tail[e] = "releasing"
      /\ call.op = "complete" => call.from = "settling"
      /\ call.answer.is # "maxed"
  BY <1>1, AtTail DEF PastSettlement, Inv, TailInv, CallOK
<1>3. state[e] # "uncertain"  BY <1>2 DEF Inv, TailInv, LocalsOK, LocalOK
<1>4. /\ state'[e] = "released" /\ \A f \in Keys \ {e} : state'[f] = state[f]
      /\ holdState'[e] = "released" /\ \A f \in Keys \ {e} : holdState'[f] = holdState[f]
      /\ UNCHANGED <<charged, amount, holdCharged, saga>>
      /\ UNCHANGED handler \/ handler'.step = "released"
      /\ state' \in [Keys -> ReservationState]
  <2>1. CASE state[e] = "released" /\ UNCHANGED ledgerVars
    <3>1. holdState[e] = "released"  BY <1>2, <2>1 DEF Inv, TailInv, LocalsOK, LocalOK
    <3> QED  BY <2>1, <3>1, Shapes DEF ledgerVars, recordVars, holdVars
  <2>2. CASE Release(e)
    <3>1. "released" \in ReservationState  BY DEF ReservationState
    <3> QED  BY <1>2, <2>2, <3>1, Shapes DEF Release, Then
  <2> QED  BY <1>1, <1>2, <1>3, <2>1, <2>2
<1>5. /\ call' \in CallRow /\ call'.step = "close" /\ call'.op = call.op
      /\ call'.key = e /\ call'.kind = call.kind /\ call'.from = call.from
      /\ call'.answer = call.answer
  BY <1>1, GoesOn DEF Steps
<1>6. LocalsOK'  BY <1>2, <1>4 DEF Inv, TailInv, LocalsOK, LocalOK
<1>7. BridgesOK'  BY <1>1, <1>2, <1>4 DEF Inv, TailInv, BridgesOK, BridgeOK
<1>8. TailsOK'  BY <1>1, <1>2, <1>4 DEF Inv, TailInv, TailsOK, TailOK
<1>9. SagasOK'
  <2>1. state[e] \in {"requested", "settled", "released"}
    BY <1>2 DEF Inv, TailInv, LocalsOK, LocalOK
  <2>2. ASSUME NEW s \in Sagas, saga[s].phase # "none", s[1] = e
        PROVE  charged[e] = byomCharged[e]
    BY <2>1, <2>2 DEF Inv, TailInv, SagasOK
  <2> QED  BY <1>1, <1>2, <1>4, <2>2, Shapes DEF Inv, TailInv, SagasOK
<1>10. HandlerOK'
  <2>1. handler = Idle  BY <1>1 DEF ReleaseRemainder, At
  <2>2. handler'.step \notin {"requested", "confirm"}  BY <1>4, <2>1 DEF Idle
  <2> QED  BY <2>2 DEF HandlerOK
<1>11. ModeOK'  BY <1>1, <1>4, <1>5, CarriesOn
<1>12. CallOK'  BY <1>1, <1>2, <1>4, <1>5 DEF CallOK, PastSettlement
<1>13. ResumeOK'
  BY <1>1, <1>2, <1>4, <1>5 DEF ResumeOK, PastSettlement, Unfinished
<1>14. TailTypeOK'  BY <1>1, <1>5, Shapes DEF TailTypeOK
<1> QED  BY <1>6, <1>7, <1>8, <1>9, <1>10, <1>11, <1>12, <1>13, <1>14 DEF TailInv

LEMMA CloseTailTail ==
    ASSUME Inv, CloseTail
    PROVE  TailInv'
<1> SUFFICES ASSUME NEW e, e = call.key  PROVE TailInv'
  OBVIOUS
<1>1. /\ call.step = "close" /\ handler = Idle /\ call' = NoCall
      /\ tail' = [tail EXCEPT ![e] = "done"]
      /\ UNCHANGED <<state, charged, amount, holdState, holdCharged, saga, handler, created,
                     binding, effect, spent, reported, mode, sagasToDo, tailsToDo, bridge,
                     byomCharged, terminal, late, lateComplete>>
  BY DEF CloseTail, At, Return, sagaVars, ledgerVars, recordVars, holdVars, sweepVars, byomVars
<1>2. /\ e \in Keys /\ binding[e] = "released" /\ holdState[e] = "released"
      /\ state[e] # "confirmed"
  BY <1>1, AtTail DEF PastSettlement, Inv, TailInv, CallOK
<1>3. tail'[e] = "done" /\ \A f \in Keys \ {e} : tail'[f] = tail[f]
  BY <1>1, <1>2, Shapes DEF TailTypeOK
<1>4. LocalsOK' /\ BridgesOK' /\ SagasOK' /\ HandlerOK'  BY <1>1, Frame
<1>5. call' \in CallRow /\ CallOK' /\ ResumeOK'  BY <1>1, Returns
<1>6. ModeOK'  BY <1>1, <1>3, Ends
<1>7. TailsOK'  BY <1>1, <1>2, <1>3 DEF Inv, TailInv, TailsOK, TailOK
<1>8. TailTypeOK'
  <2>1. tail' \in [Keys -> TailPhase]  BY <1>1, Shapes DEF TailTypeOK, TailPhase
  <2> QED  BY <1>1, <1>5, <2>1, Shapes DEF TailTypeOK
<1> QED  BY <1>4, <1>5, <1>6, <1>7, <1>8 DEF TailInv

-----------------------------------------------------------------------------
(* The daemon.                                                             *)

LEMMA DieTail ==
    ASSUME Inv, Die
    PROVE  TailInv'
<1>1. /\ mode' = "down" /\ sagasToDo' = {} /\ tailsToDo' = {} /\ handler' = Idle
      /\ call' = NoCall
      /\ UNCHANGED <<state, charged, amount, holdState, holdCharged, saga, created, binding,
                     tail, effect, spent, reported, bridge, byomCharged, terminal, late,
                     lateComplete>>
  BY DEF Die, Return, recordVars, holdVars, localVars, byomVars
<1>2. LocalsOK' /\ BridgesOK' /\ TailsOK' /\ SagasOK' /\ HandlerOK'  BY <1>1, Frame
<1>3. call' \in CallRow /\ CallOK' /\ ResumeOK'  BY <1>1, Returns
<1>4. ModeOK'  BY <1>1 DEF ModeOK, SweptTailsFinish, NoCall
<1>5. TailTypeOK'  BY <1>1, <1>3, Shapes DEF TailTypeOK
<1> QED  BY <1>2, <1>3, <1>4, <1>5 DEF TailInv

LEMMA StartTail ==
    ASSUME Inv, Start
    PROVE  TailInv'
<1>1. /\ mode = "down"
      /\ effect' = [e \in Keys |-> IF effect[e] = "dispatching" THEN "ambiguous" ELSE effect[e]]
      /\ \/ mode' = "settlements" /\ sagasToDo' = Unresolved
         \/ mode' = "serving" /\ UNCHANGED sagasToDo
      /\ UNCHANGED <<created, tailsToDo, binding, tail, spent, reported, call, bridge,
                     byomCharged, terminal, late, lateComplete>>
  BY DEF Start, byomVars
<1>2. UNCHANGED <<state, charged, amount, holdState, holdCharged, saga, handler>>
  BY DEF Start, Grant, ledgerVars, recordVars, holdVars
<1>3. call.step = "none"  BY <1>1 DEF Inv, TailInv, ModeOK
<1>4. call' = NoCall  BY <1>1, <1>3 DEF Inv, TailInv, CallOK
<1>5. LocalsOK' /\ BridgesOK' /\ TailsOK'  BY <1>1, <1>2, Frame
<1>6. SagasOK'  BY <1>1, <1>2 DEF Inv, TailInv, SagasOK, Unresolved
<1>7. HandlerOK'  BY <1>2, <1>3 DEF Inv, TailInv, HandlerOK
<1>8. call' \in CallRow /\ CallOK' /\ ResumeOK'  BY <1>4, Returns
<1>9. ModeOK'  BY <1>1, <1>4 DEF ModeOK, SweptTailsFinish, NoCall
<1>10. TailTypeOK'
  <2>1. effect' \in [Keys -> {"none", "dispatching", "observed", "ambiguous"}]
    BY <1>1, Shapes DEF TailTypeOK
  <2>2. sagasToDo' \subseteq Sagas  BY <1>1, Shapes DEF TailTypeOK, Unresolved
  <2> QED  BY <1>1, <1>8, <2>1, <2>2, Shapes DEF TailTypeOK
<1> QED  BY <1>5, <1>6, <1>7, <1>8, <1>9, <1>10 DEF TailInv

LEMMA SweepSagaTail ==
    ASSUME Inv, SweepSaga
    PROVE  TailInv'
<1>1. PICK s \in sagasToDo :
        /\ call' = [op |-> "sweep", key |-> s[1], kind |-> s[2], charge |-> saga[s].charge,
                    step |-> "ask", from |-> "none", answer |-> NoAnswer]
        /\ sagasToDo' = sagasToDo \ {s}
  BY DEF SweepSaga, Asking, NoCall
<1>2. /\ mode = "settlements" /\ handler = Idle
      /\ UNCHANGED <<state, charged, amount, holdState, holdCharged, saga, handler, created,
                     binding, tail, effect, spent, reported, mode, tailsToDo, bridge,
                     byomCharged, terminal, late, lateComplete>>
  BY DEF SweepSaga, sagaVars, ledgerVars, recordVars, holdVars, localVars, byomVars
<1>3. s \in Sagas /\ saga[s].phase # "none"
  BY Shapes DEF TailTypeOK, Inv, TailInv, SagasOK
<1>4. /\ s[1] \in Keys /\ <<s[1], s[2]>> \in Sagas /\ bridge[s[1]] # "none"
      /\ s[2] \in {"attempt", "model", "complete"}
      /\ saga[s].charge \in Nat /\ saga[s].charge <= amount[s[1]][Unit]
  <2>1. s = <<s[1], s[2]>>  BY <1>3, SagasAssumption
  <2> QED  BY <1>3, <2>1, Shapes DEF Inv, TailInv, SagasOK
<1>5. LocalsOK' /\ BridgesOK' /\ TailsOK' /\ SagasOK' /\ HandlerOK'  BY <1>1, <1>2, Frame
<1>6. call' \in CallRow  BY <1>1, <1>4 DEF CallRow, Steps, NoAnswer
<1>7. CallOK'  BY <1>1, <1>2, <1>4 DEF CallOK, NoAnswer, PastSettlement
<1>8. ResumeOK'  BY <1>1 DEF ResumeOK, PastSettlement
<1>9. ModeOK'  BY <1>1, <1>2 DEF ModeOK, SweptTailsFinish
<1>10. TailTypeOK'  BY <1>1, <1>2, <1>6, Shapes DEF TailTypeOK
<1> QED  BY <1>5, <1>7, <1>8, <1>9, <1>10 DEF TailInv

LEMMA SweepTailsTail ==
    ASSUME Inv, SweepTails \/ Serve
    PROVE  TailInv'
<1>1. /\ handler = Idle /\ call' = NoCall
      /\ \/ mode' = "tails" /\ tailsToDo' = UnfinishedTails
         \/ mode' = "serving" /\ UNCHANGED tailsToDo
      /\ UNCHANGED <<state, charged, amount, holdState, holdCharged, saga, handler, created,
                     binding, tail, effect, spent, reported, sagasToDo, bridge,
                     byomCharged, terminal, late, lateComplete>>
  BY DEF SweepTails, Serve, sagaVars, ledgerVars, recordVars, holdVars, localVars, byomVars
<1>2. LocalsOK' /\ BridgesOK' /\ TailsOK' /\ SagasOK' /\ HandlerOK'  BY <1>1, Frame
<1>3. call' \in CallRow /\ CallOK' /\ ResumeOK'  BY <1>1, Returns
<1>4. ModeOK'
  BY <1>1, NoneAssumption DEF ModeOK, SweptTailsFinish, UnfinishedTails, Unfinished, NoCall
<1>5. TailTypeOK'
  <2>1. tailsToDo' \subseteq Keys  BY <1>1, Shapes DEF TailTypeOK, UnfinishedTails
  <2> QED  BY <1>1, <1>3, <2>1, Shapes DEF TailTypeOK
<1> QED  BY <1>2, <1>3, <1>4, <1>5 DEF TailInv

LEMMA ResumeTailTail ==
    ASSUME Inv, ResumeTail
    PROVE  TailInv'
<1>1. /\ mode = "tails" /\ handler = Idle /\ call = NoCall
      /\ UNCHANGED <<state, charged, amount, holdState, holdCharged, saga, handler, created,
                     binding, effect, spent, reported, mode, sagasToDo, bridge, byomCharged,
                     terminal, late, lateComplete>>
  BY DEF ResumeTail, sagaVars, ledgerVars, recordVars, holdVars, byomVars
<1>2. LocalsOK' /\ BridgesOK' /\ SagasOK' /\ HandlerOK'  BY <1>1, Frame
<1>3. ASSUME NEW e \in tailsToDo
      PROVE  /\ e \in Keys /\ tail[e] \in Unfinished /\ binding[e] # "none"
             /\ bridge[e] # "none" /\ state[e] # "absent" /\ <<e, "complete">> \in Sagas
             /\ tail[e] \in {"peer_pending", "releasing"} => state[e] # "confirmed"
             /\ tail[e] = "releasing" => binding[e] = "released"
             /\ holdState[e] = "released" => tail[e] = "releasing"
  <2>1. e \in Keys /\ tail[e] \in Unfinished
    BY <1>1, Shapes DEF TailTypeOK, Inv, TailInv, ModeOK
  <2>2. TailOK(e) /\ BridgeOK(e)  BY <2>1 DEF Inv, TailInv, TailsOK, BridgesOK
  <2> QED  BY <2>1, <2>2, SagasAssumption DEF TailOK, BridgeOK, Unfinished
<1>4. ASSUME NEW e \in tailsToDo, tailsToDo' = tailsToDo \ {e}, tail[e] = "settling",
             tail' = [tail EXCEPT ![e] = "abandoned"], UNCHANGED call
      PROVE  TailInv'
  <2>1. tail'[e] = "abandoned" /\ \A f \in Keys \ {e} : tail'[f] = tail[f]
    BY <1>3, <1>4, Shapes DEF TailTypeOK
  <2>2. call' \in CallRow /\ CallOK' /\ ResumeOK'  BY <1>1, <1>4, Returns
  <2>3. TailsOK'
    BY <1>1, <1>3, <1>4, <2>1 DEF Inv, TailInv, TailsOK, TailOK
  <2>4. ModeOK'
    <3>1. \A f \in Keys \ {e} : f \notin tailsToDo' => f \notin tailsToDo  BY <1>4
    <3>2. SweptTailsFinish'
      BY <1>1, <1>4, <2>1, <3>1 DEF Inv, TailInv, ModeOK, SweptTailsFinish
    <3>3. tailsToDo \subseteq Keys  BY Shapes DEF TailTypeOK
    <3> QED  BY <1>1, <1>4, <2>1, <3>2, <3>3 DEF Inv, TailInv, ModeOK, NoCall
  <2>5. TailTypeOK'
    <3>1. tail' \in [Keys -> TailPhase]  BY <1>4, Shapes DEF TailTypeOK, TailPhase
    <3> QED  BY <1>1, <1>4, <2>2, <3>1, Shapes DEF TailTypeOK
  <2> QED  BY <1>2, <2>2, <2>3, <2>4, <2>5 DEF TailInv
<1>5. ASSUME NEW e \in tailsToDo, tailsToDo' = tailsToDo \ {e}, UNCHANGED tail,
             NEW step \in {"settle", "terminalize"}, step = "settle" <=> tail[e] = "settling",
             call' = [op |-> "resume", key |-> e, kind |-> "complete", charge |-> 0,
                      step |-> step, from |-> tail[e], answer |-> NoAnswer]
      PROVE  TailInv'
  <2>1. call' \in CallRow  BY <1>3, <1>5 DEF CallRow, Steps, NoAnswer
  <2>2. CallOK'  BY <1>1, <1>3, <1>5 DEF CallOK, NoAnswer, PastSettlement
  <2>3. ResumeOK'
    BY <1>1, <1>3, <1>5 DEF ResumeOK, PastSettlement, Unfinished
  <2>4. TailsOK'  BY <1>1, <1>5, Frame
  <2>5. ModeOK'
    <3>1. tailsToDo \subseteq Keys /\ None \notin Keys  BY Shapes, NoneAssumption DEF TailTypeOK
    <3>2. SweptTailsFinish'
      BY <1>1, <1>5, <3>1 DEF Inv, TailInv, ModeOK, SweptTailsFinish, NoCall
    <3> QED  BY <1>1, <1>5, <3>1, <3>2 DEF Inv, TailInv, ModeOK
  <2>6. TailTypeOK'  BY <1>1, <1>5, <2>1, Shapes DEF TailTypeOK
  <2> QED  BY <1>2, <2>2, <2>3, <2>4, <2>5, <2>6 DEF TailInv
<1>6. PICK e \in tailsToDo :
        /\ tailsToDo' = tailsToDo \ {e}
        /\ IF tail[e] = "settling" /\ saga[<<e, "complete">>].phase = "denied"
           THEN tail' = [tail EXCEPT ![e] = "abandoned"] /\ UNCHANGED call
           ELSE /\ call' = [NoCall EXCEPT
                     !.op = "resume", !.key = e, !.kind = "complete", !.from = tail[e],
                     !.step = IF tail[e] = "settling" THEN "settle" ELSE "terminalize"]
                /\ UNCHANGED tail
  BY DEF ResumeTail
<1>7. CASE ~(tail[e] = "settling" /\ saga[<<e, "complete">>].phase = "denied")
  <2> DEFINE step == IF tail[e] = "settling" THEN "settle" ELSE "terminalize"
  <2>1. call' = [NoCall EXCEPT !.op = "resume", !.key = e, !.kind = "complete",
                    !.from = tail[e], !.step = step]
    BY <1>6, <1>7
  <2>2. step \in {"settle", "terminalize"} /\ (step = "settle" <=> tail[e] = "settling")
    OBVIOUS
  <2> HIDE DEF step
  <2>3. call' = [op |-> "resume", key |-> e, kind |-> "complete", charge |-> 0,
                 step |-> step, from |-> tail[e], answer |-> NoAnswer]
    BY <2>1 DEF NoCall
  <2> QED  BY <1>5, <1>6, <1>7, <2>2, <2>3
<1> QED  BY <1>4, <1>6, <1>7

LEMMA LedgerGoesOnTail ==
    ASSUME Inv, LedgerGoesOn
    PROVE  TailInv'
<1>1. /\ handler # Idle
      /\ UNCHANGED <<charged, amount, holdState, holdCharged, saga, created, binding, tail,
                     effect, spent, reported, mode, sagasToDo, tailsToDo, call, bridge,
                     byomCharged, terminal, late, lateComplete>>
  BY DEF LedgerGoesOn, Continue, holdVars, localVars, sweepVars, byomVars
<1>2. handler \in [step : HandlerStep, key : Keys]
  BY <1>1 DEF Inv, SafeLedger, LedgerTypeOK
<1>3. CASE handler.step = "confirm"
  <2> SUFFICES ASSUME NEW k \in Keys, k = handler.key  PROVE TailInv'
    BY <1>2
  <2>1. /\ call.step = "admit" /\ call.key = k /\ bridge[k] = "none"
        /\ state[k] = "requested"
    BY <1>3 DEF Inv, TailInv, HandlerOK
  <2>2. /\ state' = [state EXCEPT ![k] = "confirmed"]
        /\ handler' = [handler EXCEPT !.step = "confirmed"]
    BY <1>3 DEF LedgerGoesOn, Continue, Confirm, StepAfter
  <2>3. state'[k] = "confirmed" /\ \A f \in Keys \ {k} : state'[f] = state[f]
    BY <2>2, Shapes
  <2>4. HandlerOK'  BY <1>2, <2>2 DEF HandlerOK
  <2>5. LocalsOK'  BY <1>1, <2>1, <2>3 DEF Inv, TailInv, LocalsOK, LocalOK
  <2>6. BridgesOK'  BY <1>1, <2>1, <2>3 DEF Inv, TailInv, BridgesOK, BridgeOK
  <2>7. TailsOK'
    <3>1. tail[k] = "none"
      BY <2>1 DEF Inv, TailInv, TailsOK, TailOK, BridgesOK, BridgeOK
    <3> QED  BY <1>1, <2>3, <3>1 DEF Inv, TailInv, TailsOK, TailOK
  <2>8. SagasOK'
    <3>1. \A s \in Sagas : saga[s].phase # "none" => s[1] \in Keys \ {k}
      BY <2>1, Shapes DEF Inv, TailInv, SagasOK
    <3> QED  BY <1>1, <2>3, <3>1 DEF Inv, TailInv, SagasOK
  <2>9. CallOK'
    BY <1>1, <2>1, <2>3 DEF Inv, TailInv, CallOK, PastSettlement
  <2>10. ResumeOK'  BY <1>1, <2>1 DEF Inv, TailInv, ResumeOK, PastSettlement
  <2>11. ModeOK'
    <3>1. mode = "serving"
      BY <2>1 DEF Inv, TailInv, ResumeOK, ModeOK, PastSettlement
    <3> QED  BY <1>1, <3>1 DEF Inv, TailInv, ModeOK, SweptTailsFinish
  <2>12. TailTypeOK'  BY <1>1, Shapes DEF TailTypeOK
  <2> QED
    BY <2>4, <2>5, <2>6, <2>7, <2>8, <2>9, <2>10, <2>11, <2>12 DEF TailInv
<1>4. CASE handler.step # "confirm"
  <2>1. UNCHANGED state  BY <1>4 DEF LedgerGoesOn, Continue, Announce
  <2>2. /\ handler.step = "requested" => handler' = [handler EXCEPT !.step = "confirm"]
        /\ handler.step # "requested" => handler' = Idle
    BY <1>4 DEF LedgerGoesOn, Continue, StepAfter
  <2>3. LocalsOK' /\ BridgesOK' /\ TailsOK' /\ SagasOK'  BY <1>1, <2>1, Frame
  <2>4. CallOK'  BY <1>1, <2>1 DEF Inv, TailInv, CallOK
  <2>5. ResumeOK'  BY <1>1, <2>1 DEF Inv, TailInv, ResumeOK
  <2>6. ModeOK'  BY <1>1, <2>1 DEF Inv, TailInv, ModeOK, SweptTailsFinish
  <2>7. HandlerOK'
    <3>1. CASE handler.step # "requested"  BY <2>2, <3>1, Frame
    <3>2. CASE handler.step = "requested"
      <4>1. handler'.key = handler.key  BY <1>2, <2>2, <3>2
      <4> QED  BY <1>1, <2>1, <3>2, <4>1 DEF Inv, TailInv, HandlerOK
    <3> QED  BY <3>1, <3>2
  <2>8. TailTypeOK'  BY <1>1, Shapes DEF TailTypeOK
  <2> QED  BY <2>3, <2>4, <2>5, <2>6, <2>7, <2>8 DEF TailInv
<1> QED  BY <1>3, <1>4

LEMMA StutterTail ==
    ASSUME Inv, UNCHANGED vars
    PROVE  TailInv'
<1> USE DEF vars, sagaVars, ledgerVars, recordVars, holdVars, localVars, sweepVars, byomVars
<1>1. LocalsOK' /\ BridgesOK' /\ TailsOK' /\ SagasOK'  BY Frame
<1>2. CallOK'  BY DEF Inv, TailInv, CallOK
<1>3. ResumeOK'  BY DEF Inv, TailInv, ResumeOK
<1>4. ModeOK'  BY DEF Inv, TailInv, ModeOK, SweptTailsFinish
<1>5. HandlerOK'  BY DEF Inv, TailInv, HandlerOK
<1>6. TailTypeOK'  BY Shapes DEF TailTypeOK
<1> QED  BY <1>1, <1>2, <1>3, <1>4, <1>5, <1>6 DEF TailInv

LEMMA TailSteps ==
    ASSUME Inv, [EpisodeNext]_vars
    PROVE  TailInv'
<1>1. CASE Work
  BY <1>1, PlacementAdmitTail, ExchangeTail, ReportUsageTail, AskSettlementTail,
     ApplySettledTail, ApplyUnsettledTail, ApplyEvidenceTail, RecordReportTail,
     TerminalSettlementTail, TailSettledTail, AskCompleteTail, UnbindTail, AdoptTail,
     ReleaseRemainderTail, CloseTailTail, SweepSagaTail, SweepTailsTail, ResumeTailTail,
     LedgerGoesOnTail
  DEF Work
<1>2. CASE Requests
  BY <1>2, AdmitTail, BindTail, ModelCallTail, CompleteTail, SettleTail DEF Requests
<1>3. CASE Start \/ Die \/ \E e \in Keys : ByomCatchesUp(e)
  BY <1>3, StartTail, DieTail, ByomCatchesUpTail
<1>4. CASE UNCHANGED vars  BY <1>4, StutterTail
<1> QED  BY <1>1, <1>2, <1>3, <1>4 DEF EpisodeNext

-----------------------------------------------------------------------------
(* The invariant.                                                          *)

LEMMA InvInit == EpisodeInit => Inv
<1> SUFFICES ASSUME EpisodeInit  PROVE Inv
  OBVIOUS
<1>1. SafeLedger  BY SafeInit DEF EpisodeInit
<1>2. NextEventIsTrue  BY DEF EpisodeInit, LedgerInit, NextEventIsTrue
<1> USE DEF EpisodeInit, LedgerInit
<1>3. TailTypeOK
  BY DEF TailTypeOK, CallRow, Steps, Unfinished, TailPhase, NoCall, NoAnswer
<1>4. LocalsOK
  BY UnitAssumption DEF LocalsOK, LocalOK, Zero
<1>5. BridgesOK /\ TailsOK  BY DEF BridgesOK, BridgeOK, TailsOK, TailOK
<1>6. SagasOK  BY DEF SagasOK, NoSaga
<1>7. CallOK /\ ResumeOK
  BY DEF CallOK, ResumeOK, PastSettlement, NoCall, NoAnswer
<1>8. ModeOK /\ HandlerOK
  BY DEF ModeOK, SweptTailsFinish, HandlerOK, NoCall, Idle
<1> QED  BY <1>1, <1>2, <1>3, <1>4, <1>5, <1>6, <1>7, <1>8 DEF Inv, TailInv

LEMMA OneUnit == OneDimension
BY UnitAssumption DEF OneDimension

LEMMA InvStep ==
    ASSUME Inv, [EpisodeNext]_vars
    PROVE  Inv'
<1>1. [ApiNext]_ledgerVars  BY LedgerSteps
<1>2. SafeLedger'  BY <1>1, OneUnit, SafeStep DEF Inv
<1>3. NextEventIsTrue'  BY <1>1, NextEventStep DEF Inv, SafeLedger
<1>4. TailInv'  BY TailSteps
<1> QED  BY <1>2, <1>3, <1>4 DEF Inv

LEMMA InvHolds == EpisodeSpec => []Inv
BY InvInit, InvStep, PTL DEF EpisodeSpec

-----------------------------------------------------------------------------
(* What follows.                                                           *)

\* The variables of the pipeline keep their shape, and a running operation
\* names an Episode.
THEOREM EpisodeTypeCorrect == EpisodeSpec => []EpisodeTypeOK
<1>1. ASSUME Inv  PROVE EpisodeTypeOK
  <2>1. call = NoCall \/ call.key \in Keys  BY <1>1 DEF Inv, TailInv, CallOK
  <2> QED  BY <1>1, <2>1 DEF Inv, SafeLedger, TailInv, TailTypeOK, EpisodeTypeOK
<1> QED  BY InvHolds, <1>1, PTL

\* Whatever is lost, repeated or cut short, the pipeline calls the ledger only
\* with what its operations admit and in the order they leave to their callers:
\* a settled reservation is only released, and never charged again.
THEOREM KeepsTheOrderHolds == EpisodeSpec => KeepsTheOrder
<1>1. EpisodeInit => LedgerInit  BY DEF EpisodeInit
<1>2. Inv /\ [EpisodeNext]_vars => [ApiNext /\ Orderly]_ledgerVars  BY LedgerSteps
<1> QED  BY InvHolds, <1>1, <1>2, PTL DEF EpisodeSpec, KeepsTheOrder, OrderlySpec

\* So what is proved of the ledger under any calls holds of it under the
\* pipeline: it implements the abstract account.
THEOREM PipelineImplementsFlow == EpisodeSpec => FlowSpec
<1>1. OrderlySpec => ApiSpec
  <2>1. [ApiNext /\ Orderly]_ledgerVars => [ApiNext]_ledgerVars  OBVIOUS
  <2> QED  BY <2>1, PTL DEF OrderlySpec, ApiSpec
<1>2. ApiSpec => FlowSpec  BY OneUnit, LedgerImplementsFlow
<1> QED  BY KeepsTheOrderHolds, <1>1, <1>2, PTL DEF KeepsTheOrder

\* Local cap first: what byom has settled and this side has not yet heard of
\* is still covered by what the reservation holds.
THEOREM PeerChargeIsHeldHolds == EpisodeSpec => []PeerChargeIsHeld
<1>1. ASSUME Inv  PROVE PeerChargeIsHeld
  <2> SUFFICES ASSUME NEW e \in Keys, bridge[e] = "settled", state[e] = "confirmed"
               PROVE  byomCharged[e] <= HeldIn(e, Unit)
    BY DEF PeerChargeIsHeld
  <2>1. holdState[e] = "reserved" /\ holdCharged[e][Unit] = 0
    BY <1>1 DEF Inv, TailInv, LocalsOK, LocalOK
  <2>2. byomCharged[e] <= amount[e][Unit]  BY <1>1 DEF Inv, TailInv, BridgesOK, BridgeOK
  <2>3. amount[e][Unit] \in Nat
    BY <1>1, UnitAssumption DEF Inv, SafeLedger, LedgerTypeOK
  <2>4. HeldIn(e, Unit) = amount[e][Unit]
    BY <2>1, <2>3, UnitAssumption DEF HeldIn, Rest
  <2> QED  BY <2>2, <2>4
<1> QED  BY InvHolds, <1>1, PTL

\* A conservative maximum of byom's is never answered by a release: this side
\* adopts it or goes on holding.
THEOREM MaxedIsHeldHolds == EpisodeSpec => []MaxedIsHeld
<1>1. ASSUME Inv  PROVE MaxedIsHeld
  BY <1>1 DEF Inv, TailInv, LocalsOK, LocalOK, BridgesOK, BridgeOK, MaxedIsHeld,
     TailsOK, TailOK, SagasOK
<1> QED  BY InvHolds, <1>1, PTL

\* A closed tail leaves nothing held, and nothing is let go before the tail has
\* released the binding, wherever the daemon died.
THEOREM ReleasedByTailHolds == EpisodeSpec => []ReleasedByTail
<1>1. ASSUME Inv  PROVE ReleasedByTail
  BY <1>1 DEF Inv, TailInv, TailsOK, TailOK, ReleasedByTail
<1> QED  BY InvHolds, <1>1, PTL

\* A start-up sweep leaves no tail that is past its settlement, whether or not
\* byom still answers for the Episode.
THEOREM SweptTailsFinishHolds == EpisodeSpec => []SweptTailsFinish
<1>1. Inv => SweptTailsFinish  BY DEF Inv, TailInv, ModeOK
<1> QED  BY InvHolds, <1>1, PTL

-----------------------------------------------------------------------------
(* One ledger, if no crash falls inside a reserve.                         *)

\* What a step does to what byom has settled.
LEMMA PeerStep ==
    ASSUME Inv, AskSettlement \/ AskComplete \/ \E e \in Keys : ByomCatchesUp(e)
    PROVE  PeerKeeps /\ UNCHANGED <<state, charged, handler>>
<1>1. UNCHANGED <<state, charged, amount, saga, handler, binding, sagasToDo>>
  BY DEF AskSettlement, AskComplete, ByomCatchesUp, sagaVars, ledgerVars, recordVars, localVars,
     sweepVars
<1>2. CASE UNCHANGED <<bridge, byomCharged>>  BY <1>1, <1>2 DEF PeerKeeps
<1>3. ASSUME NEW e \in Keys, NEW c \in Nat, SettleBridge(e, c),
             state[e] = "confirmed" => c <= amount[e][Unit]
      PROVE  PeerKeeps
  BY <1>1, <1>3, PeerSettles
<1>4. ASSUME NEW e \in Keys, NEW c \in TerminalCharges(e), Terminalize(e, c),
             bridge[e] # "none", state[e] # "confirmed"
      PROVE  PeerKeeps
  BY <1>1, <1>4, PeerTerminalizes
<1>5. CASE AskSettlement
  <2>1. /\ call.key \in Keys /\ call.charge \in Nat
        /\ state[call.key] = "confirmed" => call.charge <= amount[call.key][Unit]
    BY <1>5, Shapes DEF AskSettlement, At, Inv, TailInv, CallOK, CallRow
  <2>2. UNCHANGED <<bridge, byomCharged>> \/ SettleBridge(call.key, call.charge)
    BY <1>5 DEF AskSettlement, byomVars
  <2> QED  BY <1>1, <1>2, <1>3, <2>1, <2>2
<1>6. CASE AskComplete
  <2>1. call.key \in Keys /\ bridge[call.key] # "none" /\ state[call.key] # "confirmed"
    BY <1>6, AtTail DEF AskComplete, At, PastSettlement
  <2>2. \/ UNCHANGED <<bridge, byomCharged>>
        \/ \E c \in TerminalCharges(call.key) : Terminalize(call.key, c)
    BY <1>6 DEF AskComplete
  <2> QED  BY <1>1, <1>2, <1>4, <2>1, <2>2
<1>7. ASSUME NEW e \in Keys, ByomCatchesUp(e)
      PROVE  PeerKeeps
  <2>1. /\ \A c \in late[e] : c \in Nat /\ (state[e] = "confirmed" => c <= amount[e][Unit])
        /\ lateComplete[e] => bridge[e] # "none" /\ state[e] # "confirmed"
    BY Shapes DEF TailTypeOK, Inv, TailInv, BridgesOK, BridgeOK
  <2>2. \/ \E c \in late[e] : SettleBridge(e, c)
        \/ lateComplete[e] /\ \E c \in TerminalCharges(e) : Terminalize(e, c)
    BY <1>7 DEF ByomCatchesUp
  <2> QED  BY <1>3, <1>4, <2>1, <2>2
<1> QED  BY <1>1, <1>5, <1>6, <1>7

LEMMA SteadyStep ==
    ASSUME Inv, SteadyInv, [EpisodeNext /\ ReserveCompletes]_vars
    PROVE  SteadyInv'
<1>1. CASE UNCHANGED <<state, charged, bridge, byomCharged, handler>>
  BY <1>1 DEF SteadyInv
<1>2. handler = Idle => \A e \in Keys : state[e] # "requested"
  BY DEF SteadyInv, Idle
<1>3. ASSUME NEW e \in Keys, Admit(e)  PROVE SteadyInv'
  <2>1. UNCHANGED <<bridge, byomCharged>> /\ bridge[e] = "none"
    BY <1>3 DEF Admit, byomVars
  <2>2. CASE UNCHANGED ledgerVars
    BY <1>1, <2>1, <2>2 DEF ledgerVars, recordVars
  <2>3. CASE Reserve(e, Realm, Narrowed(e))
    <3>1. /\ handler = Idle /\ UNCHANGED charged
          /\ state' = [state EXCEPT ![e] = "requested"]
          /\ handler' = [step |-> "requested", key |-> e]
      BY <2>3 DEF Reserve, Then
    <3>2. state'[e] = "requested" /\ \A f \in Keys \ {e} : state'[f] = state[f]
      BY <3>1, Shapes
    <3> QED  BY <1>2, <2>1, <3>1, <3>2 DEF SteadyInv
  <2> QED  BY <1>3, <2>2, <2>3 DEF Admit
<1>4. ASSUME NEW e \in Keys, PlacementAdmit(e)  PROVE SteadyInv'
  <2>1. /\ handler = Idle /\ UNCHANGED <<state, charged, handler, byomCharged>>
    BY <1>4 DEF PlacementAdmit, At, sagaVars, ledgerVars, recordVars
  <2> QED  BY <1>2, <2>1 DEF SteadyInv
<1>5. CASE AskSettlement \/ AskComplete \/ \E e \in Keys : ByomCatchesUp(e)
  <2>1. PeerKeeps /\ UNCHANGED <<state, charged, handler>>  BY <1>5, PeerStep
  <2>2. \A e \in Keys : state[e] \in {"settled", "released"} => bridge[e] = "settled"
    BY DEF Inv, TailInv, BridgesOK, BridgeOK
  <2> QED  BY <2>1, <2>2 DEF SteadyInv, PeerKeeps
<1>6. CASE ApplySettled
  <2> SUFFICES ASSUME NEW e, e = call.key, NEW s, s = <<call.key, call.kind>>,
                      NEW c, c = call.answer.charge
               PROVE  SteadyInv'
    OBVIOUS
  <2>1. handler = Idle /\ call.step = "apply" /\ UNCHANGED <<bridge, byomCharged>>
    BY <1>6 DEF ApplySettled, At, byomVars
  <2>2. e \in Keys /\ s \in Sagas /\ s[1] = e /\ byomCharged[e] = c /\ c \in Nat
    BY <1>6, <2>1, AtSettlement, Shapes DEF ApplySettled, Inv, TailInv, CallOK, CallRow
  <2>3. CASE UNCHANGED ledgerVars \/ PeerAboveCap(s, c)
    BY <1>1, <2>1, <2>3 DEF PeerAboveCap, ledgerVars, recordVars
  <2>4. CASE SettleCommit(s, c)
    <3>1. saga[s].key = e  BY <2>2, <2>4 DEF SettleCommit, Inv, TailInv, SagasOK
    <3>2. /\ state' = [state EXCEPT ![e] = "settled"]
          /\ charged' = [charged EXCEPT ![e] = c]
      BY <2>4, <3>1 DEF SettleCommit
    <3>3. /\ state'[e] = "settled" /\ charged'[e] = c
          /\ \A f \in Keys \ {e} : state'[f] = state[f] /\ charged'[f] = charged[f]
      BY <2>2, <3>2, Shapes
    <3> QED  BY <1>2, <2>1, <2>2, <3>3 DEF SteadyInv
  <2> QED  BY <1>6, <2>3, <2>4 DEF ApplySettled
<1>7. CASE ReleaseRemainder
  <2> SUFFICES ASSUME NEW e, e = call.key  PROVE SteadyInv'
    OBVIOUS
  <2>1. handler = Idle /\ call.step = "release" /\ UNCHANGED <<bridge, byomCharged>>
    BY <1>7 DEF ReleaseRemainder, At, byomVars
  <2>2. e \in Keys /\ state[e] \notin {"absent", "confirmed"}
    BY <2>1, AtTail DEF PastSettlement
  <2>3. CASE UNCHANGED ledgerVars  BY <1>1, <2>1, <2>3 DEF ledgerVars, recordVars
  <2>4. CASE Release(e)
    <3>1. state' = [state EXCEPT ![e] = "released"] /\ UNCHANGED charged
      BY <2>4 DEF Release
    <3>2. state'[e] = "released" /\ \A f \in Keys \ {e} : state'[f] = state[f]
      BY <2>2, <3>1, Shapes
    <3>3. state[e] \in {"settled", "released"}
      BY <1>2, <2>1, <2>2 DEF Inv, TailInv, LocalsOK, LocalOK
    <3> QED  BY <1>2, <2>1, <3>1, <3>2, <3>3 DEF SteadyInv
  <2> QED  BY <1>7, <2>3, <2>4 DEF ReleaseRemainder
<1>8. CASE LedgerGoesOn
  <2>1. UNCHANGED <<charged, bridge, byomCharged>> /\ handler # Idle
    BY <1>8 DEF LedgerGoesOn, Continue, byomVars
  <2>2. handler \in [step : HandlerStep, key : Keys]
    BY <2>1 DEF Inv, SafeLedger, LedgerTypeOK
  <2>3. CASE handler.step = "confirm"
    <3>1. /\ state' = [state EXCEPT ![handler.key] = "confirmed"]
      BY <1>8, <2>3 DEF LedgerGoesOn, Continue, Confirm
    <3>2. /\ state'[handler.key] = "confirmed"
          /\ \A f \in Keys \ {handler.key} : state'[f] = state[f]
      BY <2>2, <3>1, Shapes
    <3> QED  BY <2>1, <2>2, <3>2 DEF SteadyInv
  <2>4. CASE handler.step # "confirm"
    <3>1. UNCHANGED state  BY <1>8, <2>4 DEF LedgerGoesOn, Continue, Announce
    <3>2. handler.step = "requested" => handler' = [handler EXCEPT !.step = "confirm"]
      BY <1>8 DEF LedgerGoesOn, Continue, StepAfter
    <3>3. handler.step = "requested" => handler'.step = "confirm" /\ handler'.key = handler.key
      BY <2>2, <3>2
    <3> QED  BY <2>1, <2>4, <3>1, <3>3 DEF SteadyInv
  <2> QED  BY <2>3, <2>4
<1>9. CASE Die /\ ReserveCompletes
  <2>1. handler.step \notin {"requested", "confirm"}  BY <1>9 DEF Die, ReserveCompletes
  <2>2. UNCHANGED <<state, charged, bridge, byomCharged>>
    BY <1>9 DEF Die, recordVars, byomVars
  <2> QED  BY <2>1, <2>2 DEF SteadyInv
<1>10. CASE ReportUsage \/ TerminalSettlement \/ Adopt \/ \E e \in Keys :
            \E c \in 0 .. amount[e][Unit] : Settle(e, c)
  <2>1. CASE ReportUsage
    BY <1>1, <2>1 DEF ReportUsage, Begin, SettleBegin, sagaVars, ledgerVars, recordVars, byomVars
  <2>2. CASE TerminalSettlement
    BY <1>1, <2>2
    DEF TerminalSettlement, Begin, SettleBegin, sagaVars, ledgerVars, recordVars, byomVars
  <2>3. CASE Adopt
    BY <1>1, <2>3 DEF Adopt, Begin, SettleBegin, sagaVars, ledgerVars, recordVars, byomVars
  <2>4. ASSUME NEW e \in Keys, NEW c \in 0 .. amount[e][Unit], Settle(e, c)
        PROVE  SteadyInv'
    BY <1>1, <2>4 DEF Settle, Begin, SettleBegin, sagaVars, ledgerVars, recordVars, byomVars
  <2> QED  BY <1>10, <2>1, <2>2, <2>3, <2>4
<1>11. CASE ApplyUnsettled \/ Start
  BY <1>1, <1>11 DEF ApplyUnsettled, Start, SettleDenied, SettleUnknown, SettleResolve, Grant,
     ledgerVars, recordVars, byomVars
<1>12. CASE \/ Exchange \/ ApplyEvidence \/ RecordReport \/ TailSettled \/ Unbind \/ CloseTail
            \/ SweepSaga \/ SweepTails \/ ResumeTail \/ Serve \/ UNCHANGED vars
  BY <1>1, <1>12 DEF Exchange, ApplyEvidence, RecordReport, TailSettled, Unbind, CloseTail,
     SweepSaga, SweepTails, ResumeTail, Serve, vars, sagaVars, ledgerVars, recordVars, byomVars
<1>13. ASSUME NEW e \in Keys, Bind(e) \/ Fence(e) \/ ModelCall(e) \/ Complete(e)
       PROVE  SteadyInv'
  BY <1>1, <1>13 DEF Bind, Fence, ModelCall, Complete, sagaVars, ledgerVars, recordVars, byomVars
<1> QED
  BY <1>3, <1>4, <1>5, <1>6, <1>7, <1>8, <1>9, <1>10, <1>11, <1>12, <1>13
  DEF EpisodeNext, Work, Requests

LEMMA SteadyInit == EpisodeInit => SteadyInv
BY DEF EpisodeInit, LedgerInit, SteadyInv

\* "Two ledgers, one truth": what this side charged for an Episode it has
\* settled or released is what byom charged.
THEOREM OneLedgerHolds == SteadySpec => []OneLedger
<1>1. SteadySpec => EpisodeSpec
  <2>1. [EpisodeNext /\ ReserveCompletes]_vars => [EpisodeNext]_vars  OBVIOUS
  <2> QED  BY <2>1, PTL DEF SteadySpec, EpisodeSpec
<1>2. Inv /\ SteadyInv /\ [EpisodeNext /\ ReserveCompletes]_vars => SteadyInv'
  BY SteadyStep
<1>3. Inv /\ SteadyInv => OneLedger
  BY DEF Inv, TailInv, BridgesOK, BridgeOK, SteadyInv, OneLedger
<1> QED  BY InvHolds, SteadyInit, <1>1, <1>2, <1>3, PTL DEF SteadySpec

-----------------------------------------------------------------------------
(* Capacity comes home.                                                    *)

\* What is proved of the ledger under the order left to its callers holds of
\* it under the pipeline, which keeps that order.
LEMMA PipelineIsOrderly == EpisodeSpec => []OrderlyInv
BY KeepsTheOrderHolds, OneUnit, OrderlyInvariant, PTL DEF KeepsTheOrder

\* The record of an Episode's reservation and the ledger tell one story
\* through every retry of a settlement and every crash of the daemon.
THEOREM EpisodeRecordMatches == EpisodeSpec => []RecordMatchesLedger
BY KeepsTheOrderHolds, OneUnit, RecordMatchesLedgerHolds, PTL DEF KeepsTheOrder

\* The release at the end of a tail returns exactly what was not charged.
THEOREM EpisodeReleaseIsExact == EpisodeSpec => ReleaseIsExact
BY KeepsTheOrderHolds, OneUnit, ReleaseIsExactHolds, PTL DEF KeepsTheOrder

Home == <<Realm, Unit>>

\* The pipeline reserves in the realm's own account, delegates nothing, marks
\* nothing uncertain; byom charges no bridge that it has not opened.
HomeInv ==
    /\ \A e \in Keys : account[e] \in {None, Realm}
    /\ \A e \in Keys : bridge[e] = "none" => byomCharged[e] = 0
    /\ ledger[Home]["uncertain"] = 0 /\ ledger[Home]["delegated"] = 0

\* The operations of the ledger that the pipeline calls and that move anything.
LEMMA LedgerCalls ==
    ASSUME Inv, [EpisodeNext]_vars
    PROVE  \/ UNCHANGED <<ledger, account>>
           \/ \E e \in Keys : Narrows(e) /\ Reserve(e, Realm, Narrowed(e))
           \/ \E s \in Sagas : \E c \in 0 .. saga[s].charge : SettleCommit(s, c)
           \/ \E e \in Keys : Release(e)
           \/ \E c \in Ceilings : Grant(Unit, c)
<1>1. CASE UNCHANGED <<ledger, account>>  BY <1>1
<1>2. ASSUME NEW e \in Keys, Admit(e)
      PROVE  UNCHANGED <<ledger, account>> \/ (Narrows(e) /\ Reserve(e, Realm, Narrowed(e)))
  BY <1>2 DEF Admit, ledgerVars, accountVars
<1>3. ASSUME ApplySettled
      PROVE  \/ UNCHANGED <<ledger, account>>
             \/ \E s \in Sagas : \E c \in 0 .. saga[s].charge : SettleCommit(s, c)
  <2> DEFINE s == <<call.key, call.kind>>
             c == call.answer.charge
  <2>1. s \in Sagas /\ c \in Nat  BY <1>3, CallSaga DEF ApplySettled, At
  <2>2. CASE SettleCommit(s, c)
    <3>1. saga[s].charge \in Nat  BY <2>1, <2>2, SagaType DEF SettleCommit, Inv, SafeLedger
    <3>2. c \in 0 .. saga[s].charge
      <4>1. c <= saga[s].charge  BY <2>2 DEF SettleCommit
      <4> HIDE DEF s, c
      <4> QED  BY <2>1, <3>1, <4>1
    <3> QED  BY <2>1, <2>2, <3>2
  <2>3. CASE UNCHANGED ledgerVars \/ PeerAboveCap(s, c)
    BY <2>3 DEF PeerAboveCap, ledgerVars, accountVars, recordVars
  <2> QED  BY <1>3, <2>2, <2>3 DEF ApplySettled
<1>4. ASSUME ReleaseRemainder
      PROVE  UNCHANGED <<ledger, account>> \/ \E e \in Keys : Release(e)
  BY <1>4, CallSaga DEF ReleaseRemainder, At, ledgerVars, accountVars
<1>5. ASSUME Start  PROVE UNCHANGED <<ledger, account>> \/ \E c \in Ceilings : Grant(Unit, c)
  BY <1>5 DEF Start, ledgerVars, accountVars
<1>6. CASE ReportUsage \/ TerminalSettlement \/ Adopt \/ ApplyUnsettled
  <2>1. CASE ReportUsage
    BY <1>1, <2>1
    DEF ReportUsage, Begin, SettleBegin, sagaVars, ledgerVars, accountVars, recordVars
  <2>2. CASE TerminalSettlement
    BY <1>1, <2>2
    DEF TerminalSettlement, Begin, SettleBegin, sagaVars, ledgerVars, accountVars, recordVars
  <2>3. CASE Adopt
    BY <1>1, <2>3
    DEF Adopt, Begin, SettleBegin, sagaVars, ledgerVars, accountVars, recordVars
  <2>4. CASE ApplyUnsettled
    BY <1>1, <2>4
    DEF ApplyUnsettled, SettleDenied, SettleUnknown, SettleResolve, ledgerVars, accountVars,
        recordVars
  <2> QED  BY <1>6, <2>1, <2>2, <2>3, <2>4
<1>7. CASE \E e \in Keys : \E c \in 0 .. amount[e][Unit] : Settle(e, c)
  BY <1>1, <1>7 DEF Settle, Begin, SettleBegin, sagaVars, ledgerVars, accountVars, recordVars
<1>8. CASE Die \/ LedgerGoesOn
  BY <1>1, <1>8 DEF Die, LedgerGoesOn, Continue, accountVars, recordVars
<1>9. CASE \/ Exchange \/ AskSettlement \/ ApplyEvidence \/ RecordReport \/ TailSettled
           \/ AskComplete \/ Unbind \/ CloseTail \/ SweepSaga \/ SweepTails \/ ResumeTail
           \/ Serve \/ UNCHANGED vars
  BY <1>1, <1>9 DEF Exchange, AskSettlement, ApplyEvidence, RecordReport, TailSettled,
     AskComplete, Unbind, CloseTail, SweepSaga, SweepTails, ResumeTail, Serve, vars,
     sagaVars, ledgerVars, accountVars
<1>10. CASE \E e \in Keys : PlacementAdmit(e) \/ Bind(e) \/ Fence(e) \/ ModelCall(e)
                               \/ Complete(e) \/ ByomCatchesUp(e)
  BY <1>1, <1>10 DEF PlacementAdmit, Bind, Fence, ModelCall, Complete, ByomCatchesUp,
     sagaVars, ledgerVars, accountVars
<1> QED
  BY <1>2, <1>3, <1>4, <1>5, <1>6, <1>7, <1>8, <1>9, <1>10 DEF EpisodeNext, Work, Requests

\* byom charges a bridge in settling it or in terminalizing its Episode.
LEMMA BridgeCharges ==
    ASSUME Inv, [EpisodeNext]_vars, NEW e \in Keys, bridge'[e] = "none"
    PROVE  bridge[e] = "none" /\ byomCharged'[e] = byomCharged[e]
<1> DEFINE Goal == bridge[e] = "none" /\ byomCharged'[e] = byomCharged[e]
<1>1. /\ bridge \in [Keys -> {"none", "confirmed", "settled", "maxed"}]
      /\ byomCharged \in [Keys -> Nat]
  BY Shapes DEF TailTypeOK
<1>2. ASSUME UNCHANGED <<bridge, byomCharged>>  PROVE Goal
  BY <1>2
<1>3. ASSUME NEW f \in Keys, NEW c, SettleBridge(f, c)  PROVE Goal
  BY <1>1, <1>3 DEF SettleBridge
<1>4. ASSUME NEW f \in Keys, NEW c, Terminalize(f, c)  PROVE Goal
  BY <1>1, <1>2, <1>4 DEF Terminalize
<1>5. ASSUME NEW f \in Keys, PlacementAdmit(f)  PROVE Goal
  BY <1>1, <1>5 DEF PlacementAdmit
<1>6. ASSUME NEW f \in Keys, ByomCatchesUp(f)  PROVE Goal
  BY <1>3, <1>4, <1>6 DEF ByomCatchesUp
<1>7. ASSUME AskSettlement  PROVE Goal
  <2>1. call.key \in Keys  BY <1>7, CallSaga DEF AskSettlement, At
  <2> QED  BY <1>2, <1>3, <1>7, <2>1 DEF AskSettlement, byomVars
<1>8. ASSUME AskComplete  PROVE Goal
  <2>1. call.key \in Keys  BY <1>8, CallSaga DEF AskComplete, At
  <2> QED  BY <1>2, <1>4, <1>8, <2>1 DEF AskComplete
<1>9. CASE \/ Exchange \/ ReportUsage \/ ApplySettled \/ ApplyUnsettled \/ ApplyEvidence
           \/ RecordReport \/ TerminalSettlement \/ TailSettled \/ Unbind \/ Adopt
           \/ ReleaseRemainder \/ CloseTail
  BY <1>2, <1>9 DEF Exchange, ReportUsage, ApplySettled, ApplyUnsettled, ApplyEvidence,
     RecordReport, TerminalSettlement, TailSettled, Unbind, Adopt, ReleaseRemainder, CloseTail,
     byomVars
<1>10. CASE \/ SweepSaga \/ SweepTails \/ ResumeTail \/ Serve \/ LedgerGoesOn \/ Start \/ Die
            \/ UNCHANGED vars
  BY <1>2, <1>10 DEF SweepSaga, SweepTails, ResumeTail, Serve, LedgerGoesOn, Start, Die, vars,
     byomVars
<1>11. ASSUME NEW f \in Keys,
              \/ Admit(f) \/ Bind(f) \/ Fence(f) \/ ModelCall(f) \/ Complete(f)
              \/ \E c \in 0 .. amount[f][Unit] : Settle(f, c)
       PROVE  Goal
  BY <1>2, <1>11 DEF Admit, Bind, Fence, ModelCall, Complete, Settle, byomVars
<1> QED
  BY <1>5, <1>6, <1>7, <1>8, <1>9, <1>10, <1>11 DEF EpisodeNext, Work, Requests

LEMMA HomeStep ==
    ASSUME Inv, OrderlyInv, HomeInv, [EpisodeNext]_vars
    PROVE  HomeInv'
<1> USE DEF Flow!Buckets
<1>1. LedgerTypeOK /\ SafeLedger /\ Placement  BY DEF Inv, SafeLedger, OrderlyInv, HoldsInv
<1>2. Home \in Rows  BY UnitAssumption DEF Home, Rows, Accounts
<1>3. /\ ledger[Home] \in [Flow!Fields -> Int]
      /\ ledger[Home]["uncertain"] = 0 /\ ledger[Home]["delegated"] = 0
  BY <1>1, <1>2 DEF LedgerTypeOK, HomeInv
<1> DEFINE Goal == /\ \A e \in Keys : account'[e] \in {None, Realm}
                   /\ ledger'[Home]["uncertain"] = 0 /\ ledger'[Home]["delegated"] = 0
<1>4. ASSUME NEW from \in {"remaining", "reserved"},
             NEW to \in {"remaining", "reserved", "committed"}, from # to,
             NEW a, NEW q \in [Dims -> Int], MoveBetween(from, to, a, q)
      PROVE  ledger'[Home]["uncertain"] = 0 /\ ledger'[Home]["delegated"] = 0
  <2>1. /\ ledger'[Home]["uncertain"] - ledger[Home]["uncertain"] = 0
        /\ ledger'[Home]["delegated"] - ledger[Home]["delegated"] = 0
    BY <1>1, <1>2, <1>4, MovedBuckets
  <2>2. ledger'[Home] \in [Flow!Fields -> Int]
    BY <1>1, <1>2, <1>4, TypeMoveBetween DEF LedgerType
  <2> QED  BY <1>3, <2>1, <2>2 DEF Flow!Fields
<1>5. ASSUME UNCHANGED <<ledger, account>>  PROVE Goal  BY <1>3, <1>5 DEF HomeInv
<1>6. ASSUME NEW e \in Keys, Narrows(e), Reserve(e, Realm, Narrowed(e))  PROVE Goal
  <2>1. Narrowed(e) \in [Dims -> Int]
    BY <1>6, NarrowedOffered, AmountsAreNat DEF Offers, Reserve
  <2>2. MoveBetween("remaining", "reserved", Realm, Narrowed(e))  BY <1>6 DEF Reserve
  <2>3. account' = [account EXCEPT ![e] = Realm]  BY <1>6 DEF Reserve
  <2> QED  BY <1>1, <1>4, <2>1, <2>2, <2>3 DEF HomeInv, LedgerTypeOK
<1>7. ASSUME NEW s \in Sagas, NEW c \in 0 .. saga[s].charge, SettleCommit(s, c)  PROVE Goal
  <2>1. PICK k \in Keys, d \in Dims, take \in Int : Settles(k, d, c, take)
    BY <1>1, <1>7, OneUnit, SettleTakes
  <2>2. MoveBetween("reserved", "committed", account[k], [Zero EXCEPT ![d] = take])
    BY <2>1 DEF Settles
  <2>3. [Zero EXCEPT ![d] = take] \in [Dims -> Int]  BY DEF Zero
  <2>4. account' = account  BY <2>1 DEF Settles
  <2> QED  BY <1>4, <2>2, <2>3, <2>4 DEF HomeInv
<1>8. ASSUME NEW e \in Keys, Release(e)  PROVE Goal
  <2>1. account' = account  BY <1>8 DEF Release
  <2>2. CASE holdState[e] = "reserved"
    BY <1>1, <1>4, <1>8, <2>1, <2>2, RestType DEF Release, MoveHolds, HomeInv
  <2>3. CASE holdState[e] # "reserved"
    BY <1>8, <2>1, <2>3 DEF Release, MoveHolds, accountVars, HomeInv
  <2> QED  BY <2>2, <2>3
<1>9. ASSUME NEW c \in Ceilings, Grant(Unit, c)  PROVE Goal
  <2>1. account' = account  BY <1>9 DEF Grant, recordVars
  <2>2. \E n : ledger' = [ledger EXCEPT ![Home] = Resized(Home, n)]
    BY <1>9 DEF Grant, Home
  <2> QED  BY <1>1, <1>2, <1>3, <2>1, <2>2 DEF Resized, HomeInv, LedgerTypeOK, Flow!Fields
<1>10. Goal  BY <1>5, <1>6, <1>7, <1>8, <1>9, LedgerCalls DEF HomeInv
<1>11. \A e \in Keys : bridge'[e] = "none" => byomCharged'[e] = 0
  BY BridgeCharges DEF HomeInv
<1> QED  BY <1>10, <1>11 DEF HomeInv

LEMMA HomeInit == EpisodeInit => HomeInv
BY UnitAssumption DEF EpisodeInit, LedgerInit, HomeInv, Home, Flow!Init, Flow!Fields,
   Flow!Buckets, Rows, Accounts

LEMMA HomeHolds == EpisodeSpec => []HomeInv
<1>1. Inv /\ OrderlyInv /\ HomeInv /\ [EpisodeNext]_vars => HomeInv'  BY HomeStep
<1> QED  BY InvHolds, PipelineIsOrderly, HomeInit, <1>1, PTL DEF EpisodeSpec

\* What an Episode whose tail is done has charged is in `committed` and with
\* byom alike; one that was never admitted is nowhere.
LEMMA ChargedOnBothSides ==
    ASSUME Inv, OrderlyInv, HomeInv, SteadyInv, NEW e \in Keys,
           state[e] = "absent" \/ tail[e] = "done"
    PROVE  /\ holdState[e] # "reserved"
           /\ account[e] = Realm => byomCharged[e] = holdCharged[e][Unit]
           /\ account[e] # Realm => byomCharged[e] = 0
<1>1. /\ state[e] \in ReservationState /\ holdState[e] \in HoldState
      /\ holdCharged[e] \in [Dims -> Int]
  BY DEF Inv, SafeLedger, LedgerTypeOK
<1>2. Unit \in Dims /\ Realm # None  BY UnitAssumption, NoneAssumption DEF Accounts
<1>3. LocalOK(e) /\ BridgeOK(e) /\ TailOK(e)
  BY DEF Inv, TailInv, LocalsOK, BridgesOK, TailsOK
<1>4. Placed(e) /\ charged[e] = Total(holdCharged[e])
  BY DEF OrderlyInv, HoldsInv, Placement, Recorded
<1>5. CASE state[e] = "absent"
  <2>1. holdState[e] = "none" /\ account[e] = None  BY <1>4, <1>5 DEF Placed
  <2>2. bridge[e] = "none"  BY <1>3, <1>5 DEF BridgeOK
  <2> QED  BY <1>2, <2>1, <2>2 DEF HomeInv
<1>6. CASE state[e] # "absent" /\ tail[e] = "done"
  <2>1. holdState[e] = "released"  BY <1>3, <1>6 DEF TailOK
  <2>2. state[e] \in {"settled", "released"}  BY <1>3, <1>6, <2>1 DEF LocalOK
  <2>3. charged[e] = byomCharged[e]  BY <2>2 DEF SteadyInv
  <2>4. charged[e] = holdCharged[e][Unit]  BY <1>1, <1>2, <1>4, OneUnit, OneTotal
  <2>5. account[e] = Realm  BY <1>2, <1>4, <1>6, NoneAssumption DEF HomeInv, Placed
  <2> QED  BY <2>1, <2>3, <2>4, <2>5
<1> QED  BY <1>5, <1>6

LEMMA ComesHome ==
    ASSUME Inv, OrderlyInv, HomeInv, SteadyInv
    PROVE  CapacityComesHome
<1> SUFFICES ASSUME \A e \in Keys : state[e] = "absent" \/ tail[e] = "done"
             PROVE  ledger[Home]["remaining"]
                        = ledger[Home]["ceiling"] - SumFunctionOnSet(byomCharged, Keys)
  BY DEF CapacityComesHome, Home
<1> DEFINE mine == {e \in Keys : account[e] = Realm}
           took == [e \in Keys |-> holdCharged[e][Unit]]
           held == {e \in Keys : account[e] = Realm /\ holdState[e] = "reserved"}
           left == [e \in Keys |-> Rest(e)[Unit]]
<1>1. Home \in Rows  BY UnitAssumption DEF Home, Rows, Accounts
<1>2. Explained(Home)  BY <1>1, HoldsExplained DEF OrderlyInv, HoldsInv
<1>3. held = {}  BY ChargedOnBothSides
<1>4. ledger[Home]["reserved"] = 0
  <2>1. HeldAs("reserved", Home) = SumFunctionOnSet(left, held)  BY DEF HeldAs, Home
  <2> HIDE DEF left, held
  <2> QED  BY <1>2, <1>3, <2>1, SumEmpty DEF Explained
<1>5. ledger[Home]["committed"] = SumFunctionOnSet(took, mine)
  BY <1>2 DEF Explained, ChargedTo, Home
<1>6. SumFunctionOnSet(took, mine) = SumFunctionOnSet(byomCharged, Keys)
  <2>1. \A e \in mine : took[e] = byomCharged[e]  BY ChargedOnBothSides
  <2>2. \A e \in Keys \ mine : byomCharged[e] = 0  BY ChargedOnBothSides
  <2>3. \A e \in Keys : byomCharged[e] \in Int  BY Shapes DEF TailTypeOK
  <2>4. mine \subseteq Keys /\ IsFiniteSet(mine) /\ IsFiniteSet(Keys)
    BY FiniteAssumption, FS_Subset
  <2> HIDE DEF mine, took
  <2>5. SumFunctionOnSet(took, mine) = SumFunctionOnSet(byomCharged, mine)
    BY <2>1, <2>4, SumAgree
  <2>6. SumFunctionOnSet(byomCharged, Keys) = SumFunctionOnSet(byomCharged, mine)
    BY <2>2, <2>3, <2>4, SumSupport
  <2> QED  BY <2>5, <2>6
<1>7. /\ ledger[Home] \in [Flow!Fields -> Int]
      /\ Conserves(ledger[Home])
  BY <1>1 DEF Inv, SafeLedger, LedgerTypeOK, Conservation, Conserves
<1>8. ledger[Home]["uncertain"] = 0 /\ ledger[Home]["delegated"] = 0  BY DEF HomeInv
<1>9. ledger[Home]["committed"] = SumFunctionOnSet(byomCharged, Keys)  BY <1>5, <1>6
<1> HIDE DEF Home
<1> QED
  BY <1>4, <1>7, <1>8, <1>9 DEF Conserves, Flow!Fields, Flow!Buckets

\* Capacity comes home: once every Episode's tail is done, all that is missing
\* from the realm's account is what byom charged, however many Episodes there
\* were and whatever was lost, repeated or cut short on the way.
THEOREM CapacityComesHomeHolds == SteadySpec => []CapacityComesHome
<1>1. SteadySpec => EpisodeSpec
  <2>1. [EpisodeNext /\ ReserveCompletes]_vars => [EpisodeNext]_vars  OBVIOUS
  <2> QED  BY <2>1, PTL DEF SteadySpec, EpisodeSpec
<1>2. Inv /\ SteadyInv /\ [EpisodeNext /\ ReserveCompletes]_vars => SteadyInv'
  BY SteadyStep
<1>3. Inv /\ OrderlyInv /\ HomeInv /\ SteadyInv => CapacityComesHome  BY ComesHome
<1> QED
  BY InvHolds, PipelineIsOrderly, HomeHolds, SteadyInit, <1>1, <1>2, <1>3, PTL DEF SteadySpec
=============================================================================
