------------------------- MODULE ModelEffectProofs -------------------------
(***************************************************************************)
(* The safety of one governed model call, for every set of acts, requests, *)
(* assents and bounds: the properties of ModelEffect that its runs check,  *)
(* and the inductive invariant they follow from.                           *)
(*                                                                         *)
(* The argument: what a call may do next rests on what earlier steps have  *)
(* put down, and no other call, crash or sweep takes any of that away.     *)
(* InHand says what the call under way rests on; Chain, Decided and the     *)
(* properties themselves what the rows and byom's records keep once it is  *)
(* over.                                                                   *)
(***************************************************************************)
EXTENDS ModelEffect, TLAPS

\* Where a call has a request, and where it has passed the gate.
Asking   == {"plan", "row", "prepared", "permit", "store", "gate"}
Passed   == {"authorized", "credential", "attempt", "dispatch", "dispatching", "claim", "send"}
Finished == {"record", "announce", "meter", "report", "reported"}

\* The outcome of a call says what was seen, and counts what was reported.
Truthful ==
    /\ outcome.state = "completed" =>
          /\ sent[act] = 1 /\ heard[act] # None /\ heard[act].reply
          /\ outcome.usage = (IF heard[act].usage = None THEN 0 ELSE heard[act].usage)
    /\ outcome.state = "failed" =>
          /\ outcome.usage = 0
          /\ sent[act] = 1 => heard[act] # None /\ ~heard[act].reply

\* byom's receipt is for what the call asked for, as far as it says so.
Agreed ==
    consumption[act].receipt.reports =>
        /\ Disclosed(consumption[act].receipt.req) = Disclosed(req)
        /\ consumption[act].receipt.fence = localFence

InHand ==
    /\ at \in Asking \union Passed \union Finished
                \union {"answer", "outcome", "reconcile", "reconciled", "swept",
                        "frozen"} => act \in Acts
    /\ at \in Asking \union Passed => req \in Requests
    /\ at \in {"prepared", "permit", "store", "gate"} => row[act] # None
    /\ at = "store" => /\ consumption[act] = None /\ peer[act] # None
                     /\ reply.req = peer[act].req /\ reply.fence = peer[act].fence
    /\ at \in {"gate"} \union Passed => consumption[act] # None
    /\ at \in Passed => sent[act] = 0 /\ Agreed
    /\ at \in {"authorized", "credential", "attempt"} => attempt[act] = None
    /\ at \in {"dispatch", "dispatching", "claim", "send", "answer", "outcome"}
          => attempt[act] = "dispatching"
    /\ at = "send" => consumption[act].state = "spent"
    /\ at = "answer" => sent[act] = 1
    /\ at = "outcome" => Truthful
    /\ at \in {"record", "announce", "meter"} =>
          Truthful /\ attempt[act] = outcome.state /\ ~reconciled[act]
    /\ at = "meter" => outcome.state \in {"completed", "failed"}
    /\ at \in Finished => attempt[act] \notin {None, "dispatching"}
    /\ at \in {"report", "reported"} => metered[act] # None

\* What is on record of an act, here and at byom.
Chain ==
    \A a \in Acts :
        /\ sent[a] \in {0, 1}
        /\ peer[a] # None => row[a] # None /\ Disclosed(peer[a].req) = Allowed[a]
        /\ consumption[a] # None =>
              /\ peer[a] # None
              /\ consumption[a].receipt.req = peer[a].req
              /\ consumption[a].receipt.fence = peer[a].fence
        /\ attempt[a] # None => consumption[a] # None
        /\ sent[a] = 1 => attempt[a] # None /\ consumption[a].state = "spent"

\* The operator has the last word.
Decided ==
    \A a \in Acts : reconciled[a] => attempt[a] \in {"completed", "failed"}

IInv == EffectTypeOK /\ InHand /\ Chain /\ Decided /\ HonestOutcome /\ SeenIsMetered

-----------------------------------------------------------------------------
(* The inductive invariant: it holds at the start ...                      *)

\* The invariant holds of a fresh database and a byom that knows no act.
LEMMA InitHolds == Init => IInv
<1> SUFFICES ASSUME Init PROVE IInv
  OBVIOUS
<1>1. EffectTypeOK
  BY NumbersAssumption DEF Init, EffectTypeOK
<1>2. InHand
  BY DEF Init, InHand, Asking, Passed, Finished
<1>3. Chain /\ Decided
  BY DEF Init, Chain, Decided
<1>4. HonestOutcome /\ SeenIsMetered
  BY NoneAssumption DEF Init, HonestOutcome, SeenIsMetered, States, Terminal
<1> QED
  BY <1>1, <1>2, <1>3, <1>4 DEF IInv

(* ... and every step keeps it.  The steps of a call come in its order; a  *)
(* leaf opens the parts of the invariant that the action can disturb and   *)
(* those it rests on.                                                      *)

\* Every step of a call, the sweep, the operator and byom keeps the invariant.
LEMMA StepHolds == IInv /\ [EffectNext]_vars => IInv'
<1>1. ASSUME IInv, NEW a \in Acts, NEW r \in Requests, Complete(a, r)
      PROVE  IInv'
  <2>1. EffectTypeOK' /\ InHand' /\ Chain' /\ Decided' /\ HonestOutcome' /\ SeenIsMetered'
    BY <1>1 DEF IInv, Complete, EffectTypeOK, effectVars, fenceVars, byomVars, providerVars,
      States, Terminal, InHand, Agreed, Truthful, Asking, Passed, Finished, Chain, Decided,
      HonestOutcome, SeenIsMetered
  <2> QED
    BY <2>1 DEF IInv
<1>2. ASSUME IInv, Plan
      PROVE  IInv'
  <2>1. EffectTypeOK' /\ InHand' /\ Chain' /\ Decided' /\ HonestOutcome' /\ SeenIsMetered'
    BY <1>2 DEF IInv, Plan, EffectTypeOK, effectVars, fenceVars, byomVars, providerVars, Go,
      Ends, States, Terminal, InHand, Agreed, Truthful, Asking, Passed, Finished, Chain,
      Decided, HonestOutcome, SeenIsMetered
  <2> QED
    BY <2>1 DEF IInv
<1>3. ASSUME IInv, Prepare
      PROVE  IInv'
  <2>1. EffectTypeOK' /\ InHand' /\ Chain' /\ HonestOutcome'
    BY <1>3, SMTT(60), NoneAssumption DEF IInv, Prepare, EffectTypeOK, InHand, Agreed,
      Truthful, Asking, Passed, Finished, fenceVars, byomVars, providerVars, Go, States,
      Terminal, Chain, HonestOutcome
  <2>2. Decided' /\ SeenIsMetered'
    BY <1>3 DEF IInv, Prepare, Decided, fenceVars, byomVars, providerVars, Go, SeenIsMetered
  <2> QED
    BY <2>1, <2>2 DEF IInv
<1>4. ASSUME IInv, Announce("prepared", "prepared", "permit")
      PROVE  IInv'
  <2>1. EffectTypeOK'
    BY <1>4, SMTT(60), NoneAssumption DEF IInv, Announce, EffectTypeOK, InHand, Agreed,
      Truthful, Asking, Passed, Finished, fenceVars, byomVars, providerVars, Go, Ends,
      States, Terminal
  <2>2. InHand' /\ Chain' /\ Decided' /\ HonestOutcome' /\ SeenIsMetered'
    BY <1>4 DEF IInv, Announce, InHand, Agreed, Truthful, Asking, Passed, Finished,
      fenceVars, byomVars, providerVars, Go, Ends, Chain, Decided, HonestOutcome,
      SeenIsMetered
  <2> QED
    BY <2>1, <2>2 DEF IInv
<1>5. ASSUME IInv, PeerConsumes
      PROVE  IInv'
  <2>1. EffectTypeOK'
    BY <1>5, SMTT(60), NoneAssumption DEF IInv, PeerConsumes, EffectTypeOK, InHand, Agreed,
      Truthful, Asking, Passed, Finished, Chain, effectVars, fenceVars, providerVars, Ends,
      States, Terminal, Results, Receipt, Use, Consumption
  <2>2. InHand'
    BY <1>5, SMTT(60), NoneAssumption DEF IInv, PeerConsumes, InHand, Agreed, Truthful,
      Asking, Passed, Finished, Chain, EffectTypeOK, effectVars, fenceVars, providerVars,
      Ends, States, Terminal, Results, Receipt, Use, Consumption
  <2>3. Chain'
    BY <1>5, SMTT(60), NoneAssumption DEF IInv, PeerConsumes, Chain, InHand, Agreed,
      Truthful, Asking, Passed, Finished, EffectTypeOK, effectVars, fenceVars, providerVars,
      Ends, States, Terminal
  <2>4. Decided' /\ HonestOutcome' /\ SeenIsMetered'
    BY <1>5 DEF IInv, PeerConsumes, Decided, effectVars, fenceVars, providerVars, Ends,
      HonestOutcome, SeenIsMetered
  <2> QED
    BY <2>1, <2>2, <2>3, <2>4 DEF IInv
<1>6. ASSUME IInv, PeerRefuses
      PROVE  IInv'
  <2>1. EffectTypeOK' /\ InHand' /\ Chain' /\ Decided' /\ HonestOutcome' /\ SeenIsMetered'
    BY <1>6 DEF IInv, PeerRefuses, EffectTypeOK, effectVars, fenceVars, byomVars,
      providerVars, Ends, States, Terminal, InHand, Agreed, Truthful, Asking, Passed,
      Finished, Chain, Decided, HonestOutcome, SeenIsMetered
  <2> QED
    BY <2>1 DEF IInv
<1>7. ASSUME IInv, StoreConsumption
      PROVE  IInv'
  <2>1. EffectTypeOK' /\ InHand'
    BY <1>7, SMTT(60), NoneAssumption DEF IInv, StoreConsumption, EffectTypeOK, InHand,
      Agreed, Truthful, Asking, Passed, Finished, Chain, effectVars, fenceVars, byomVars,
      providerVars, States, Terminal, Results, Receipt, Use, Consumption
  <2>2. Chain'
    <3>1. act \in Acts /\ reply \in Receipt /\ peer[act] # None /\ row[act] # None
          /\ reply.req = peer[act].req /\ reply.fence = peer[act].fence
      BY <1>7 DEF IInv, EffectTypeOK, InHand, StoreConsumption, Asking
    <3>2. consumption' = [consumption EXCEPT ![act] = [state |-> "consumed", receipt |-> reply]]
          /\ UNCHANGED <<sent, peer, row, attempt>>
      BY <1>7 DEF StoreConsumption, effectVars, byomVars, providerVars
    <3>3. consumption[act] = None
      BY <1>7 DEF IInv, InHand, StoreConsumption
    <3>4. Chain /\ consumption \in [Acts -> Consumption \union {None}]
      BY <1>7 DEF IInv, EffectTypeOK
    <3> QED
      BY <3>1, <3>2, <3>3, <3>4 DEF Chain
  <2>3. Decided' /\ HonestOutcome' /\ SeenIsMetered'
    BY <1>7 DEF IInv, StoreConsumption, Decided, effectVars, fenceVars, byomVars, providerVars,
      HonestOutcome, SeenIsMetered
  <2> QED
    BY <2>1, <2>2, <2>3 DEF IInv
<1>8. ASSUME IInv, Recovered
      PROVE  IInv'
  <2>1. EffectTypeOK' /\ InHand' /\ Chain' /\ Decided' /\ HonestOutcome' /\ SeenIsMetered'
    BY <1>8 DEF IInv, Recovered, EffectTypeOK, effectVars, fenceVars, byomVars,
      providerVars, Go, States, Terminal, InHand, Agreed, Truthful, Asking, Passed,
      Finished, Chain, Decided, HonestOutcome, SeenIsMetered
  <2> QED
    BY <2>1 DEF IInv
<1>9. ASSUME IInv, Authorize
      PROVE  IInv'
  <2>1. EffectTypeOK' /\ Chain' /\ Decided' /\ HonestOutcome' /\ SeenIsMetered'
    BY <1>9 DEF IInv, Authorize, EffectTypeOK, effectVars, fenceVars, byomVars,
      providerVars, Go, Ends, States, Terminal, Chain, Decided, HonestOutcome, SeenIsMetered
  <2>2. InHand'
    BY <1>9, SMTT(60), NoneAssumption DEF IInv, Authorize, InHand, Agreed, Truthful, Asking,
      Passed, Finished, Chain, EffectTypeOK, effectVars, fenceVars, byomVars, providerVars,
      Go, Ends, States, Terminal, Authorizes, Results, Receipt, Use, Consumption
  <2> QED
    BY <2>1, <2>2 DEF IInv
<1>10. ASSUME IInv, Announce("authorized", "authorized", "credential")
      PROVE  IInv'
  <2>1. EffectTypeOK'
    BY <1>10, SMTT(60), NoneAssumption DEF IInv, Announce, EffectTypeOK, InHand, Agreed,
      Truthful, Asking, Passed, Finished, fenceVars, byomVars, providerVars, Go, Ends,
      States, Terminal
  <2>2. InHand' /\ Chain' /\ Decided' /\ HonestOutcome' /\ SeenIsMetered'
    BY <1>10 DEF IInv, Announce, InHand, Agreed, Truthful, Asking, Passed, Finished,
      fenceVars, byomVars, providerVars, Go, Ends, Chain, Decided, HonestOutcome,
      SeenIsMetered
  <2> QED
    BY <2>1, <2>2 DEF IInv
<1>11. ASSUME IInv, ResolveCredential
      PROVE  IInv'
  <2>1. EffectTypeOK' /\ Chain' /\ Decided' /\ HonestOutcome' /\ SeenIsMetered'
    BY <1>11 DEF IInv, ResolveCredential, EffectTypeOK, effectVars, fenceVars, byomVars,
      providerVars, Go, Ends, States, Terminal, Chain, Decided, HonestOutcome, SeenIsMetered
  <2>2. InHand'
    BY <1>11, SMTT(60), NoneAssumption DEF IInv, ResolveCredential, InHand, Agreed,
      Truthful, Asking, Passed, Finished, EffectTypeOK, effectVars, fenceVars, byomVars,
      providerVars, Go, Ends, States, Terminal
  <2> QED
    BY <2>1, <2>2 DEF IInv
<1>12. ASSUME IInv, InsertAttempt
      PROVE  IInv'
  <2>1. EffectTypeOK' /\ InHand' /\ Decided'
    BY <1>12, SMTT(60), NoneAssumption DEF IInv, InsertAttempt, EffectTypeOK, InHand,
      Agreed, Truthful, Asking, Passed, Finished, fenceVars, byomVars, providerVars, Go,
      States, Terminal, Decided
  <2>2. Chain'
    BY <1>12, SMTT(60), NoneAssumption DEF IInv, InsertAttempt, Chain, InHand, Agreed,
      Truthful, Asking, Passed, Finished, EffectTypeOK, fenceVars, byomVars, providerVars,
      Go, States, Terminal, Results, Receipt, Use, Consumption
  <2>3. HonestOutcome' /\ SeenIsMetered'
    <3>1. act \in Acts /\ attempt[act] = None
      BY <1>12 DEF IInv, InHand, InsertAttempt, Asking, Passed, Finished
    <3>2. metered[act] = None
      BY <1>12, <3>1, NoneAssumption DEF IInv, SeenIsMetered, States, Terminal
    <3> QED
      BY <1>12, <3>1, <3>2 DEF IInv, EffectTypeOK, InsertAttempt, HonestOutcome, SeenIsMetered,
        byomVars, providerVars
  <2> QED
    BY <2>1, <2>2, <2>3 DEF IInv
<1>13. ASSUME IInv, SetEffect("dispatch", "dispatching", "dispatching")
      PROVE  IInv'
  <2>1. EffectTypeOK'
    BY <1>13, SMTT(60), NoneAssumption DEF IInv, SetEffect, EffectTypeOK, InHand, Agreed,
      Truthful, Asking, Passed, Finished, fenceVars, byomVars, providerVars, Go, States,
      Terminal
  <2>2. InHand' /\ Chain' /\ Decided' /\ HonestOutcome' /\ SeenIsMetered'
    BY <1>13 DEF IInv, SetEffect, InHand, Agreed, Truthful, Asking, Passed, Finished,
      fenceVars, byomVars, providerVars, Go, Chain, Decided, HonestOutcome, SeenIsMetered
  <2> QED
    BY <2>1, <2>2 DEF IInv
<1>14. ASSUME IInv, Announce("dispatching", "dispatching", "claim")
      PROVE  IInv'
  <2>1. EffectTypeOK'
    BY <1>14, SMTT(60), NoneAssumption DEF IInv, Announce, EffectTypeOK, InHand, Agreed,
      Truthful, Asking, Passed, Finished, fenceVars, byomVars, providerVars, Go, Ends,
      States, Terminal
  <2>2. InHand' /\ Chain' /\ Decided' /\ HonestOutcome' /\ SeenIsMetered'
    BY <1>14 DEF IInv, Announce, InHand, Agreed, Truthful, Asking, Passed, Finished,
      fenceVars, byomVars, providerVars, Go, Ends, Chain, Decided, HonestOutcome,
      SeenIsMetered
  <2> QED
    BY <2>1, <2>2 DEF IInv
<1>15. ASSUME IInv, ClaimUse
      PROVE  IInv'
  <2>0. /\ act \in Acts /\ req \in Requests /\ at = "claim"
        /\ attempt[act] = "dispatching" /\ sent[act] = 0 /\ Agreed
        /\ consumption[act] \in Consumption
    BY <1>15 DEF IInv, EffectTypeOK, InHand, ClaimUse, Asking, Passed, Finished
  <2>5. ASSUME consumption[act].state # "spent" PROVE EffectTypeOK' /\ InHand'
    <3>1. /\ consumption' = [consumption EXCEPT ![act].state = "spent"]
          /\ at' = "send" /\ UNCHANGED <<act, req, outcome, reply>>
      BY <1>15, <2>5 DEF ClaimUse, Go
    <3>2. /\ consumption' \in [Acts -> Consumption \union {None}]
          /\ consumption'[act].state = "spent"
          /\ consumption'[act].receipt = consumption[act].receipt
          /\ consumption'[act] # None
      BY <1>15, <2>0, <3>1, NoneAssumption DEF IInv, EffectTypeOK, Consumption
    <3>3. EffectTypeOK'
      BY <1>15, <2>0, <3>1, <3>2 DEF IInv, EffectTypeOK, ClaimUse, effectVars, fenceVars,
        byomVars, providerVars, States, Terminal
    <3>4. Agreed'
      BY <1>15, <2>0, <3>1, <3>2 DEF ClaimUse, Agreed, fenceVars
    <3>5. InHand'
      BY <1>15, <2>0, <3>1, <3>2, <3>4 DEF ClaimUse, InHand, Asking, Passed, Finished,
        effectVars, providerVars
    <3> QED
      BY <3>3, <3>5
  <2>6. ASSUME consumption[act].state = "spent" PROVE EffectTypeOK' /\ InHand'
    <3>1. /\ at' = "outcome" /\ outcome' = Unmeasured("failed")
          /\ UNCHANGED <<consumption, act, req, reply>>
      BY <1>15, <2>6 DEF ClaimUse
    <3>2. outcome' \in Results /\ outcome' # None
      BY <3>1, NoneAssumption DEF Unmeasured, Result, Results
    <3>3. EffectTypeOK'
      BY <1>15, <2>0, <3>1, <3>2 DEF IInv, EffectTypeOK, ClaimUse, effectVars, fenceVars,
        byomVars, providerVars, States, Terminal
    <3>4. InHand'
      BY <1>15, <2>0, <3>1 DEF ClaimUse, InHand, Truthful, Unmeasured, Result, Asking, Passed,
        Finished, effectVars, providerVars
    <3> QED
      BY <3>3, <3>4
  <2>3. EffectTypeOK' /\ InHand'
    BY <2>5, <2>6
  <2>4. Chain'
    BY <1>15, SMTT(60), NoneAssumption DEF IInv, ClaimUse, EffectTypeOK, InHand, Agreed,
      Truthful, Asking, Passed, Finished, Chain, effectVars, fenceVars, byomVars,
      providerVars, Go, States, Terminal, Results, Result, Unmeasured, Receipt, Use,
      Consumption
  <2>2. Decided' /\ HonestOutcome' /\ SeenIsMetered'
    BY <1>15 DEF IInv, ClaimUse, Decided, effectVars, fenceVars, byomVars, providerVars, Go,
      HonestOutcome, SeenIsMetered
  <2> QED
    BY <2>2, <2>3, <2>4 DEF IInv
<1>16. ASSUME IInv, Send
      PROVE  IInv'
  <2>0. /\ act \in Acts /\ req \in Requests /\ at = "send"
        /\ attempt[act] = "dispatching" /\ sent[act] = 0 /\ metered[act] = None
    BY <1>16 DEF IInv, InHand, SeenIsMetered, Send, Asking, Passed, Finished
  <2>1. EffectTypeOK'
    BY <1>16, <2>0, SMTT(60), NoneAssumption, NumbersAssumption DEF IInv, Send, Unsent,
      Unmeasured, Result, EffectTypeOK, effectVars, fenceVars, byomVars, Go, Concludes,
      Results
  <2>5. SeenIsMetered'
    BY <1>16, <2>0 DEF IInv, Send, EffectTypeOK, SeenIsMetered, effectVars, fenceVars,
      byomVars
  <2>2. InHand'
    <3>1. CASE at' = "answer"
      BY <1>16, <2>0, <3>1 DEF IInv, EffectTypeOK, Send, InHand, Asking, Passed, Finished, Go,
        Concludes, effectVars, fenceVars, byomVars
    <3>2. CASE at' = "outcome"
      BY <1>16, <2>0, <3>2 DEF Send, Unsent, Unmeasured, Result, InHand, Truthful, Asking,
        Passed, Finished, Go, Concludes, effectVars, fenceVars, byomVars
    <3> QED
      BY <1>16, <3>1, <3>2 DEF Send, Go, Concludes
  <2>3. Chain' /\ HonestOutcome'
    BY <1>16, SMTT(60), NoneAssumption DEF IInv, Send, Unsent, Unmeasured, Result, Chain,
      InHand, Agreed, Truthful, Asking, Passed, Finished, EffectTypeOK, effectVars,
      fenceVars, byomVars, Go, Concludes, States, Terminal, HonestOutcome
  <2>4. Decided'
    BY <1>16 DEF IInv, Send, Unsent, Unmeasured, Result, Decided, effectVars, fenceVars,
      byomVars, Go, Concludes
  <2> QED
    BY <2>1, <2>2, <2>3, <2>4, <2>5 DEF IInv
<1>17. ASSUME IInv, Hear
      PROVE  IInv'
  <2>0. /\ act \in Acts /\ at' = "outcome" /\ attempt[act] = "dispatching"
        /\ sent[act] = 1 /\ metered[act] = None
    BY <1>17 DEF IInv, InHand, SeenIsMetered, Hear, Concludes, Asking, Passed, Finished
  <2>1. EffectTypeOK' /\ InHand'
    <3>1. ASSUME NEW answer \in Answers, Concludes(Counted(answer)),
                 heard' = [heard EXCEPT ![act] = answer]
          PROVE  outcome' \in Results /\ Truthful'
      <4>1. heard'[act] = answer /\ act' = act /\ outcome' = Counted(answer) /\ sent' = sent
        BY <1>17, <2>0, <3>1 DEF IInv, EffectTypeOK, Hear, Concludes
      <4>2. answer # None /\ answer.reply \in BOOLEAN /\ answer.usage \in Usages \union {None}
        BY NoneAssumption DEF Answers
      <4> QED
        BY <2>0, <4>1, <4>2 DEF Truthful, Counted, Unmeasured, Result, Results
    <3>2. ASSUME Concludes(Unheard) PROVE outcome' \in Results /\ Truthful'
      BY <3>2 DEF Concludes, Unheard, Unmeasured, Result, Results, Truthful
    <3>3. outcome' \in Results /\ Truthful' /\ heard' \in [Acts -> Answers \union {None}]
      BY <1>17, <3>1, <3>2 DEF IInv, EffectTypeOK, Hear
    <3>4. outcome' # None
      BY <3>3, NoneAssumption
    <3>5. EffectTypeOK'
      BY <1>17, <2>0, <3>3, <3>4 DEF IInv, EffectTypeOK, Hear, Concludes, effectVars,
        fenceVars, byomVars, States, Terminal
    <3>6. InHand'
      BY <1>17, <2>0, <3>3 DEF InHand, Hear, Concludes, Asking, Passed, Finished, effectVars
    <3> QED
      BY <3>5, <3>6
  <2>3. Chain' /\ Decided'
    BY <1>17 DEF IInv, Hear, Answers, Unheard, Unmeasured, Result, Chain, effectVars,
      fenceVars, byomVars, Concludes, Decided
  <2>4. HonestOutcome' /\ SeenIsMetered'
    BY <1>17, <2>0 DEF IInv, EffectTypeOK, Hear, Concludes, HonestOutcome, SeenIsMetered,
      effectVars, byomVars
  <2> QED
    BY <2>1, <2>3, <2>4 DEF IInv
<1>18. ASSUME IInv, RecordOutcome
      PROVE  IInv'
  <2>1. EffectTypeOK'
    BY <1>18, SMTT(60), NoneAssumption, NumbersAssumption DEF IInv, RecordOutcome,
      EffectTypeOK, InHand, Agreed, Truthful, Asking, Passed, Finished, Chain, Decided,
      HonestOutcome, SeenIsMetered, fenceVars, byomVars, providerVars, Go, States,
      Terminal, Results, Receipt, Use, Consumption
  <2>0. /\ act \in Acts /\ attempt[act] = "dispatching" /\ Truthful
        /\ outcome.state \in {"completed", "failed", "ambiguous"}
        /\ metered[act] = None /\ ~reconciled[act] /\ sent[act] \in {0, 1}
    BY <1>18 DEF IInv, EffectTypeOK, InHand, Chain, Decided, SeenIsMetered, RecordOutcome,
      Asking, Passed, Finished, Results
  <2>2. InHand' /\ Chain' /\ HonestOutcome'
    <3>1. InHand'
      BY <1>18, <2>0, NoneAssumption DEF IInv, EffectTypeOK, InHand, RecordOutcome, Truthful,
        Asking, Passed, Finished, Go, providerVars, States, Terminal
    <3>2. Chain'
      BY <1>18, <2>0, NoneAssumption DEF IInv, EffectTypeOK, RecordOutcome, Chain, byomVars,
        providerVars, States, Terminal
    <3>3. HonestOutcome'
      BY <1>18, <2>0 DEF IInv, EffectTypeOK, RecordOutcome, HonestOutcome, Truthful,
        providerVars
    <3> QED
      BY <3>1, <3>2, <3>3
  <2>3. Decided'
    BY <1>18, SMTT(60), NoneAssumption DEF IInv, RecordOutcome, Decided, InHand, Agreed,
      Truthful, Asking, Passed, Finished, EffectTypeOK, fenceVars, byomVars, providerVars,
      Go, States, Terminal
  <2>4. SeenIsMetered'
    BY <1>18, <2>0 DEF IInv, EffectTypeOK, RecordOutcome, SeenIsMetered, byomVars, providerVars
  <2> QED
    BY <2>1, <2>2, <2>3, <2>4 DEF IInv
<1>19. ASSUME IInv, SetEffect("record", outcome.state, "announce")
      PROVE  IInv'
  <2>1. EffectTypeOK'
    BY <1>19, SMTT(60), NoneAssumption DEF IInv, SetEffect, EffectTypeOK, InHand, Agreed,
      Truthful, Asking, Passed, Finished, Chain, fenceVars, byomVars, providerVars, Go,
      States, Terminal, Results, Receipt, Use, Consumption
  <2>2. InHand' /\ Chain' /\ Decided' /\ HonestOutcome' /\ SeenIsMetered'
    BY <1>19 DEF IInv, SetEffect, InHand, Agreed, Truthful, Asking, Passed, Finished,
      fenceVars, byomVars, providerVars, Go, Chain, Decided, HonestOutcome, SeenIsMetered
  <2> QED
    BY <2>1, <2>2 DEF IInv
<1>20. ASSUME IInv, Announce("announce", outcome.state, IF Observed THEN "meter" ELSE "idle")
      PROVE  IInv'
  <2>1. EffectTypeOK' /\ InHand'
    BY <1>20, SMTT(60), NoneAssumption DEF IInv, Announce, Observed, EffectTypeOK, InHand,
      Agreed, Truthful, Asking, Passed, Finished, Chain, fenceVars, byomVars, providerVars,
      Go, Ends, States, Terminal, Results, Receipt, Use, Consumption
  <2>2. Chain' /\ Decided' /\ HonestOutcome' /\ SeenIsMetered'
    BY <1>20 DEF IInv, Announce, Chain, fenceVars, byomVars, providerVars, Go, Ends, Decided,
      HonestOutcome, SeenIsMetered
  <2> QED
    BY <2>1, <2>2 DEF IInv
<1>21. ASSUME IInv, Meter
      PROVE  IInv'
  <2>0. /\ act \in Acts /\ Truthful /\ attempt[act] = outcome.state /\ ~reconciled[act]
        /\ outcome.state \in {"completed", "failed"} /\ outcome.usage \in Usages \union {0}
        /\ sent[act] \in {0, 1}
    BY <1>21, NoneAssumption DEF IInv, EffectTypeOK, InHand, Chain, Meter, Asking, Passed,
      Finished, Results
  <2>1. EffectTypeOK' /\ Decided' /\ SeenIsMetered'
    <3>1. metered' = [metered EXCEPT ![act] = outcome.usage] \/ metered' = metered
      BY <1>21 DEF Meter
    <3>6. None \notin Nat /\ Usages \subseteq Nat
      BY NumbersAssumption, NoneAssumption
    <3>7. outcome.usage \in Usages \union {0} /\ 0 \in Nat
      BY <2>0
    <3>4. outcome.usage \in Nat /\ outcome.usage # None
      BY <3>6, <3>7, Zenon
    <3>5. metered' \in [Acts -> Nat \union {None}]
      BY <1>21, <3>1, <3>4 DEF IInv, EffectTypeOK
    <3>2. EffectTypeOK' /\ Decided'
      BY <1>21, <3>5 DEF IInv, EffectTypeOK, Decided, Meter, Go, Ends, effectVars, fenceVars,
        providerVars, States, Terminal
    <3>3. SeenIsMetered'
      BY <1>21, <2>0, <3>1, <3>4 DEF IInv, EffectTypeOK, Meter, SeenIsMetered, Truthful,
        effectVars, providerVars
    <3> QED
      BY <3>2, <3>3
  <2>2. InHand'
    BY <1>21, SMTT(60), NoneAssumption DEF IInv, Meter, InHand, Agreed, Truthful, Asking,
      Passed, Finished, Chain, EffectTypeOK, effectVars, fenceVars, providerVars, Go, Ends,
      States, Terminal, Results, Receipt, Use, Consumption
  <2>3. Chain' /\ HonestOutcome'
    BY <1>21 DEF IInv, Meter, Chain, effectVars, fenceVars, providerVars, Go, Ends,
      HonestOutcome
  <2> QED
    BY <2>1, <2>2, <2>3 DEF IInv
<1>22. ASSUME IInv, RecordReport
      PROVE  IInv'
  <2>1. EffectTypeOK' /\ SeenIsMetered'
    BY <1>22, SMTT(60), NoneAssumption DEF IInv, RecordReport, EffectTypeOK, InHand, Agreed,
      Truthful, Asking, Passed, Finished, fenceVars, byomVars, providerVars, Go, States,
      Terminal, SeenIsMetered
  <2>2. InHand' /\ Chain' /\ Decided' /\ HonestOutcome'
    BY <1>22 DEF IInv, RecordReport, InHand, Agreed, Truthful, Asking, Passed, Finished,
      fenceVars, byomVars, providerVars, Go, Chain, Decided, HonestOutcome
  <2> QED
    BY <2>1, <2>2 DEF IInv
<1>23. ASSUME IInv, Announce("reported", "reported", "idle")
      PROVE  IInv'
  <2>1. EffectTypeOK'
    BY <1>23, SMTT(60), NoneAssumption DEF IInv, Announce, EffectTypeOK, InHand, Agreed,
      Truthful, Asking, Passed, Finished, fenceVars, byomVars, providerVars, Go, Ends,
      States, Terminal
  <2>2. InHand' /\ Chain' /\ Decided' /\ HonestOutcome' /\ SeenIsMetered'
    BY <1>23 DEF IInv, Announce, InHand, Agreed, Truthful, Asking, Passed, Finished,
      fenceVars, byomVars, providerVars, Go, Ends, Chain, Decided, HonestOutcome,
      SeenIsMetered
  <2> QED
    BY <2>1, <2>2 DEF IInv
<1>24. ASSUME IInv, Restart
      PROVE  IInv'
  <2>1. EffectTypeOK' /\ InHand' /\ Chain' /\ Decided' /\ HonestOutcome' /\ SeenIsMetered'
    BY <1>24 DEF IInv, Restart, EffectTypeOK, effectVars, fenceVars, byomVars, providerVars,
      Go, States, Terminal, InHand, Agreed, Truthful, Asking, Passed, Finished, Chain, Decided,
      HonestOutcome, SeenIsMetered
  <2> QED
    BY <2>1 DEF IInv
<1>25. ASSUME IInv, SweepUses
      PROVE  IInv'
  <2>1. EffectTypeOK'
    BY <1>25, SMTT(60), NoneAssumption DEF IInv, SweepUses, EffectTypeOK, InHand, Agreed,
      Truthful, Asking, Passed, Finished, Chain, effectVars, fenceVars, byomVars,
      providerVars, Go, States, Terminal, Results, Receipt, Use, Consumption
  <2>2. InHand' /\ Decided' /\ HonestOutcome' /\ SeenIsMetered'
    BY <1>25 DEF IInv, SweepUses, InHand, Agreed, Truthful, Asking, Passed, Finished,
      effectVars, fenceVars, byomVars, providerVars, Go, Decided, HonestOutcome,
      SeenIsMetered
  <2>3. Chain'
    BY <1>25, SMTT(60), NoneAssumption DEF IInv, SweepUses, Chain, InHand, Agreed, Truthful,
      Asking, Passed, Finished, EffectTypeOK, effectVars, fenceVars, byomVars, providerVars,
      Go, States, Terminal, Results, Receipt, Use, Consumption
  <2> QED
    BY <2>1, <2>2, <2>3 DEF IInv
<1>26. ASSUME IInv, Serve
      PROVE  IInv'
  <2>1. EffectTypeOK' /\ InHand' /\ Chain' /\ Decided' /\ HonestOutcome' /\ SeenIsMetered'
    BY <1>26 DEF IInv, Serve, EffectTypeOK, effectVars, fenceVars, byomVars, providerVars,
      Ends, States, Terminal, InHand, Agreed, Truthful, Asking, Passed, Finished, Chain,
      Decided, HonestOutcome, SeenIsMetered
  <2> QED
    BY <2>1 DEF IInv
<1>27. ASSUME IInv, NEW a \in Acts, SweepAttempt(a)
      PROVE  IInv'
  <2>1. EffectTypeOK' /\ Chain' /\ HonestOutcome'
    BY <1>27, SMTT(60), NoneAssumption, NumbersAssumption DEF IInv, SweepAttempt,
      EffectTypeOK, InHand, Agreed, Truthful, Asking, Passed, Finished, Chain, Decided,
      HonestOutcome, SeenIsMetered, fenceVars, byomVars, providerVars, States, Terminal,
      NextState, Results, Receipt, Use, Consumption
  <2>2. InHand' /\ Decided' /\ SeenIsMetered'
    BY <1>27 DEF IInv, SweepAttempt, InHand, Agreed, Truthful, Asking, Passed, Finished,
      fenceVars, byomVars, providerVars, Decided, SeenIsMetered
  <2> QED
    BY <2>1, <2>2 DEF IInv
<1>28. ASSUME IInv, SetEffect("swept", "ambiguous", "frozen")
      PROVE  IInv'
  <2>1. EffectTypeOK'
    BY <1>28, SMTT(60), NoneAssumption DEF IInv, SetEffect, EffectTypeOK, InHand, Agreed,
      Truthful, Asking, Passed, Finished, fenceVars, byomVars, providerVars, Go, States,
      Terminal
  <2>2. InHand' /\ Chain' /\ Decided' /\ HonestOutcome' /\ SeenIsMetered'
    BY <1>28 DEF IInv, SetEffect, InHand, Agreed, Truthful, Asking, Passed, Finished,
      fenceVars, byomVars, providerVars, Go, Chain, Decided, HonestOutcome, SeenIsMetered
  <2> QED
    BY <2>1, <2>2 DEF IInv
<1>29. ASSUME IInv, Announce("frozen", "ambiguous", "sweep")
      PROVE  IInv'
  <2>1. EffectTypeOK'
    BY <1>29, SMTT(60), NoneAssumption DEF IInv, Announce, EffectTypeOK, InHand, Agreed,
      Truthful, Asking, Passed, Finished, fenceVars, byomVars, providerVars, Go, Ends,
      States, Terminal
  <2>2. InHand' /\ Chain' /\ Decided' /\ HonestOutcome' /\ SeenIsMetered'
    BY <1>29 DEF IInv, Announce, InHand, Agreed, Truthful, Asking, Passed, Finished,
      fenceVars, byomVars, providerVars, Go, Ends, Chain, Decided, HonestOutcome,
      SeenIsMetered
  <2> QED
    BY <2>1, <2>2 DEF IInv
<1>30. ASSUME IInv, SetEffect("reconcile", outcome.state, "reconciled")
      PROVE  IInv'
  <2>1. EffectTypeOK'
    BY <1>30, SMTT(60), NoneAssumption DEF IInv, SetEffect, EffectTypeOK, InHand, Agreed,
      Truthful, Asking, Passed, Finished, Chain, fenceVars, byomVars, providerVars, Go,
      States, Terminal, Results, Receipt, Use, Consumption
  <2>2. InHand' /\ Chain' /\ Decided' /\ HonestOutcome' /\ SeenIsMetered'
    BY <1>30 DEF IInv, SetEffect, InHand, Agreed, Truthful, Asking, Passed, Finished,
      fenceVars, byomVars, providerVars, Go, Chain, Decided, HonestOutcome, SeenIsMetered
  <2> QED
    BY <2>1, <2>2 DEF IInv
<1>31. ASSUME IInv, Announce("reconciled", "reconciled", "idle")
      PROVE  IInv'
  <2>1. EffectTypeOK'
    BY <1>31, SMTT(60), NoneAssumption DEF IInv, Announce, EffectTypeOK, InHand, Agreed,
      Truthful, Asking, Passed, Finished, fenceVars, byomVars, providerVars, Go, Ends,
      States, Terminal
  <2>2. InHand' /\ Chain' /\ Decided' /\ HonestOutcome' /\ SeenIsMetered'
    BY <1>31 DEF IInv, Announce, InHand, Agreed, Truthful, Asking, Passed, Finished,
      fenceVars, byomVars, providerVars, Go, Ends, Chain, Decided, HonestOutcome,
      SeenIsMetered
  <2> QED
    BY <2>1, <2>2 DEF IInv
<1>32. ASSUME IInv, Crash
      PROVE  IInv'
  <2>1. EffectTypeOK' /\ InHand' /\ Chain' /\ Decided' /\ HonestOutcome' /\ SeenIsMetered'
    BY <1>32 DEF IInv, Crash, EffectTypeOK, effectVars, fenceVars, byomVars, providerVars,
      States, Terminal, InHand, Agreed, Truthful, Asking, Passed, Finished, Chain, Decided,
      HonestOutcome, SeenIsMetered
  <2> QED
    BY <2>1 DEF IInv
<1>33. ASSUME IInv, Around
      PROVE  IInv'
  <2>1. EffectTypeOK'
    <3>1. localFence' \in 0..MaxFence /\ byomFence' \in 0..MaxFence
      BY <1>33, NumbersAssumption DEF IInv, EffectTypeOK, Around
    <3>2. expired' \in [Acts -> BOOLEAN]
      BY <1>33 DEF IInv, EffectTypeOK, Around
    <3> QED
      BY <1>33, <3>1, <3>2 DEF IInv, EffectTypeOK, Around, ownVars, callVars, effectVars,
        byomVars, providerVars
  <2>2. InHand' /\ Chain' /\ Decided' /\ HonestOutcome' /\ SeenIsMetered'
    BY <1>33 DEF IInv, Around, InHand, Agreed, Truthful, Asking, Passed, Finished, ownVars,
      callVars, effectVars, byomVars, providerVars, Chain, Decided, HonestOutcome,
      SeenIsMetered
  <2> QED
    BY <2>1, <2>2 DEF IInv
<1>34. ASSUME IInv, NEW a \in Acts, NEW state \in States, Reconcile(a, state)
      PROVE  IInv'
  <2>1. EffectTypeOK'
    BY <1>34, SMTT(60), NoneAssumption DEF IInv, Reconcile, EffectTypeOK, InHand, Agreed,
      Truthful, Asking, Passed, Finished, Chain, fenceVars, byomVars, providerVars, States,
      Terminal, Results, Result, Unmeasured, Receipt, Use, Consumption
  <2>2. InHand' /\ SeenIsMetered'
    BY <1>34 DEF IInv, Reconcile, InHand, Agreed, Truthful, Asking, Passed, Finished,
      fenceVars, byomVars, providerVars, SeenIsMetered
  <2>3. Chain' /\ Decided' /\ HonestOutcome'
    BY <1>34, SMTT(60), NoneAssumption DEF IInv, Reconcile, Chain, InHand, Agreed, Truthful,
      Asking, Passed, Finished, EffectTypeOK, fenceVars, byomVars, providerVars, States,
      Terminal, Decided, HonestOutcome
  <2> QED
    BY <2>1, <2>2, <2>3 DEF IInv
<1>35. ASSUME IInv, UNCHANGED vars
      PROVE  IInv'
  <2>1. EffectTypeOK' /\ InHand' /\ Chain' /\ Decided' /\ HonestOutcome' /\ SeenIsMetered'
    BY <1>35 DEF IInv, vars, ownVars, callVars, effectVars, fenceVars, byomVars,
      providerVars, EffectTypeOK, States, Terminal, InHand, Agreed, Truthful, Asking,
      Passed, Finished, Chain, Decided, HonestOutcome, SeenIsMetered
  <2> QED
    BY <2>1 DEF IInv
<1> QED
  BY <1>1, <1>2, <1>3, <1>4, <1>5, <1>6, <1>7, <1>8, <1>9, <1>10, <1>11, <1>12, <1>13,
    <1>14, <1>15, <1>16, <1>17, <1>18, <1>19, <1>20, <1>21, <1>22, <1>23, <1>24, <1>25,
    <1>26, <1>27, <1>28, <1>29, <1>30, <1>31, <1>32, <1>33, <1>34, <1>35 DEF EffectNext,
    CallStep, SweepStep, ReconcileStep

-----------------------------------------------------------------------------
(* The theorems.                                                           *)

\* The whole invariant.
THEOREM Invariant == EffectSpec => []IInv
  BY InitHolds, StepHolds, PTL DEF EffectSpec

\* Every state is well typed.
THEOREM TypeCorrect == EffectSpec => []EffectTypeOK
<1>1. IInv => EffectTypeOK
  BY DEF IInv
<1> QED
  BY <1>1, Invariant, PTL

\* A request leaves at most once, with the whole chain behind it.
THEOREM SendsOnce == EffectSpec => []SentOnce
<1>1. IInv => SentOnce
  BY DEF IInv, Chain, SentOnce
<1> QED
  BY <1>1, Invariant, PTL

\* No attempt is completed without a reply, and none failed whose request left
\* and was not answered.
THEOREM OutcomesAreHonest == EffectSpec => []HonestOutcome
<1>1. IInv => HonestOutcome
  BY DEF IInv
<1> QED
  BY <1>1, Invariant, PTL

\* byom's meter is told nothing but what was seen.
THEOREM SeenMetered == EffectSpec => []SeenIsMetered
<1>1. IInv => SeenIsMetered
  BY DEF IInv
<1> QED
  BY <1>1, Invariant, PTL

\* What leaves is what the act's seats assented to.  Only Send sends, and the
\* gate and byom compared the same digest.
THEOREM SendsCovered == EffectSpec => SendsAreCovered
<1>1. IInv /\ [EffectNext]_vars =>
        [\A a \in Acts : sent'[a] # sent[a] /\ consumption[a].receipt.reports =>
              /\ Disclosed(wire'[a]) = Allowed[a]
              /\ peer[a].fence = localFence]_vars
  <2> SUFFICES ASSUME IInv, EffectNext, NEW a \in Acts, sent'[a] # sent[a],
                      consumption[a].receipt.reports
               PROVE  Disclosed(wire'[a]) = Allowed[a] /\ peer[a].fence = localFence
    OBVIOUS
  <2>1. Send
    BY DEF EffectNext, CallStep, SweepStep, ReconcileStep, Complete, Plan, Prepare,
      Announce, PeerConsumes, PeerRefuses, StoreConsumption, Recovered, Authorize,
      ResolveCredential, InsertAttempt, SetEffect, ClaimUse, Hear, RecordOutcome, Meter,
      RecordReport, Restart, SweepUses, Serve, SweepAttempt, Crash, Around, Reconcile,
      providerVars
  <2>2. a = act /\ wire'[a] = req /\ at = "send"
    BY <2>1 DEF Send, IInv, EffectTypeOK
  <2>3. consumption[a] # None /\ Agreed
    BY <2>2 DEF IInv, InHand, Passed
  <2> QED
    BY <2>2, <2>3 DEF IInv, Chain, Agreed
<1> QED
  BY <1>1, Invariant, PTL DEF EffectSpec, SendsAreCovered
=============================================================================
