-------------------------- MODULE FormationProofs ---------------------------
(***************************************************************************)
(* Proofs about Formation: its types, that nothing byom may act on is      *)
(* unrecorded, and that a promotion implements EndeavorFate.               *)
(*                                                                         *)
(* The inductive invariant says of each formation what its records imply   *)
(* of byom (Agrees), and of the running command what the facts it carries  *)
(* imply (Carries).                                                        *)
(***************************************************************************)
EXTENDS Formation, TLAPS

\* A formation's records against byom's domain and what is on the wire.
Agrees(f) ==
    /\ intent[f] = None => attempts[f] = <<>>
    /\ intent[f] # None =>
          /\ intent[f].state = "prepared" => attempts[f] = <<>>
          /\ intent[f].state \in {"byom_committed", "linking", "linked"} =>
                domain[f] = "committed"
          /\ intent[f].state = "canceled" =>
                \/ domain[f] \in {"tombstoned", "fenced"}
                \/ domain[f] = "open" /\ attempts[f] = <<>>
          /\ \A n \in 1 .. Len(attempts[f]) : attempts[f][n].pin = intent[f].pin
    /\ domain[f] = "committed" => attempts[f] # <<>>
    /\ \A m \in wire : m.op = "form" /\ m.formation = f => m.n \in 1 .. Len(attempts[f])

\* What a fact says of byom's domain.
Backed(fact, f) ==
    /\ fact = "committed" => domain[f] = "committed"
    /\ fact \in {"tombstone", "fenced"} => domain[f] \in {"tombstoned", "fenced"}

\* The running command: where it is and what it carries.
Carries ==
    /\ at.step # "idle" => at.cmd \in Commands /\ intent[Current] # None
    /\ at.step = "attempt" => intent[Current].state \in MaySubmit
    /\ at.step \in {"attempt", "submit", "mint", "deny"} => at.fact = None
    /\ at.step \in {"submit", "conclude"} \/ (at.step = "await" /\ at.sent.op = "form") =>
          intent[Current].state = "submitting" /\ attempts[Current] # <<>>
    /\ at.step = "await" => at.sent # None /\ at.sent.formation = Current
    /\ at.step = "await" /\ at.sent.op = "form" =>
          at.fact \in {"committed", "tombstone", "refused", None}
    /\ at.step = "conclude" => at.fact \in {"committed", "tombstone", "unknown", "refused"}
    /\ at.step = "apply" => at.fact \in Facts
    /\ at.step \in {"await", "conclude", "apply"} => Backed(at.fact, Current)
    /\ at.step = "linking" => intent[Current].state = "byom_committed"
    /\ at.step = "link" => intent[Current].state \in {"byom_committed", "linking"}

IInv ==
    /\ FormationTypeOK
    /\ \A f \in Formations : Agrees(f)
    /\ Carries

-----------------------------------------------------------------------------
(* Operators.                                                              *)

\* What Append leaves and adds.
LEMMA Appended ==
    ASSUME NEW S, NEW q \in Seq(S), NEW e \in S
    PROVE  /\ Append(q, e) \in Seq(S) /\ Append(q, e) # <<>>
           /\ Len(Append(q, e)) = Len(q) + 1
           /\ \A n \in 1 .. Len(q) : Append(q, e)[n] = q[n]
           /\ Append(q, e)[Len(q) + 1] = e
  OBVIOUS

\* A command has its fields.
LEMMA CommandFields ==
    ASSUME NEW c \in Commands
    PROVE  c.formation \in Formations /\ c # None
           /\ c.observation \in {d.observation : d \in Commands}
           /\ c.observation # None
  <1>1. c \in Command
    BY CommandsAssumption
  <1> QED
    BY <1>1, NoneAssumption DEF Command

\* A pair that moves keeps its pin, and its slot follows.
LEMMA PairMoves ==
    ASSUME NEW i \in Intent, NEW s \in States, NEW o \in {c.observation : c \in Commands},
           NEW fact
    PROVE  /\ CommitPair(i, s) \in Intent /\ CommitPair(i, s).state = s
           /\ CommitPair(i, s).pin = i.pin
           /\ WithAttempt(i, o) \in Intent /\ WithAttempt(i, o).state = "submitting"
           /\ WithAttempt(i, o).pin = i.pin
           /\ WithResult(i, s, fact) \in Intent /\ WithResult(i, s, fact).state = s
           /\ WithResult(i, s, fact).pin = i.pin
  <1>1. SlotOf(s) \in {SlotOf(x) : x \in States} /\ "submitting" \in States
    BY DEF States, Unsettled
  <1>2. SlotOf("submitting") \in {SlotOf(x) : x \in States}
    BY <1>1
  <1> DEFINE Slots == {SlotOf(x) : x \in States}
             Obs == {c.observation : c \in Commands}
             res == i.result \/ fact = "committed"
  <1>3. res \in BOOLEAN
    OBVIOUS
  <1> HIDE DEF Slots, Obs, res
  <1>4. Intent = [state : States, slot : Slots, pin : Nat, result : BOOLEAN,
                  observation : Obs \union {None}]
    BY DEF Intent, Slots, Obs
  <1>5. CommitPair(i, s) \in Intent /\ CommitPair(i, s).state = s /\ CommitPair(i, s).pin = i.pin
    BY <1>1, <1>4 DEF CommitPair, Slots
  <1>6. /\ CommitPair(i, "submitting") \in Intent
        /\ CommitPair(i, "submitting").state = "submitting"
        /\ CommitPair(i, "submitting").pin = i.pin
    BY <1>1, <1>2, <1>4 DEF CommitPair, Slots
  <1> HIDE DEF CommitPair
  <1>7. /\ WithAttempt(i, o) \in Intent /\ WithAttempt(i, o).state = "submitting"
        /\ WithAttempt(i, o).pin = i.pin
    BY <1>4, <1>6 DEF WithAttempt, Obs
  <1>8. /\ WithResult(i, s, fact) \in Intent /\ WithResult(i, s, fact).state = s
        /\ WithResult(i, s, fact).pin = i.pin
    <2>1. WithResult(i, s, fact) = [CommitPair(i, s) EXCEPT !.result = res]
      BY DEF WithResult, res
    <2> QED
      BY <1>3, <1>4, <1>5, <2>1
  <1> QED
    BY <1>5, <1>7, <1>8

\* Closing the latest attempt changes neither how many there are nor their pins.
LEMMA ClosedKeeps ==
    ASSUME FormationTypeOK, NEW f \in Formations,
           NEW s \in {"sent", "reply_received", "transport_unknown", "reconciled"}
    PROVE  /\ Closed(f, s) \in [Formations -> Seq(Attempt)]
           /\ \A g \in Formations : g # f => Closed(f, s)[g] = attempts[g]
           /\ Len(Closed(f, s)[f]) = Len(attempts[f])
           /\ \A n \in 1 .. Len(attempts[f]) : Closed(f, s)[f][n].pin = attempts[f][n].pin
           /\ Closed(f, s)[f] = <<>> <=> attempts[f] = <<>>
  <1>1. attempts \in [Formations -> Seq(Attempt)] /\ attempts[f] \in Seq(Attempt)
    BY DEF FormationTypeOK
  <1>2. CASE attempts[f] = <<>>
    BY <1>1, <1>2 DEF Closed
  <1>3. CASE attempts[f] # <<>>
    <2>1. PICK m \in 1 .. Len(attempts[f]) : m = Len(attempts[f])
      BY <1>1, <1>3
    <2>2. attempts[f][m] \in Attempt
      BY <1>1, <2>1
    <2> DEFINE Obs == {c.observation : c \in Commands}
               Closing == [attempts[f][m] EXCEPT !.state = s]
    <2> HIDE DEF Obs
    <2>a. Attempt = [state : {"sent", "reply_received", "transport_unknown", "reconciled"},
                     pin : Nat, observation : Obs]
      BY DEF Attempt, Obs
    <2>b. Closing \in Attempt /\ Closing.pin = attempts[f][m].pin
      BY <2>2, <2>a
    <2>3. PICK e \in Attempt : e = Closing /\ e.pin = attempts[f][m].pin
      BY <2>b
    <2>4. PICK q : q = [attempts[f] EXCEPT ![m] = e]
      OBVIOUS
    <2>5. /\ q \in Seq(Attempt) /\ Len(q) = Len(attempts[f]) /\ q # <<>>
          /\ \A n \in 1 .. Len(attempts[f]) : q[n] = IF n = m THEN e ELSE attempts[f][n]
      BY <1>1, <1>3, <2>1, <2>4
    <2>6. Closed(f, s) = [attempts EXCEPT ![f] = q]
      BY <1>3, <2>1, <2>3, <2>4 DEF Closed
    <2>7. /\ Closed(f, s) \in [Formations -> Seq(Attempt)]
          /\ Closed(f, s)[f] = q
          /\ \A g \in Formations : g # f => Closed(f, s)[g] = attempts[g]
      BY <1>1, <2>5, <2>6
    <2> QED
      BY <1>3, <2>3, <2>5, <2>7
  <1> QED
    BY <1>2, <1>3

\* What resolve may answer.
LEMMA Resolves ==
    ASSUME NEW state \in States, NEW fact \in Facts, NEW next, next = Resolve(state, fact),
           next # None
    PROVE  /\ next \in States /\ next # "prepared"
           /\ next = "canceled" => fact \in {"tombstone", "fenced"}
           /\ next \in {"byom_committed", "linking"} => fact = "committed"
           /\ next # "linked"
           /\ state \notin Terminal
           /\ state = "prepared" => next \in {"byom_committed", "canceled"}
           /\ fact # "committed" => state \notin {"byom_committed", "linking"}
           /\ state = "linking" => next = "linking"
  BY DEF Resolve, States, Facts, Unsettled, Terminal

-----------------------------------------------------------------------------
(* Steps.                                                                  *)

\* A pair that moves where the domain allows, its attempts kept, still agrees.
LEMMA PairAgrees ==
    ASSUME IInv, NEW f \in Formations, intent[f] # None, NEW j \in Intent,
           intent' = [intent EXCEPT ![f] = j], j.pin = intent[f].pin,
           UNCHANGED byom,
           attempts' \in [Formations -> Seq(Attempt)],
           \A g \in Formations : g # f => attempts'[g] = attempts[g],
           Len(attempts'[f]) = Len(attempts[f]),
           \A n \in 1 .. Len(attempts[f]) : attempts'[f][n].pin = attempts[f][n].pin,
           attempts'[f] = <<>> <=> attempts[f] = <<>>,
           j.state # "prepared",
           j.state \in {"byom_committed", "linking", "linked"} => domain[f] = "committed",
           j.state = "canceled" =>
               \/ domain[f] \in {"tombstoned", "fenced"}
               \/ domain[f] = "open" /\ attempts[f] = <<>>
    PROVE  /\ intent' \in [Formations -> Intent \union {None}]
           /\ intent'[f] = j
           /\ \A g \in Formations : g # f => intent'[g] = intent[g]
           /\ \A g \in Formations : Agrees(g)'
  <1>1. intent \in [Formations -> Intent \union {None}]
    BY DEF IInv, FormationTypeOK
  <1>2. /\ intent' \in [Formations -> Intent \union {None}]
        /\ intent'[f] = j
        /\ \A g \in Formations : g # f => intent'[g] = intent[g]
    BY <1>1
  <1>3. j # None
    BY NoneAssumption
  <1>4. UNCHANGED <<domain, wire>>
    BY DEF byom
  <1>5. ASSUME NEW g \in Formations, g # f PROVE Agrees(g)'
    <2>1. intent'[g] = intent[g] /\ attempts'[g] = attempts[g] /\ Agrees(g)
      BY <1>2, <1>5 DEF IInv
    <2> QED
      BY <1>4, <2>1 DEF Agrees
  <1>6. Agrees(f)'
    <2>1. Agrees(f)
      BY DEF IInv
    <2> QED
      BY <1>2, <1>3, <1>4, <2>1 DEF Agrees
  <1> QED
    BY <1>2, <1>5, <1>6

\* What each formation came to, and what Kovee has concluded of it.
FateMap ==
    [f \in Formations |->
        IF domain[f] = "committed" THEN "committed"
        ELSE IF \/ domain[f] # "open"
                \/ intent[f] # None /\ intent[f].state = "canceled" THEN "denied"
        ELSE "open"]
KnownMap ==
    [f \in Formations |->
        IF intent[f] = None THEN "open"
        ELSE IF intent[f].state = "linked" THEN "committed"
        ELSE IF intent[f].state = "canceled" THEN "denied"
        ELSE "open"]
Mapped == [Fate!Next]_Fate!vars

\* A pair that moves, byom's domains untouched, concludes, gives up what was
\* never asked for, or maps to a stutter.
LEMMA PairMaps ==
    ASSUME IInv, NEW f \in Formations, intent[f] # None, intent[f].state \notin Terminal,
           NEW j \in Intent, intent' = [intent EXCEPT ![f] = j], UNCHANGED domain,
           j.state = "linked" => domain[f] = "committed",
           j.state = "canceled" => domain[f] \in {"open", "tombstoned", "fenced"}
    PROVE  Mapped
  <1>1. /\ intent'[f] = j /\ j # None
        /\ \A g \in Formations : g # f => intent'[g] = intent[g]
    BY NoneAssumption DEF IInv, FormationTypeOK
  <1>2. KnownMap[f] = "open"
    BY DEF KnownMap, Terminal
  <1>3. \A g \in Formations : g # f => FateMap'[g] = FateMap[g] /\ KnownMap'[g] = KnownMap[g]
    BY <1>1 DEF FateMap, KnownMap
  <1>4. /\ FateMap \in [Formations -> {"open", "committed", "denied"}]
        /\ KnownMap \in [Formations -> {"open", "committed", "denied"}]
    BY DEF FateMap, KnownMap
  <1>5. /\ FateMap' \in [Formations -> {"open", "committed", "denied"}]
        /\ KnownMap' \in [Formations -> {"open", "committed", "denied"}]
    BY DEF FateMap, KnownMap
  <1>6. CASE j.state = "linked"
    <2>1. FateMap[f] = "committed" /\ FateMap'[f] = "committed" /\ KnownMap'[f] = "committed"
      BY <1>1, <1>6 DEF FateMap, KnownMap
    <2>2. FateMap' = FateMap /\ KnownMap' = [KnownMap EXCEPT ![f] = FateMap[f]]
      BY <1>3, <1>4, <1>5, <2>1
    <2>3. Fate!Conclude(f)
      BY <1>2, <2>1, <2>2 DEF Fate!Conclude, FateMap, KnownMap
    <2> QED
      BY <2>3 DEF Mapped, Fate!Next
  <1>7. CASE j.state = "canceled" /\ domain[f] # "open"
    <2>1. FateMap[f] = "denied" /\ FateMap'[f] = "denied" /\ KnownMap'[f] = "denied"
      BY <1>1, <1>7 DEF FateMap, KnownMap
    <2>2. FateMap' = FateMap /\ KnownMap' = [KnownMap EXCEPT ![f] = FateMap[f]]
      BY <1>3, <1>4, <1>5, <2>1
    <2>3. Fate!Conclude(f)
      BY <1>2, <2>1, <2>2 DEF Fate!Conclude, FateMap, KnownMap
    <2> QED
      BY <2>3 DEF Mapped, Fate!Next
  <1>8. CASE j.state = "canceled" /\ domain[f] = "open"
    <2>1. FateMap[f] = "open" /\ FateMap'[f] = "denied" /\ KnownMap'[f] = "denied"
      BY <1>1, <1>8 DEF FateMap, KnownMap, Terminal
    <2>2. FateMap' = [FateMap EXCEPT ![f] = "denied"]
          /\ KnownMap' = [KnownMap EXCEPT ![f] = "denied"]
      BY <1>3, <1>4, <1>5, <2>1
    <2>3. Fate!Forgo(f)
      BY <2>1, <2>2 DEF Fate!Forgo, FateMap, KnownMap
    <2> QED
      BY <2>3 DEF Mapped, Fate!Next
  <1>9. CASE j.state \notin Terminal
    <2>1. FateMap'[f] = FateMap[f] /\ KnownMap'[f] = KnownMap[f]
      BY <1>1, <1>9 DEF FateMap, KnownMap, Terminal
    <2>2. FateMap' = FateMap /\ KnownMap' = KnownMap
      BY <1>3, <1>4, <1>5, <2>1
    <2> QED
      BY <2>2 DEF Mapped, Fate!vars, FateMap, KnownMap
  <1> QED
    BY <1>6, <1>7, <1>8, <1>9 DEF Terminal

\* A step that leaves intents and domains alone maps to a stutter.
LEMMA Stutters ==
    ASSUME UNCHANGED <<intent, domain>>
    PROVE  Mapped
  BY DEF Mapped, Fate!vars

\* PairMoves, without the columns a step may add.
LEMMA PairLeads ==
    ASSUME NEW i \in Intent, NEW s \in {"canceled", "linked", "linking"}
    PROVE  CommitPair(i, s) \in Intent /\ CommitPair(i, s).state = s
           /\ CommitPair(i, s).pin = i.pin
  <1>1. s \in States
    BY DEF States, Terminal
  <1> DEFINE Slots == {SlotOf(x) : x \in States}
             Obs == {c.observation : c \in Commands}
  <1>2. SlotOf(s) \in Slots
    BY <1>1
  <1> HIDE DEF Slots, Obs
  <1>3. Intent = [state : States, slot : Slots, pin : Nat, result : BOOLEAN,
                  observation : Obs \union {None}]
    BY DEF Intent, Slots, Obs
  <1> QED
    BY <1>1, <1>2, <1>3 DEF CommitPair

\* A step that leaves the records and byom alone keeps their agreement.
LEMMA Untouched ==
    ASSUME IInv, UNCHANGED <<intent, attempts, links, byom>>, FormationTypeOK', Carries'
    PROVE  IInv'
  BY DEF IInv, Agrees, byom

\* A command that ends carries nothing.
LEMMA IdleCarries ==
    ASSUME at' = Idle
    PROVE  /\ Carries'
           /\ at' \in Work
  BY DEF Idle, Carries, Work

\* The initial state.
LEMMA InitIInv == FormationInit => IInv
  <1> SUFFICES ASSUME FormationInit PROVE IInv
    OBVIOUS
  <1> USE DEF FormationInit, Work
  <1>1. FormationTypeOK
    BY DEF FormationTypeOK, Idle, Seam!Init
  <1>2. \A f \in Formations : Agrees(f)
    BY DEF Agrees
  <1>3. Carries
    BY DEF Carries, Idle
  <1> QED
    BY <1>1, <1>2, <1>3 DEF IInv

\* The seam moves; the formations do not.
LEMMA SeamMoves ==
    ASSUME IInv, MoveSeam
    PROVE  IInv'
  <1>1. FormationTypeOK
    BY DEF IInv
  <1>2. UNCHANGED <<durable, byom, at>> /\ Seam!Next
    BY DEF MoveSeam
  <1>3. /\ opened' \in [{Scope} -> Nat] /\ holder' \in [{Scope} -> Nat]
        /\ spent' \in [{Scope} -> SUBSET Nat]
    <2>1. /\ opened \in [{Scope} -> Nat] /\ holder \in [{Scope} -> Nat]
          /\ spent \in [{Scope} -> SUBSET Nat]
      BY <1>1 DEF FormationTypeOK
    <2>2. PICK s \in {Scope} : Seam!Open(s) \/ Seam!Take(s) \/ Seam!Spend(s)
      BY <1>2 DEF Seam!Next
    <2>3. CASE Seam!Open(s)
      BY <2>1, <2>3 DEF Seam!Open
    <2>4. CASE Seam!Take(s)
      BY <2>1, <2>4 DEF Seam!Take
    <2>5. CASE Seam!Spend(s)
      <3>1. spent[s] \union {opened[s]} \in SUBSET Nat
        BY <2>1
      <3> QED
        BY <2>1, <2>5, <3>1 DEF Seam!Spend
    <2> QED
      BY <2>2, <2>3, <2>4, <2>5
  <1>4. FormationTypeOK'
    BY <1>1, <1>2, <1>3 DEF FormationTypeOK, durable, byom
  <1>5. Carries'
    BY <1>2 DEF IInv, Carries, Backed, Current, durable, byom
  <1> QED
    BY <1>2, <1>4, <1>5, Untouched DEF durable, byom

\* The steps that only read.
LEMMA ReadingSteps ==
    ASSUME IInv,
           \/ \E c \in Commands : Start(c) \/ Reconcile(c)
           \/ Query \/ Mint \/ Hear \/ Crash
    PROVE  IInv' /\ UNCHANGED <<intent, domain>>
  <1> DEFINE AtType == at' \in Work
  <1> USE DEF Work
  <1>1. FormationTypeOK /\ Carries
    BY DEF IInv
  <1>2. UNCHANGED <<seam, intent, attempts, links, byom>>
    BY DEF Start, Reconcile, Query, Mint, Hear, Crash, durable
  <1>3. AtType => FormationTypeOK'
    BY <1>1, <1>2 DEF FormationTypeOK, seam, byom
  <1>4. ASSUME NEW c \in Commands, Start(c) PROVE AtType /\ Carries'
    <2>1. at' \in {[step |-> x, cmd |-> c, fact |-> None, sent |-> None] :
                      x \in {"link", "linking", "attempt"}}
      BY <1>4 DEF Start, Idle
    <2>2. AtType
      BY <2>1
    <2>3. Carries'
      BY <1>2, <1>4, <2>1 DEF Start, Idle, Carries, Backed, Current, byom
    <2> QED
      BY <2>2, <2>3
  <1>5. ASSUME NEW c \in Commands, Reconcile(c) PROVE AtType /\ Carries'
    <2>1. at' = [step |-> "query", cmd |-> c, fact |-> None, sent |-> None]
      BY <1>5 DEF Reconcile, Idle
    <2>2. AtType
      BY <2>1
    <2>3. Carries'
      BY <1>2, <1>5, <2>1 DEF Reconcile, Carries, Backed, Current, byom
    <2> QED
      BY <2>2, <2>3
  <1>6. ASSUME at' = Idle PROVE AtType /\ Carries'
    BY <1>6, IdleCarries
  <1>7. ASSUME Query, at' # Idle PROVE AtType /\ Carries'
    <2>1. PICK fact \in {Truth(Current), "unknown"} :
              at' = [at EXCEPT !.step = "apply", !.fact = fact]
      BY <1>7 DEF Query, End
    <2>2. Current \in Formations
      BY <1>1, <1>7, CommandFields DEF Query, Carries, Current
    <2>3. fact \in Facts /\ Backed(fact, Current)
      BY <1>1, <2>2 DEF FormationTypeOK, Truth, Facts, Backed
    <2>4. at.step = "query"
      BY <1>7 DEF Query
    <2>5. AtType /\ at'.step = "apply" /\ at'.fact = fact /\ at'.cmd = at.cmd
      BY <1>1, <2>1, <2>3 DEF FormationTypeOK
    <2>6. Carries'
      BY <1>1, <1>2, <2>3, <2>4, <2>5 DEF Carries, Backed, Current, byom
    <2> QED
      BY <2>5, <2>6
  <1>8. ASSUME Mint, at' # Idle PROVE AtType /\ Carries'
    <2>1. at' = [at EXCEPT !.step = "deny"] /\ at.step = "mint"
      BY <1>8 DEF Mint, End
    <2>2. AtType /\ at'.step = "deny" /\ at'.cmd = at.cmd
      BY <1>1, <2>1 DEF FormationTypeOK
    <2>3. Carries'
      BY <1>1, <1>2, <2>1, <2>2 DEF Carries, Current, byom
    <2> QED
      BY <2>2, <2>3
  <1>9. ASSUME Hear, at' # Idle PROVE AtType /\ Carries'
    <2>1. PICK fact \in {at.fact, "unknown"} \ {None} :
              at' = IF at.sent.op = "form" THEN [at EXCEPT !.step = "conclude", !.fact = fact]
                    ELSE IF fact = "refused" THEN Idle
                    ELSE [at EXCEPT !.step = "apply", !.fact = fact]
      BY <1>9 DEF Hear
    <2>2. at.step = "await" /\ Backed(fact, Current) /\ fact \in Facts \union {"refused"}
      BY <1>1, <1>9, <2>1 DEF Hear, Carries, Backed, FormationTypeOK, Facts
    <2>3. CASE at.sent.op = "form"
      <3>1. at' = [at EXCEPT !.step = "conclude", !.fact = fact]
        BY <2>1, <2>3
      <3>2. AtType /\ at'.step = "conclude" /\ at'.fact = fact /\ at'.cmd = at.cmd
        BY <1>1, <2>2, <3>1 DEF FormationTypeOK
      <3>3. fact \in {"committed", "tombstone", "unknown", "refused"}
        BY <1>1, <2>2, <2>3 DEF Carries
      <3> QED
        BY <1>1, <1>2, <2>2, <2>3, <3>2, <3>3 DEF Carries, Backed, Current, byom
    <2>4. CASE at.sent.op # "form"
      <3>1. at' = [at EXCEPT !.step = "apply", !.fact = fact] /\ fact \in Facts
        BY <1>9, <2>1, <2>2, <2>4
      <3>2. AtType /\ at'.step = "apply" /\ at'.fact = fact /\ at'.cmd = at.cmd
        BY <1>1, <2>2, <3>1 DEF FormationTypeOK
      <3> QED
        BY <1>1, <1>2, <2>2, <3>1, <3>2 DEF Carries, Backed, Current, byom
    <2> QED
      BY <2>3, <2>4
  <1>10. AtType /\ Carries'
    BY <1>4, <1>5, <1>6, <1>7, <1>8, <1>9 DEF Crash, End
  <1> QED
    BY <1>2, <1>3, <1>10, Untouched DEF byom

\* A pair is created, under the seam that is active.
LEMMA PrepareStep ==
    ASSUME IInv, NEW f \in Formations, Prepare(f)
    PROVE  IInv' /\ Mapped
  <1>1. FormationTypeOK /\ Carries /\ Agrees(f)
    BY DEF IInv
  <1>2. NewPair \in Intent /\ NewPair.state = "prepared"
    <2>1. ActiveSeam \in Nat
      BY <1>1 DEF ActiveSeam, FormationTypeOK
    <2>2. "prepared" \in States /\ "held" \in {SlotOf(s) : s \in States}
      BY DEF States, SlotOf
    <2> QED
      BY <2>1, <2>2 DEF Intent, NewPair
  <1>3. PICK j \in Intent : j = NewPair /\ j.state = "prepared"
    BY <1>2
  <1>4. /\ intent' = [intent EXCEPT ![f] = j] /\ intent[f] = None /\ at = Idle
        /\ UNCHANGED <<seam, attempts, links, receipts, byom, at>>
    BY <1>3 DEF Prepare
  <1>5. intent' \in [Formations -> Intent \union {None}] /\ intent'[f] = j /\ j # None
        /\ \A g \in Formations : g # f => intent'[g] = intent[g]
    BY <1>1, <1>3, <1>4, NoneAssumption DEF FormationTypeOK
  <1>6. FormationTypeOK'
    BY <1>1, <1>4, <1>5 DEF FormationTypeOK, seam, byom
  <1>7. ASSUME NEW g \in Formations PROVE Agrees(g)'
    BY <1>1, <1>3, <1>4, <1>5 DEF IInv, Agrees, byom
  <1>8. Carries'
    BY <1>4, IdleCarries
  <1>9. UNCHANGED <<FateMap, KnownMap>>
    BY <1>3, <1>4, <1>5 DEF FateMap, KnownMap, byom
  <1> QED
    BY <1>6, <1>7, <1>8, <1>9 DEF IInv, Mapped, Fate!vars, FateMap, KnownMap

\* A promotion is canceled before anything was sent.
LEMMA CancelStep ==
    ASSUME IInv, NEW f \in Formations, Cancel(f)
    PROVE  IInv' /\ Mapped
  <1>1. FormationTypeOK /\ Carries /\ Agrees(f)
    BY DEF IInv
  <1>2. intent[f] # None /\ intent[f].state = "prepared" /\ intent[f] \in Intent
    BY <1>1 DEF Cancel, MayCancel, FormationTypeOK
  <1>3. domain[f] \in {"tombstoned", "fenced"} \/ (domain[f] = "open" /\ attempts[f] = <<>>)
    BY <1>1, <1>2 DEF Agrees, FormationTypeOK
  <1>a. /\ CommitPair(intent[f], "canceled") \in Intent
        /\ CommitPair(intent[f], "canceled").state = "canceled"
        /\ CommitPair(intent[f], "canceled").pin = intent[f].pin
    BY <1>2, PairLeads
  <1>4. PICK j \in Intent : /\ j = CommitPair(intent[f], "canceled")
                            /\ j.state = "canceled" /\ j.pin = intent[f].pin
    BY <1>a
  <1>5. /\ intent' = [intent EXCEPT ![f] = j] /\ at' = Idle
        /\ UNCHANGED <<seam, attempts, links, receipts, byom, at>>
    BY <1>4 DEF Cancel
  <1>6. attempts' \in [Formations -> Seq(Attempt)]
    BY <1>1, <1>5 DEF FormationTypeOK
  <1>7. /\ intent' \in [Formations -> Intent \union {None}]
        /\ \A g \in Formations : Agrees(g)'
    BY <1>2, <1>3, <1>4, <1>5, <1>6, PairAgrees
  <1>8. FormationTypeOK'
    BY <1>1, <1>5, <1>7 DEF FormationTypeOK, seam, byom
  <1>9. Carries'
    BY <1>5, IdleCarries
  <1>10. Mapped
    BY <1>2, <1>3, <1>4, <1>5, PairMaps DEF byom, Terminal
  <1> QED
    BY <1>7, <1>8, <1>9, <1>10 DEF IInv

\* The seam's epoch is a number, and a running command is one of the commands.
LEMMA Running ==
    ASSUME IInv, at.step # "idle"
    PROVE  /\ Current \in Formations /\ intent[Current] # None
           /\ intent[Current] \in Intent /\ intent[Current].state \in States
           /\ intent[Current].pin \in Nat
           /\ at.cmd.observation \in {c.observation : c \in Commands}
           /\ Agrees(Current)
  <1>1. /\ at.cmd \in Commands /\ intent[Current] # None
        /\ intent \in [Formations -> Intent \union {None}]
    BY DEF IInv, Carries, FormationTypeOK
  <1>2. Current \in Formations /\ at.cmd.observation \in {c.observation : c \in Commands}
    BY <1>1, CommandFields DEF Current
  <1>3. intent[Current] \in Intent
    BY <1>1, <1>2
  <1> QED
    BY <1>1, <1>2, <1>3 DEF IInv, Intent

\* An attempt row and `submitting` are written together, before anything is sent.
LEMMA BeginAttemptStep ==
    ASSUME IInv, BeginAttempt
    PROVE  IInv' /\ Mapped
  <1> USE DEF Work
  <1>1. FormationTypeOK /\ Carries
    BY DEF IInv
  <1>2. at.step = "attempt" /\ UNCHANGED <<seam, links, byom>>
    BY DEF BeginAttempt
  <1>3. CASE End /\ UNCHANGED <<intent, attempts, receipts>>
    <2>1. Carries' /\ FormationTypeOK'
      BY <1>1, <1>2, <1>3, IdleCarries DEF End, FormationTypeOK, seam, byom
    <2> QED
      BY <1>2, <1>3, <2>1, Untouched, Stutters DEF byom
  <1>4. CASE ActiveSeam = intent[Current].pin /\ OpenAttempt(Current)
    <2>1. PICK f \in Formations : f = Current /\ Agrees(f)
      BY <1>2, Running
    <2>2. intent[f] # None /\ intent[f] \in Intent /\ intent[f].pin = ActiveSeam /\ ActiveSeam \in Nat
          /\ at.cmd.observation \in {c.observation : c \in Commands}
      BY <1>2, <1>4, <2>1, Running
    <2>3. /\ WithAttempt(intent[f], at.cmd.observation) \in Intent
          /\ WithAttempt(intent[f], at.cmd.observation).state = "submitting"
          /\ WithAttempt(intent[f], at.cmd.observation).pin = ActiveSeam
      BY <2>2, PairMoves DEF States, Terminal
    <2>4. PICK j \in Intent : /\ j = WithAttempt(intent[f], at.cmd.observation)
                              /\ j.state = "submitting" /\ j.pin = ActiveSeam
      BY <2>3
    <2> DEFINE Obs == {c.observation : c \in Commands}
               row == [state |-> "sent", pin |-> ActiveSeam,
                       observation |-> at.cmd.observation]
    <2>a. at.cmd.observation \in Obs
      BY <2>2
    <2> HIDE DEF Obs
    <2>b. Attempt = [state : {"sent", "reply_received", "transport_unknown", "reconciled"},
                     pin : Nat, observation : Obs]
      BY DEF Attempt, Obs
    <2>c. row \in Attempt /\ row.pin = ActiveSeam
      BY <2>2, <2>a, <2>b
    <2>5. PICK e \in Attempt : e = row /\ e.pin = ActiveSeam
      BY <2>c
    <2>6. PICK q : q = Append(attempts[f], e)
      OBVIOUS
    <2>7. attempts[f] \in Seq(Attempt)
      BY <1>1 DEF FormationTypeOK
    <2>8. /\ q \in Seq(Attempt) /\ q # <<>> /\ Len(q) = Len(attempts[f]) + 1
          /\ Len(attempts[f]) \in Nat
          /\ \A n \in 1 .. Len(attempts[f]) : q[n] = attempts[f][n]
          /\ q[Len(attempts[f]) + 1] = e
      BY <2>6, <2>7, Appended
    <2>9. /\ attempts' = [attempts EXCEPT ![f] = q] /\ intent' = [intent EXCEPT ![f] = j]
          /\ at' = [at EXCEPT !.step = "submit"]
      BY <1>4, <2>1, <2>4, <2>5, <2>6 DEF OpenAttempt
    <2>10. /\ intent' \in [Formations -> Intent \union {None}] /\ intent'[f] = j /\ j # None
           /\ \A g \in Formations : g # f => intent'[g] = intent[g]
      BY <1>1, <2>4, <2>9, NoneAssumption DEF FormationTypeOK
    <2>11. /\ attempts' \in [Formations -> Seq(Attempt)] /\ attempts'[f] = q
           /\ \A g \in Formations : g # f => attempts'[g] = attempts[g]
      BY <1>1, <2>8, <2>9 DEF FormationTypeOK
    <2>12. UNCHANGED <<domain, wire>> /\ UNCHANGED <<links, seam>>
      BY <1>2 DEF byom
    <2>13. Agrees(f)'
      <3>1. \A n \in 1 .. Len(attempts'[f]) : attempts'[f][n].pin = intent'[f].pin
        <4>1. SUFFICES ASSUME NEW n \in 1 .. Len(q) PROVE q[n].pin = ActiveSeam
          BY <2>4, <2>10, <2>11
        <4>2. n \in 1 .. Len(attempts[f]) \/ n = Len(attempts[f]) + 1
          BY <2>8
        <4>3. n \in 1 .. Len(attempts[f]) => attempts[f][n].pin = ActiveSeam
          BY <2>1, <2>2 DEF Agrees
        <4> QED
          BY <2>5, <2>8, <4>2, <4>3
      <3>2. \A m \in wire' : m.op = "form" /\ m.formation = f => m.n \in 1 .. Len(attempts'[f])
        <4>1. \A m \in wire : m.op = "form" /\ m.formation = f => m.n \in 1 .. Len(attempts[f])
          BY <2>1 DEF Agrees
        <4>2. \A n \in 1 .. Len(attempts[f]) : n \in 1 .. Len(attempts'[f])
          BY <2>8, <2>11
        <4> QED
          BY <2>12, <4>1, <4>2
      <3> QED
        BY <2>4, <2>8, <2>10, <2>11, <3>1, <3>2 DEF Agrees
    <2>14. ASSUME NEW g \in Formations, g # f PROVE Agrees(g)'
      <3>1. intent'[g] = intent[g] /\ attempts'[g] = attempts[g] /\ Agrees(g)
        BY <2>10, <2>11, <2>14 DEF IInv
      <3> QED
        BY <2>12, <3>1 DEF Agrees
    <2>15. /\ at' \in Work
           /\ at'.step = "submit" /\ at'.cmd = at.cmd /\ at'.fact = at.fact
      BY <1>1, <2>9 DEF FormationTypeOK
    <2>16. FormationTypeOK'
      BY <1>1, <2>10, <2>11, <2>12, <2>15 DEF FormationTypeOK, seam
    <2>17. Carries'
      BY <1>1, <1>2, <2>1, <2>4, <2>8, <2>10, <2>11, <2>15 DEF Carries, Current
    <2>18. Mapped
      BY <1>1, <1>2, <2>1, <2>2, <2>4, <2>9, <2>12, PairMaps DEF Carries, Current, MaySubmit, Terminal
    <2> QED
      BY <2>13, <2>14, <2>16, <2>17, <2>18 DEF IInv
  <1> QED
    BY <1>3, <1>4 DEF BeginAttempt

\* A command leaves: what it names is recorded.
LEMMA SendingSteps ==
    ASSUME IInv, Submit \/ Deny
    PROVE  IInv' /\ Mapped
  <1> USE DEF Work
  <1>1. FormationTypeOK /\ Carries
    BY DEF IInv
  <1>2. UNCHANGED <<seam, intent, attempts, links, domain>> /\ at.step \in {"submit", "deny"}
    BY DEF Submit, Deny, durable
  <1>3. PICK f \in Formations : f = Current
    BY <1>2, Running
  <1>4. PICK n \in Nat : n = Len(attempts[f])
    BY <1>1 DEF FormationTypeOK
  <1>5. PICK m \in Message :
            /\ m.formation = f
            /\ wire' = wire \union {m}
            /\ at' = [at EXCEPT !.step = "await", !.sent = m]
            /\ \/ at.step = "submit" /\ m.op = "form" /\ m.n = n
               \/ at.step = "deny" /\ m.op = "terminalize"
    <2>1. CASE Submit
      <3> DEFINE sent == [op |-> "form", formation |-> f, n |-> n]
      <3>1. sent \in Message /\ sent.formation = f /\ sent.op = "form" /\ sent.n = n
        BY DEF Message
      <3>2. /\ wire' = wire \union {sent} /\ at.step = "submit"
            /\ at' = [at EXCEPT !.step = "await", !.sent = sent]
        BY <1>3, <1>4, <2>1 DEF Submit
      <3> HIDE DEF sent
      <3> QED
        BY <3>1, <3>2
    <2>2. CASE Deny
      <3> DEFINE sent == [op |-> "terminalize", formation |-> f, n |-> 0]
      <3>1. sent \in Message /\ sent.formation = f /\ sent.op = "terminalize"
        BY DEF Message
      <3>2. /\ wire' = wire \union {sent} /\ at.step = "deny"
            /\ at' = [at EXCEPT !.step = "await", !.sent = sent]
        BY <1>3, <2>2 DEF Deny
      <3> HIDE DEF sent
      <3> QED
        BY <3>1, <3>2
    <2> QED
      BY <2>1, <2>2
  <1>6. m.op = "form" => attempts[f] # <<>> /\ m.n \in 1 .. Len(attempts[f])
    <2>1. m.op = "form" => attempts[f] # <<>>
      BY <1>1, <1>3, <1>5 DEF Carries
    <2>2. attempts[f] \in Seq(Attempt)
      BY <1>1 DEF FormationTypeOK
    <2> QED
      BY <1>4, <1>5, <2>1, <2>2
  <1>7. /\ at' \in Work
        /\ at'.step = "await" /\ at'.cmd = at.cmd /\ at'.fact = at.fact /\ at'.sent = m
    BY <1>1, <1>5 DEF FormationTypeOK
  <1>8. FormationTypeOK'
    BY <1>1, <1>2, <1>5, <1>7 DEF FormationTypeOK, seam
  <1>9. ASSUME NEW g \in Formations PROVE Agrees(g)'
    <2>1. Agrees(g)
      BY DEF IInv
    <2>2. \A x \in wire' : x.op = "form" /\ x.formation = g => x.n \in 1 .. Len(attempts[g])
      BY <1>5, <1>6, <2>1 DEF Agrees
    <2> QED
      BY <1>2, <2>1, <2>2 DEF Agrees
  <1>10. Carries'
    <2>1. at.fact = None
      BY <1>1, <1>2 DEF Carries
    <2>2. m # None
      BY NoneAssumption
    <2>3. Backed(None, f)'
      BY NoneAssumption DEF Backed, Facts
    <2> QED
      BY <1>1, <1>2, <1>3, <1>5, <1>7, <2>1, <2>2, <2>3 DEF Carries, Current
  <1> QED
    BY <1>2, <1>8, <1>9, <1>10, Stutters DEF IInv

\* A pair that moves in a running command, its attempts at most closed.
LEMMA RunningMove ==
    ASSUME IInv, at.step # "idle", NEW j \in Intent,
           intent[Current].state \notin Terminal,
           intent' = [intent EXCEPT ![Current] = j], j.pin = intent[Current].pin,
           attempts' = attempts \/ \E s \in {"reply_received", "transport_unknown", "reconciled"} :
                                      attempts' = Closed(Current, s),
           links' \subseteq Formations,
           UNCHANGED <<seam, byom>>,
           j.state # "prepared",
           j.state \in {"byom_committed", "linking", "linked"} => domain[Current] = "committed",
           j.state = "canceled" => domain[Current] \in {"tombstoned", "fenced"},
           at' \in Work,
           at'.step \in {"idle", "linking", "link", "mint"},
           at'.step # "idle" => at'.cmd = at.cmd,
           at'.step = "mint" => at'.fact = None,
           at'.step = "linking" => j.state = "byom_committed",
           at'.step = "link" => j.state \in {"byom_committed", "linking"}
    PROVE  IInv' /\ Mapped
  <1>1. FormationTypeOK /\ Carries
    BY DEF IInv
  <1>2. PICK f \in Formations : f = Current /\ intent[f] # None
    BY Running
  <1>3. /\ attempts' \in [Formations -> Seq(Attempt)]
        /\ \A g \in Formations : g # f => attempts'[g] = attempts[g]
        /\ Len(attempts'[f]) = Len(attempts[f])
        /\ \A n \in 1 .. Len(attempts[f]) : attempts'[f][n].pin = attempts[f][n].pin
        /\ attempts'[f] = <<>> <=> attempts[f] = <<>>
    <2>1. CASE attempts' = attempts
      BY <1>1, <2>1 DEF FormationTypeOK
    <2>2. ASSUME NEW s \in {"reply_received", "transport_unknown", "reconciled"},
                 attempts' = Closed(f, s)
          PROVE  /\ attempts' \in [Formations -> Seq(Attempt)]
                 /\ \A g \in Formations : g # f => attempts'[g] = attempts[g]
                 /\ Len(attempts'[f]) = Len(attempts[f])
                 /\ \A n \in 1 .. Len(attempts[f]) : attempts'[f][n].pin = attempts[f][n].pin
                 /\ attempts'[f] = <<>> <=> attempts[f] = <<>>
      BY <1>1, <2>2, ClosedKeeps
    <2> QED
      BY <1>2, <2>1, <2>2
  <1>4. /\ intent' \in [Formations -> Intent \union {None}]
        /\ intent'[f] = j
        /\ \A g \in Formations : Agrees(g)'
    <2>1. intent' = [intent EXCEPT ![f] = j] /\ j.pin = intent[f].pin /\ UNCHANGED byom
      BY <1>2
    <2>2. j.state \in {"byom_committed", "linking", "linked"} => domain[f] = "committed"
      BY <1>2
    <2>3. j.state = "canceled" => \/ domain[f] \in {"tombstoned", "fenced"}
                                  \/ domain[f] = "open" /\ attempts[f] = <<>>
      BY <1>2
    <2> QED
      BY <1>2, <1>3, <2>1, <2>2, <2>3, PairAgrees
  <1>5. FormationTypeOK'
    BY <1>1, <1>3, <1>4 DEF FormationTypeOK, seam, byom
  <1>6. Carries'
    <2>1. j # None
      BY NoneAssumption
    <2>2. at'.step # "idle" => Current' = f /\ at'.cmd \in Commands
      BY <1>1, <1>2 DEF Current, Carries
    <2> QED
      BY <1>4, <2>1, <2>2 DEF Carries
  <1>7. Mapped
    BY <1>2, PairMaps DEF byom
  <1> QED
    BY <1>4, <1>5, <1>6, <1>7 DEF IInv

\* What a submission came to is concluded.
LEMMA ConcludeStep ==
    ASSUME IInv, Conclude
    PROVE  IInv' /\ Mapped
  <1> USE DEF Work
  <1>1. FormationTypeOK /\ Carries /\ at.step = "conclude" /\ Agrees(Current)
        /\ intent[Current] \in Intent
    BY Running DEF IInv, Conclude
  <1>2. /\ intent[Current].state = "submitting"
        /\ at.fact \in {"committed", "tombstone", "unknown", "refused"}
        /\ Backed(at.fact, Current)
    <2>1. intent[Current].state = "submitting"
      BY <1>1 DEF Carries
    <2>2. at.fact \in {"committed", "tombstone", "unknown", "refused"}
      BY <1>1 DEF Carries
    <2>3. Backed(at.fact, Current)
      BY <1>1 DEF Carries
    <2> QED
      BY <2>1, <2>2, <2>3
  <1>3. PICK s \in States :
            /\ s = Concluded[at.fact] /\ s # "prepared" /\ s # "linked" /\ s # "linking"
            /\ s = "byom_committed" <=> at.fact = "committed"
            /\ s = "canceled" <=> at.fact = "tombstone"
    BY <1>2 DEF Concluded, States, Unsettled, Terminal
  <1>4. /\ WithResult(intent[Current], s, at.fact) \in Intent
        /\ WithResult(intent[Current], s, at.fact).state = s
        /\ WithResult(intent[Current], s, at.fact).pin = intent[Current].pin
    <2> DEFINE o == at.cmd.observation
               i == intent[Current]
    <2>1. o \in {c.observation : c \in Commands}
      BY <1>1, Running
    <2>2. i \in Intent
      BY <1>1
    <2> HIDE DEF o, i
    <2>3. WithResult(i, s, at.fact) \in Intent /\ WithResult(i, s, at.fact).state = s
          /\ WithResult(i, s, at.fact).pin = i.pin
      BY <2>1, <2>2, PairMoves
    <2> QED
      BY <2>3 DEF i
  <1>5. PICK j \in Intent : /\ j = WithResult(intent[Current], s, at.fact)
                            /\ j.state = s /\ j.pin = intent[Current].pin
    BY <1>4
  <1>6. /\ intent' = [intent EXCEPT ![Current] = j]
        /\ \E c \in {"reply_received", "transport_unknown", "reconciled"} :
               attempts' = Closed(Current, c)
        /\ UNCHANGED <<seam, links, byom>>
        /\ IF at.fact = "committed" THEN at' = [at EXCEPT !.step = "linking"] ELSE at' = Idle
    BY <1>3, <1>5 DEF Conclude, End
  <1>7. j.state \in {"byom_committed", "linking", "linked"} => domain[Current] = "committed"
    BY <1>2, <1>3, <1>5 DEF Backed
  <1>8. j.state = "canceled" => domain[Current] \in {"tombstoned", "fenced"}
    BY <1>2, <1>3, <1>5 DEF Backed
  <1>9. /\ at' \in Work
        /\ at'.step \in {"idle", "linking"}
        /\ at'.step # "idle" => at'.cmd = at.cmd /\ at.fact = "committed"
    BY <1>1, <1>6 DEF FormationTypeOK, Idle
  <1>10. links' \subseteq Formations
    BY <1>1, <1>6 DEF FormationTypeOK
  <1> QED
    BY <1>1, <1>2, <1>3, <1>5, <1>6, <1>7, <1>8, <1>9, <1>10, RunningMove DEF Terminal

\* The link of a committed formation.
LEMMA LinkingSteps ==
    ASSUME IInv, BeginLink \/ Link
    PROVE  IInv' /\ Mapped
  <1> USE DEF Work
  <1>1. FormationTypeOK /\ Carries /\ at.step \in {"linking", "link"}
    BY DEF IInv, BeginLink, Link
  <1>2. PICK f \in Formations : f = Current /\ Agrees(f) /\ intent[f] # None /\ intent[f] \in Intent
    BY <1>1, Running
  <1>3. intent[f].state \in {"byom_committed", "linking"} /\ domain[f] = "committed"
    <2>1. intent[f].state \in {"byom_committed", "linking"}
      BY <1>1, <1>2 DEF Carries
    <2> QED
      BY <1>2, <2>1 DEF Agrees
  <1>4. /\ at' \in Work /\ at'.step \in {"idle", "link"}
        /\ at'.step # "idle" => at'.cmd = at.cmd
        /\ UNCHANGED <<seam, attempts, byom>>
        /\ links' \subseteq Formations
    <2>1. /\ at' = Idle \/ at' = [at EXCEPT !.step = "link"]
          /\ UNCHANGED <<seam, attempts, byom>>
          /\ links' = links \/ links' = links \union {f}
      BY <1>2 DEF BeginLink, Link, End
    <2>2. at' \in Work /\ at'.step \in {"idle", "link"} /\ (at'.step # "idle" => at'.cmd = at.cmd)
      <3>1. CASE at' = Idle
        BY <3>1, IdleCarries DEF Idle
      <3>2. CASE at' = [at EXCEPT !.step = "link"]
        BY <1>1, <3>2 DEF FormationTypeOK
      <3> QED
        BY <2>1, <3>1, <3>2
    <2> QED
      BY <1>1, <2>1, <2>2 DEF FormationTypeOK
  <1>5. at'.step = "link" => at.step = "linking"
    BY <1>1 DEF BeginLink, Link, End, Idle
  <1>6. CASE UNCHANGED intent
    <2>1. FormationTypeOK'
      BY <1>1, <1>4, <1>6 DEF FormationTypeOK, seam, byom
    <2>2. \A g \in Formations : Agrees(g)'
      BY <1>4, <1>6 DEF IInv, Agrees, byom
    <2>3. Carries'
      BY <1>1, <1>2, <1>3, <1>4, <1>6 DEF Carries, Current
    <2> QED
      BY <1>4, <1>6, <2>1, <2>2, <2>3, Stutters DEF IInv, byom
  <1>7. ASSUME NEW t \in {"linking", "linked"},
               intent' = [intent EXCEPT ![f] = CommitPair(@, t)],
               t = "linked" => at'.step = "idle"
        PROVE  IInv' /\ Mapped
    <2>1. /\ CommitPair(intent[f], t) \in Intent /\ CommitPair(intent[f], t).state = t
          /\ CommitPair(intent[f], t).pin = intent[f].pin
      BY <1>2, PairLeads
    <2>2. PICK j \in Intent : j = CommitPair(intent[f], t) /\ j.state = t /\ j.pin = intent[f].pin
      BY <2>1
    <2>3. intent' = [intent EXCEPT ![Current] = j]
      BY <1>2, <1>7, <2>2
    <2> QED
      BY <1>1, <1>2, <1>3, <1>4, <1>7, <2>2, <2>3, RunningMove DEF Terminal
  <1>8. CASE BeginLink
    <2>1. UNCHANGED intent \/ intent' = [intent EXCEPT ![f] = CommitPair(@, "linking")]
      BY <1>2, <1>8 DEF BeginLink
    <2> QED
      BY <1>6, <1>7, <2>1
  <1>9. CASE Link
    <2>1. UNCHANGED intent \/ intent' = [intent EXCEPT ![f] = CommitPair(@, "linked")]
      BY <1>2, <1>9 DEF Link
    <2>2. at'.step = "idle"
      BY <1>9 DEF Link, End, Idle
    <2> QED
      BY <1>6, <1>7, <2>1, <2>2
  <1> QED
    BY <1>8, <1>9

\* What follows a fact: a link only from the state a link starts in.
LEMMA FollowsFact ==
    ASSUME IInv, at.step = "apply", NEW state \in States, AfterFact(state)
    PROVE  /\ at' \in Work /\ at'.step \in {"idle", "linking", "link", "mint"}
           /\ at'.step # "idle" => at'.cmd = at.cmd
           /\ at'.step = "mint" => at'.fact = None
           /\ at'.step = "linking" => state = "byom_committed"
           /\ at'.step = "link" => state = "linking"
  <1>1. at \in Work
    BY DEF IInv, FormationTypeOK
  <1>2. \/ state = "byom_committed" /\ at' = [at EXCEPT !.step = "linking"]
        \/ state = "linking" /\ at' = [at EXCEPT !.step = "link"]
        \/ at' = [at EXCEPT !.step = "mint", !.fact = None]
        \/ at' = Idle
    BY DEF AfterFact, End
  <1>3. CASE state = "byom_committed" /\ at' = [at EXCEPT !.step = "linking"]
    BY <1>1, <1>3 DEF Work
  <1>4. CASE state = "linking" /\ at' = [at EXCEPT !.step = "link"]
    BY <1>1, <1>4 DEF Work
  <1>5. CASE at' = [at EXCEPT !.step = "mint", !.fact = None]
    BY <1>1, <1>5 DEF Work
  <1>6. CASE at' = Idle
    BY <1>6, IdleCarries DEF Idle
  <1> QED
    BY <1>2, <1>3, <1>4, <1>5, <1>6

\* A fact is applied, or has no row for the state, or was applied already.
LEMMA ApplyFactStep ==
    ASSUME IInv, ApplyFact
    PROVE  IInv' /\ Mapped
  <1>1. FormationTypeOK /\ Carries /\ at.step = "apply"
    BY DEF IInv, ApplyFact
  <1>2. PICK f \in Formations : /\ f = Current /\ Agrees(f)
                                /\ intent[f] # None /\ intent[f] \in Intent
                                /\ intent[f].state \in States
                                /\ at.cmd.observation \in {c.observation : c \in Commands}
    BY <1>1, Running
  <1>3. at.fact \in Facts /\ Backed(at.fact, f)
    BY <1>1, <1>2 DEF Carries
  <1>4. PICK now \in States : now = intent[f].state
    BY <1>2
  <1>5. PICK next : next = Resolve(now, at.fact)
    OBVIOUS
  <1>6. UNCHANGED <<seam, links, byom>>
    BY DEF ApplyFact
  <1>7. CASE UNCHANGED <<intent, attempts, receipts>> /\ (End \/ AfterFact(now))
    <2>1. /\ at' \in Work /\ at'.step \in {"idle", "linking", "link", "mint"}
          /\ at'.step # "idle" => at'.cmd = at.cmd
          /\ at'.step = "mint" => at'.fact = None
          /\ at'.step = "linking" => now = "byom_committed"
          /\ at'.step = "link" => now = "linking"
      <3>1. CASE End
        BY <3>1 DEF End, Idle, Work
      <3>2. CASE AfterFact(now)
        BY <1>1, <3>2, FollowsFact
      <3> QED
        BY <1>7, <3>1, <3>2
    <2>2. FormationTypeOK'
      BY <1>1, <1>6, <1>7, <2>1 DEF FormationTypeOK, seam, byom
    <2>3. Carries'
      BY <1>1, <1>2, <1>4, <1>7, <2>1 DEF Carries, Current
    <2> QED
      BY <1>6, <1>7, <2>2, <2>3, Untouched, Stutters DEF byom
  <1>8. CASE /\ next # None
             /\ attempts' = Closed(f, "reconciled")
             /\ intent' = [intent EXCEPT ![f] = WithResult(@, next, at.fact)]
             /\ AfterFact(next)
    <2>1. /\ next \in States /\ next # "prepared" /\ next # "linked"
          /\ next = "canceled" => at.fact \in {"tombstone", "fenced"}
          /\ next \in {"byom_committed", "linking"} => at.fact = "committed"
          /\ now \notin Terminal
      BY <1>3, <1>5, <1>8, Resolves
    <2>2. /\ at' \in Work /\ at'.step \in {"idle", "linking", "link", "mint"}
          /\ at'.step # "idle" => at'.cmd = at.cmd
          /\ at'.step = "mint" => at'.fact = None
          /\ at'.step = "linking" => next = "byom_committed"
          /\ at'.step = "link" => next = "linking"
      BY <1>1, <1>8, <2>1, FollowsFact
    <2> DEFINE o == at.cmd.observation
               i == intent[f]
               fact == at.fact
    <2>3. o \in {c.observation : c \in Commands} /\ i \in Intent
      BY <1>2
    <2> HIDE DEF o, i, fact
    <2>4. /\ WithResult(i, next, fact) \in Intent /\ WithResult(i, next, fact).state = next
          /\ WithResult(i, next, fact).pin = i.pin
      BY <2>1, <2>3, PairMoves
    <2> USE DEF o, i, fact
    <2>5. PICK j \in Intent : /\ j = WithResult(intent[f], next, at.fact)
                              /\ j.state = next /\ j.pin = intent[f].pin
      BY <2>4
    <2>6. intent' = [intent EXCEPT ![Current] = j] /\ attempts' = Closed(Current, "reconciled")
      BY <1>2, <1>8, <2>5
    <2>7. /\ j.state \in {"byom_committed", "linking", "linked"} => domain[Current] = "committed"
          /\ j.state = "canceled" => domain[Current] \in {"tombstoned", "fenced"}
      BY <1>2, <1>3, <2>1, <2>5 DEF Backed
    <2>8. links' \subseteq Formations
      BY <1>1, <1>6 DEF FormationTypeOK
    <2> HIDE DEF o, i, fact
    <2> QED
      BY <1>1, <1>2, <1>4, <1>6, <2>1, <2>2, <2>5, <2>6, <2>7, <2>8, RunningMove
  <1> QED
    BY <1>2, <1>4, <1>5, <1>7, <1>8 DEF ApplyFact

\* A decision of byom's, and what the running command hears of it.
Decides(f, d) ==
    /\ domain' = [domain EXCEPT ![f] = d]
    /\ domain[f] # "open" => d = domain[f]
    /\ d = "committed" => attempts[f] # <<>>
    /\ wire' \subseteq wire
    /\ \/ at' = at
       \/ \E fact \in Facts \union {"refused"} :
             /\ at' = [at EXCEPT !.fact = fact] /\ at.step = "await"
             /\ at.sent.formation = f
             /\ at.sent.op = "form" => fact \in {"committed", "tombstone", "refused"}
             /\ fact = "committed" => d = "committed"
             /\ fact \in {"tombstone", "fenced"} => d \in {"tombstoned", "fenced"}

\* byom decides a domain at most once, and no command it acts on is unrecorded.
LEMMA ByomSteps ==
    ASSUME IInv, (\E m \in wire : Act(m)) \/ (\E f \in Formations : Fence(f))
    PROVE  IInv' /\ Mapped
  <1>1. FormationTypeOK /\ Carries
    BY DEF IInv
  <1>2. UNCHANGED <<seam, intent, attempts, links>>
    BY DEF Act, Fence, durable
  <1>3. PICK f \in Formations, d \in {"open", "committed", "tombstoned", "fenced"} :
            Decides(f, d)
    <2>1. ASSUME NEW m \in wire, Act(m)
          PROVE  \E f \in Formations, d \in {"open", "committed", "tombstoned", "fenced"} :
                     Decides(f, d)
      <3>1. m \in Message /\ m.formation \in Formations /\ m.op \in {"form", "terminalize"}
        BY <1>1 DEF FormationTypeOK, Message
      <3>2. PICK f \in Formations : f = m.formation /\ Agrees(f)
        BY <3>1 DEF IInv
      <3>3. domain[f] \in {"open", "committed", "tombstoned", "fenced"}
        BY <1>1 DEF FormationTypeOK
      <3>4. PICK act \in Acts(m) :
                /\ domain' = [domain EXCEPT ![m.formation] = act[1]]
                /\ at' = IF at.step = "await" /\ at.sent = m THEN [at EXCEPT !.fact = act[2]]
                         ELSE at
        BY <2>1 DEF Act
      <3>5. /\ act[1] \in {"open", "committed", "tombstoned", "fenced"}
            /\ act[2] \in {"committed", "tombstone", "refused", "not_terminalizable"}
            /\ domain[f] # "open" => act[1] = domain[f]
            /\ act[1] = "committed" => domain[f] = "committed" \/ m.op = "form"
            /\ m.op = "form" => act[2] # "not_terminalizable"
            /\ act[2] = "committed" => act[1] = "committed"
            /\ act[2] = "tombstone" => act[1] = "tombstoned"
        BY <3>1, <3>2, <3>3 DEF Acts
      <3>6. act[1] = "committed" => attempts[f] # <<>>
        BY <2>1, <3>2, <3>5 DEF Agrees
      <3>7. wire' \subseteq wire
        BY <2>1 DEF Act
      <3>8. \/ at' = at
            \/ at' = [at EXCEPT !.fact = act[2]] /\ at.step = "await" /\ at.sent = m
        BY <3>4
      <3>9. act[2] \in Facts \union {"refused"}
        BY <3>5 DEF Facts
      <3>10. PICK d \in {"open", "committed", "tombstoned", "fenced"}, fact \in Facts \union {"refused"} :
                d = act[1] /\ fact = act[2]
        BY <3>5, <3>9
      <3>11. at' = at \/ (at' = [at EXCEPT !.fact = fact] /\ at.step = "await" /\ at.sent = m)
        BY <3>8, <3>10
      <3>12. Decides(f, d)
        BY <3>2, <3>4, <3>5, <3>6, <3>7, <3>10, <3>11 DEF Decides
      <3> QED
        BY <3>12
    <2>2. ASSUME NEW f \in Formations, Fence(f)
          PROVE  \E g \in Formations, d \in {"open", "committed", "tombstoned", "fenced"} :
                     Decides(g, d)
      <3>1. Decides(f, "fenced")
        BY <2>2 DEF Fence, Decides
      <3> QED
        BY <3>1
    <2> QED
      BY <2>1, <2>2
  <1>4. /\ domain' \in [Formations -> {"open", "committed", "tombstoned", "fenced"}]
        /\ domain'[f] = d /\ \A g \in Formations : g # f => domain'[g] = domain[g]
    BY <1>1, <1>3 DEF FormationTypeOK, Decides
  <1>5. ASSUME NEW g \in Formations PROVE Agrees(g)'
    <2>1. Agrees(g)
      BY DEF IInv
    <2> QED
      BY <1>2, <1>3, <1>4, <2>1 DEF Agrees, Decides
  <1>7. FormationTypeOK' /\ Carries'
    <2>1. CASE at' = at
      <3>1. FormationTypeOK'
        BY <1>1, <1>2, <1>3, <1>4, <2>1 DEF FormationTypeOK, seam, Decides
      <3>2. at.step # "idle" => Current \in Formations /\ Current' = Current
        BY <2>1, Running DEF Current
      <3>3. at.step \in {"await", "conclude", "apply"} => Backed(at.fact, Current)'
        <4>1. at.step \in {"await", "conclude", "apply"} => Backed(at.fact, Current)
          BY <1>1 DEF Carries
        <4> QED
          BY <1>3, <1>4, <2>1, <3>2, <4>1 DEF Backed, Decides
      <3> QED
        BY <1>1, <1>2, <2>1, <3>1, <3>2, <3>3 DEF Carries
    <2>2. ASSUME NEW fact \in Facts \union {"refused"},
                 at' = [at EXCEPT !.fact = fact], at.step = "await", at.sent.formation = f,
                 at.sent.op = "form" => fact \in {"committed", "tombstone", "refused"},
                 fact = "committed" => d = "committed",
                 fact \in {"tombstone", "fenced"} => d \in {"tombstoned", "fenced"}
          PROVE  FormationTypeOK' /\ Carries'
      <3>1. at' \in Work /\ at'.fact = fact /\ at'.step = "await" /\ at'.cmd = at.cmd
            /\ at'.sent = at.sent
        BY <1>1, <2>2 DEF FormationTypeOK, Work
      <3>2. FormationTypeOK'
        BY <1>1, <1>2, <1>3, <1>4, <3>1 DEF FormationTypeOK, seam, Decides
      <3>3. Current = f /\ Current' = f
        BY <1>1, <2>2, <3>1 DEF Carries, Current
      <3>4. Backed(fact, f)'
        BY <1>4, <2>2 DEF Backed
      <3> QED
        BY <1>1, <1>2, <2>2, <3>1, <3>2, <3>3, <3>4 DEF Carries, Backed
    <2> QED
      BY <1>3, <2>1, <2>2 DEF Decides
  <1>8. Mapped
    <2>1. Agrees(f)
      BY DEF IInv
    <2>2. /\ FateMap \in [Formations -> {"open", "committed", "denied"}]
          /\ FateMap' \in [Formations -> {"open", "committed", "denied"}]
          /\ \A g \in Formations : g # f => FateMap'[g] = FateMap[g]
      BY <1>2, <1>4 DEF FateMap
    <2>3. KnownMap' = KnownMap
      BY <1>2 DEF KnownMap
    <2>4. CASE FateMap'[f] = FateMap[f]
      <3>1. FateMap' = FateMap
        BY <2>2, <2>4
      <3> QED
        BY <2>3, <3>1 DEF Mapped, Fate!vars, FateMap, KnownMap
    <2>5. CASE FateMap'[f] # FateMap[f]
      <3>1. FateMap[f] = "open"
        BY <1>2, <1>3, <1>4, <2>1, <2>5 DEF FateMap, Agrees, Decides
      <3>2. PICK what \in {"committed", "denied"} : FateMap'[f] = what
        BY <2>2, <2>5, <3>1
      <3>3. FateMap' = [FateMap EXCEPT ![f] = what]
        BY <2>2, <3>2
      <3>4. Fate!Decide(f, what)
        BY <2>3, <3>1, <3>3 DEF Fate!Decide, FateMap, KnownMap
      <3> QED
        BY <3>4 DEF Mapped, Fate!Next
    <2> QED
      BY <2>4, <2>5
  <1> QED
    BY <1>5, <1>7, <1>8 DEF IInv

\* Every step keeps the invariant and maps to a step of EndeavorFate.
LEMMA NextIInv == IInv /\ [FormationNext]_vars => IInv' /\ Mapped
  <1> SUFFICES ASSUME IInv, [FormationNext]_vars PROVE IInv' /\ Mapped
    OBVIOUS
  <1>1. ASSUME NEW f \in Formations, Prepare(f) PROVE IInv' /\ Mapped
    BY <1>1, PrepareStep
  <1>2. ASSUME NEW f \in Formations, Cancel(f) PROVE IInv' /\ Mapped
    BY <1>2, CancelStep
  <1>3. CASE (\E m \in wire : Act(m)) \/ (\E f \in Formations : Fence(f))
    BY <1>3, ByomSteps
  <1>4. CASE BeginAttempt
    BY <1>4, BeginAttemptStep
  <1>5. CASE Submit \/ Deny
    BY <1>5, SendingSteps
  <1>6. CASE Conclude
    BY <1>6, ConcludeStep
  <1>7. CASE BeginLink \/ Link
    BY <1>7, LinkingSteps
  <1>8. CASE ApplyFact
    BY <1>8, ApplyFactStep
  <1>9. CASE (\E c \in Commands : Start(c) \/ Reconcile(c)) \/ Query \/ Mint \/ Hear \/ Crash
    BY <1>9, ReadingSteps, Stutters
  <1>10. CASE MoveSeam
    BY <1>10, SeamMoves, Stutters DEF MoveSeam, durable, byom
  <1>11. CASE UNCHANGED vars
    <2>1. FormationTypeOK' /\ Carries'
      BY <1>11 DEF IInv, FormationTypeOK, Carries, Backed, Current, vars, seam, durable, byom
    <2> QED
      BY <1>11, <2>1, Untouched, Stutters DEF vars, durable, byom
  <1> QED
    BY <1>1, <1>2, <1>3, <1>4, <1>5, <1>6, <1>7, <1>8, <1>9, <1>10, <1>11 DEF FormationNext

-----------------------------------------------------------------------------

\* Every variable of a promotion keeps its shape.
THEOREM FormationTypeSafe == FormationSpec => []FormationTypeOK
  <1>1. IInv => FormationTypeOK
    BY DEF IInv
  <1> QED
    BY InitIInv, NextIInv, <1>1, PTL DEF FormationSpec

\* Whatever byom has acted on or may still act on was recorded first, and
\* stays recorded through every crash.
THEOREM SentIsRecordedSafe == FormationSpec => []SentIsRecorded
  <1>1. IInv => SentIsRecorded
    <2> SUFFICES ASSUME IInv, NEW f \in Formations
                 PROVE  /\ \A m \in wire : m.op = "form" /\ m.formation = f =>
                              /\ m.n \in 1 .. Len(attempts[f])
                              /\ intent[f].state # "prepared"
                              /\ attempts[f][m.n].pin = intent[f].pin
                        /\ domain[f] = "committed" =>
                              attempts[f] # <<>> /\ intent[f].state # "prepared"
      BY DEF SentIsRecorded
    <2>1. Agrees(f) /\ attempts[f] \in Seq(Attempt)
      BY DEF IInv, FormationTypeOK
    <2>2. attempts[f] # <<>> => intent[f] # None /\ intent[f].state # "prepared"
      BY <2>1 DEF Agrees
    <2>3. ASSUME NEW m \in wire, m.op = "form", m.formation = f
          PROVE  m.n \in 1 .. Len(attempts[f]) /\ attempts[f] # <<>>
      BY <2>1, <2>3 DEF Agrees
    <2> QED
      BY <2>1, <2>2, <2>3 DEF Agrees
  <1> QED
    BY InitIInv, NextIInv, <1>1, PTL DEF FormationSpec

\* A promotion implements EndeavorFate: byom's decision stands whatever Kovee
\* lost of it, and Kovee ends a formation only in agreement with it.
THEOREM FormationImplements == FormationSpec => FateSpec
  <1>1. FormationInit => Fate!Init
    BY DEF FormationInit, Fate!Init
  <1>2. IInv /\ [FormationNext]_vars => IInv' /\ [Fate!Next]_Fate!vars
    BY NextIInv DEF Mapped
  <1> QED
    BY InitIInv, <1>1, <1>2, PTL DEF FormationSpec, FateSpec, Fate!Spec
=============================================================================
