---------------------------- MODULE ContentProofs -----------------------------
(***************************************************************************)
(* Proofs about SpaceContent and the artifact pipeline below it: the rows  *)
(* and files of the artifacts agree, a redaction leaves nothing behind,    *)
(* and a prepared change of access is confirmed over what it was prepared  *)
(* over.  None of the three is inductive: what they say of a daemon at     *)
(* rest follows from what each step of a running command has established   *)
(* (JobOK), which a Crash may cut short anywhere.  SafeInv is the          *)
(* strengthening: BodyOK for rows, files and pages, ChangesOK for the      *)
(* prepared changes.                                                       *)
(***************************************************************************)
EXTENDS SpaceContent, TLAPS

Finalizing == job.op = "finalize" /\ job.step \in {"read", "write", "rename", "decide"}

\* What a running command rests on.
JobOK ==
    /\ job.op = "none" => job = NoJob
    /\ job.op = "down" => job = Off
    /\ Finalizing =>
          /\ job.of \in Artifacts
          /\ upload[job.of] = "sealing"
    /\ At("finalize", "write") =>
          /\ job.seen \in Contents
          /\ <<job.of, job.seen>> \notin sealed
    /\ At("finalize", "rename") =>
          /\ job.seen \in Contents
          /\ <<job.of, job.seen>> \notin sealed
    /\ At("finalize", "decide") => job.seen = None \/ <<job.of, job.seen>> \in sealed
    /\ job.op = "start" => job.step \in {"vacuum", "unmark", "sweep"}
    /\ job.step = "tidy" => job.of \in Artifacts
    /\ job.step = "commit" =>
          /\ job.op = "redact"
          /\ job.of \in Contributions
          /\ post[job.of].state = "present"
          /\ \A a \in Erasable(Cited(job.of)) :
                a \in stuck \/ (a \in torn /\ <<a, address[a]>> \notin sealed)

\* Rows of an upload and its artifact, and their files.
RowsOK ==
    \A a \in Artifacts :
        /\ upload[a] = "none" => artifact[a] = "none"
        /\ artifact[a] \in {"available", "erased"} =>
              /\ upload[a] = "completed"
              /\ observed[a] # None
              /\ partial[a] # observed[a]
        /\ artifact[a] = "available" =>
              /\ address[a] = declared[a] /\ address[a] = observed[a]
              /\ <<a, address[a]>> \in sealed \/ a \in torn
        /\ artifact[a] = "erased" =>
              /\ ~secret[a]
              /\ <<a, observed[a]>> \in sealed => a \in stuck
        /\ partial[a] # None => <<a, partial[a]>> \notin sealed

\* A staging file of an ended upload is a stray one, or is about to go.
StagingOK ==
    \A a \in Artifacts : upload[a] \in Ended /\ staging[a] # None =>
        \/ a \in stray
        \/ job.op \in {"down", "start"}
        \/ job.step = "tidy" /\ job.of = a

\* What is cited was available; what is redacted is gone.
CitedOK ==
    \A c \in Contributions :
        /\ \A a \in Cited(c) : artifact[a] \in {"available", "erased"}
        /\ post[c].state = "redacted" =>
              /\ c \notin events \union results
              /\ \A a \in Cited(c) : artifact[a] = "erased"

\* Freed pages are never without their mark, and none is left past a VACUUM.
PagesOK ==
    /\ residue => pending
    /\ job.step = "unmark" => ~residue
    /\ At("start", "sweep") => ~residue

\* A current change was prepared over the access its scope still has.
ChangesOK ==
    \A x \in Changes : Prepared(x) =>
        /\ change[x].scope \in Spaces => status[change[x].scope] # "none"
        /\ x \in current => access[change[x].scope] = change[x].prior

BodyOK  == JobOK /\ RowsOK /\ StagingOK /\ CitedOK /\ PagesOK
SafeInv == ContentTypeOK /\ BodyOK /\ ChangesOK
-----------------------------------------------------------------------------
(* Types.                                                                  *)

\* What Job builds is a row of a running command.
LEMMA JobTyped ==
    ASSUME NEW o \in {"none", "down", "start", "finalize", "abort", "resend", "redact"},
           NEW s \in {"none", "read", "write", "rename", "decide", "tidy", "commit", "vacuum",
                      "unmark", "sweep"},
           NEW x \in Artifacts \union Contributions \union {None}
    PROVE  Job(o, s, x) \in JobRow
BY DEF Job, JobRow

\* A command that moves to its next step keeps its shape.
LEMMA GotoTyped ==
    ASSUME job \in JobRow,
           NEW s \in {"none", "read", "write", "rename", "decide", "tidy", "commit", "vacuum",
                      "unmark", "sweep"},
           Goto(s)
    PROVE  job' \in JobRow
BY DEF Goto, JobRow

\* A command that ends leaves the shape of no command.
LEMMA DoneTyped == ASSUME Done PROVE job' \in JobRow
BY DEF Done, NoJob, Job, JobRow

\* Removing staging files, some of which may stay, keeps the shape of what is
\* staged, and what stays is a stray one.
LEMMA RemovedFiles ==
    ASSUME staging \in [Artifacts -> Contents \union {None}], stray \subseteq Artifacts,
           NEW A \in SUBSET Artifacts, Removed(A)
    PROVE  /\ staging' \in [Artifacts -> Contents \union {None}]
           /\ stray' \subseteq Artifacts
           /\ \A a \in Artifacts : staging'[a] # None =>
                 /\ staging[a] # None
                 /\ a \in A \/ a \in stray => a \in stray'
<1>1. PICK stays \in SUBSET {a \in A : staging[a] # None} :
          /\ staging' = [a \in Artifacts |-> IF a \in A \ stays THEN None ELSE staging[a]]
          /\ stray'   = (stray \ A) \union stays
  BY DEF Removed
<1> QED  BY <1>1

\* A compaction that fails ends the command, or the start.
LEMMA FailsTyped == ASSUME Fails PROVE job' \in JobRow
BY DEF Fails, NoJob, Off, Job, JobRow

\* Every step of the artifact pipeline preserves the shape of its rows, files
\* and pages; a finalize under way names an artifact, a tidy too.
LEMMA PipelineTyped ==
    ASSUME ArtifactsTypeOK, JobOK, Pipeline
    PROVE  ArtifactsTypeOK'
<1> USE DEF ArtifactsTypeOK, rowVars, fileVars, pageVars, Accepting, Ended
<1>1. ASSUME NEW a \in Artifacts, NEW d \in Contents \ Oversized, UploadBegin(a, d)
      PROVE  ArtifactsTypeOK'
  BY <1>1 DEF UploadBegin
<1>2. ASSUME NEW a \in Artifacts, NEW d \in Contents \union {None}, UploaderWrites(a, d)
      PROVE  ArtifactsTypeOK'
  BY <1>2 DEF UploaderWrites
<1>3. ASSUME NEW a \in Artifacts, Finalize(a)  PROVE ArtifactsTypeOK'
  BY <1>3, JobTyped DEF Finalize
<1>4. ASSUME NEW a \in Artifacts, Abort(a)  PROVE ArtifactsTypeOK'
  BY <1>4, JobTyped DEF Abort
<1>5. ASSUME NEW a \in Artifacts, Resend(a)  PROVE ArtifactsTypeOK'
  BY <1>5, JobTyped DEF Resend
<1>6. CASE ReadBytes
  <2>1. job' \in JobRow
    <3>1. CASE secret[job.of]
      <4>1. PICK d \in Readable(job.of) :
                job' = [job EXCEPT !.seen = d,
                                   !.step = IF d = None \/ <<job.of, d>> \in sealed
                                            THEN "decide" ELSE "write"]
        BY <1>6, <3>1 DEF ReadBytes
      <4>2. d \in Contents \union {None}
        <5>1. job.of \in Artifacts
          BY <1>6 DEF ReadBytes, At, JobOK, Finalizing
        <5>2. FindSealed(job.of) \subseteq Contents
          BY DEF FindSealed
        <5> QED  BY <4>1, <5>1, <5>2 DEF Readable
      <4> QED  BY <4>1, <4>2 DEF JobRow
    <3>2. CASE ~secret[job.of]
      BY <1>6, <3>2, DoneTyped DEF ReadBytes
    <3> QED  BY <3>1, <3>2
  <2> QED  BY <1>6, <2>1 DEF ReadBytes
<1>7. CASE WriteSealed
  BY <1>7, GotoTyped DEF WriteSealed, JobRow
<1>8. CASE RenameSealed
  BY <1>8, GotoTyped DEF RenameSealed, At, JobOK, Finalizing
<1>9. CASE Decide
  BY <1>9, GotoTyped DEF Decide, JobRow
<1>10. CASE Tidy
  BY <1>10, DoneTyped, RemovedFiles DEF Tidy, JobOK
<1>11. CASE Vacuum
  BY <1>11, GotoTyped, FailsTyped DEF Vacuum
<1>12. CASE Unmark
  BY <1>12, GotoTyped, DoneTyped, FailsTyped DEF Unmark
<1>13. CASE Crash
  BY <1>13, JobTyped DEF Crash, Off
<1>14. CASE Start
  BY <1>14, JobTyped DEF Start
<1>15. CASE SweepStaging
  BY <1>15, DoneTyped, RemovedFiles DEF SweepStaging
<1> QED
  BY <1>1, <1>2, <1>3, <1>4, <1>5, <1>6, <1>7, <1>8, <1>9, <1>10, <1>11, <1>12, <1>13,
     <1>14, <1>15 DEF Pipeline

\* What touches no artifact preserves their shape.
LEMMA ArtifactsSame ==
    ASSUME ArtifactsTypeOK, UNCHANGED artifactVars
    PROVE  ArtifactsTypeOK'
BY DEF ArtifactsTypeOK, artifactVars, rowVars, fileVars, pageVars

\* The initial state has the shape of ContentTypeOK.
LEMMA InitTyped == ContentInit => ContentTypeOK
<1> SUFFICES ASSUME ContentInit PROVE ContentTypeOK
  OBVIOUS
<1>1. ArtifactsTypeOK
  BY JobTyped DEF ContentInit, ArtifactsInit, ArtifactsTypeOK, Off, Accepting, Ended
<1>2. NoPost \in Post /\ NoMember \in Member /\ [state |-> "none"] \in Change
  BY DEF NoPost, Post, NoMember, Member, Change
<1>3. access \in [Scopes -> Access]
  BY DEF ContentInit, Access, Visibilities
<1> QED  BY <1>1, <1>2, <1>3 DEF ContentInit, ContentTypeOK

\* A moved revision only takes changes out of `current`.
LEMMA BumpTyped ==
    ASSUME NEW z, current \subseteq Changes, Bump(z)
    PROVE  current' \subseteq Changes
BY DEF Bump

\* The operations on a space itself preserve the shape of the state.
LEMMA LifecycleTyped ==
    ASSUME ContentTypeOK, Lifecycle
    PROVE  ContentTypeOK'
<1> USE DEF ContentTypeOK, bodyVars, spaceVars, linkVars, changeVars, adminVars
<1>1. ASSUME NEW s \in Spaces, NEW v \in Visibilities, NEW p \in Policies,
             SpaceCreate(s, v, p)
      PROVE  ContentTypeOK'
  <2>1. [visibility |-> v, policy |-> p] \in Access
    BY DEF Access
  <2>2. [state |-> "active", role |-> Steward, prepared |-> Steward] \in Member
    BY OwnerAssumption DEF Member
  <2>3. member' \in [Spaces -> [Subjects -> Member]]
    BY <1>1, <2>2, OwnerAssumption DEF SpaceCreate
  <2> QED  BY <1>1, <2>1, <2>3, ArtifactsSame DEF SpaceCreate, Scopes
<1>2. ASSUME NEW s \in Spaces, NEW from, NEW to \in {"open", "frozen", "archived"},
             SetStatus(s, from, to)
      PROVE  ContentTypeOK'
  BY <1>2, BumpTyped, ArtifactsSame DEF SetStatus
<1>3. ASSUME NEW s \in Spaces, NEW a \in Access, SetAccess(s, a)
      PROVE  ContentTypeOK'
  BY <1>3, BumpTyped, ArtifactsSame DEF SetAccess, Scopes
<1>4. ASSUME NEW s \in Spaces, Restrict(s)
      PROVE  ContentTypeOK'
  <2>1. [access[s] EXCEPT !.visibility = "restricted"] \in Access
    BY DEF Scopes, Access, Visibilities
  <2> QED  BY <1>3, <1>4, <2>1 DEF Restrict
<1>5. ASSUME NEW s \in Spaces, NEW p \in Policies, PolicyNarrow(s, p)
      PROVE  ContentTypeOK'
  <2>1. [access[s] EXCEPT !.policy = p] \in Access
    BY DEF Scopes, Access
  <2> QED  BY <1>3, <1>5, <2>1 DEF PolicyNarrow
<1>6. ASSUME NEW z \in Scopes, UpdateMetadata(z)
      PROVE  ContentTypeOK'
  BY <1>6, BumpTyped, ArtifactsSame DEF UpdateMetadata
<1> QED  BY <1>1, <1>2, <1>4, <1>5, <1>6 DEF Lifecycle, Freeze, Reopen, Archive

\* A change that was prepared has a scope and two accesses, and keeps them
\* when it is settled.
LEMMA ChangeRows ==
    ASSUME NEW c \in Change, c.state # "none"
    PROVE  /\ c.scope \in Scopes /\ c.prior \in Access /\ c.proposed \in Access
           /\ \A s \in {"prepared", "confirmed", "canceled"} :
                 [c EXCEPT !.state = s] \in Change
BY DEF Change

\* Preparing, confirming and canceling a change preserve the shape of the state.
LEMMA PreparedChangesTyped ==
    ASSUME ContentTypeOK, PreparedChanges
    PROVE  ContentTypeOK'
<1> USE DEF ContentTypeOK, bodyVars, spaceVars, linkVars, changeVars, adminVars
<1>1. ASSUME NEW x \in Changes, NEW z \in Scopes, NEW a \in Access, Prepare(x, z, a)
      PROVE  ContentTypeOK'
  <2>1. [state |-> "prepared", scope |-> z, prior |-> access[z], proposed |-> a,
         items |-> ItemSet(z)] \in Change
    BY DEF Change, ItemSet
  <2> QED  BY <1>1, <2>1, ArtifactsSame DEF Prepare
<1>2. ASSUME NEW x \in Changes, NEW s \in Spaces, NEW v \in Visibilities,
             NEW p \in Policies, WidenPrepare(x, s, v, p)
      PROVE  ContentTypeOK'
  <2>1. [visibility |-> v, policy |-> p] \in Access
    BY DEF Access
  <2> QED  BY <1>1, <1>2, <2>1 DEF WidenPrepare, Scopes
<1>3. ASSUME NEW x \in Changes, NEW p \in Policies, PapcPrepare(x, p)
      PROVE  ContentTypeOK'
  <2>1. [access[Project] EXCEPT !.policy = p] \in Access
    BY DEF Access, Scopes
  <2> QED  BY <1>1, <1>3, <2>1 DEF PapcPrepare, Scopes
<1>4. ASSUME NEW x \in Changes, Confirm(x)
      PROVE  ContentTypeOK'
  <2>1. /\ change[x].scope \in Scopes /\ change[x].proposed \in Access
        /\ [change[x] EXCEPT !.state = "confirmed"] \in Change
    BY <1>4, ChangeRows DEF Confirm, Confirmable, Prepared
  <2> QED  BY <1>4, <2>1, BumpTyped, ArtifactsSame DEF Confirm, Settle
<1>5. ASSUME NEW x \in Changes, Prepared(x), Cancel(x)
      PROVE  ContentTypeOK'
  <2>1. [change[x] EXCEPT !.state = "canceled"] \in Change
    BY <1>5, ChangeRows DEF Prepared
  <2> QED  BY <1>5, <2>1, ArtifactsSame DEF Cancel, Settle
<1> QED
  BY <1>2, <1>3, <1>4, <1>5
     DEF PreparedChanges, WidenConfirm, PapcConfirm, WidenCancel, PapcCancel

\* A contribution that was appended has a space, and keeps it when redacted.
LEMMA PostRows ==
    ASSUME NEW c \in Post, c # NoPost
    PROVE  /\ c.space \in Spaces /\ c.artifact \in Artifacts \union {None}
           /\ c.state \in {"present", "redacted"}
           /\ [c EXCEPT !.state = "redacted"] \in Post
BY DEF Post

\* A participant row keeps its shape whatever its state and role become.
LEMMA MemberRows ==
    ASSUME NEW m \in Member
    PROVE  /\ \A s \in {"active", "revoked"} : [m EXCEPT !.state = s] \in Member
           /\ \A s \in {"proposed", "active", "muted"}, r \in Roles :
                 [m EXCEPT !.state = s, !.role = r] \in Member
BY DEF Member

\* The operations on contributions preserve the shape of the state.
LEMMA PostingTyped ==
    ASSUME ContentTypeOK, JobOK, Posting
    PROVE  ContentTypeOK'
<1> USE DEF ContentTypeOK, bodyVars, spaceVars, linkVars, changeVars, adminVars
<1>1. ASSUME NEW c \in Contributions, NEW s \in Spaces, NEW a \in Artifacts \union {None},
             NEW t \in Texts, ContributionAppend(c, s, a, t)
      PROVE  ContentTypeOK'
  <2>1. [state |-> "present", space |-> s, artifact |-> a, text |-> t] \in Post
    BY DEF Post
  <2> QED  BY <1>1, <2>1, BumpTyped, ArtifactsSame DEF ContributionAppend
<1>2. ASSUME NEW c \in Contributions, NEW kind \in {"withdraw", "supersede"},
             Dispose(c, kind)
      PROVE  ContentTypeOK'
  BY <1>2, BumpTyped, ArtifactsSame DEF Dispose
<1>3. ASSUME NEW c \in Contributions, Redact(c)
      PROVE  ContentTypeOK'
  <2>1. ArtifactsTypeOK'
    <3>1. job' \in JobRow
      BY <1>3, JobTyped DEF Redact
    <3>2. Cited(c) \subseteq Artifacts
      <4>1. post[c] \in Post /\ post[c] # NoPost
        BY <1>3 DEF Redact, NoPost
      <4> QED  BY <4>1, PostRows DEF Cited
    <3>3. Erasable(Cited(c)) \in SUBSET Artifacts
      BY <3>2 DEF Erasable
    <3>4. /\ Removed(Erasable(Cited(c))) /\ UNCHANGED partial
          /\ sealed' \subseteq sealed /\ torn' \subseteq Artifacts /\ stuck' \subseteq Artifacts
      BY <1>3, <3>3 DEF Redact, EraseFiles, ArtifactsTypeOK
    <3> QED
      BY <1>3, <3>1, <3>3, <3>4, RemovedFiles DEF Redact, ArtifactsTypeOK, rowVars, pageVars
  <2> QED  BY <1>3, <2>1 DEF Redact
<1>4. CASE RedactCommit
  <2>1. job.of \in Contributions
    BY <1>4 DEF RedactCommit, At, JobOK
  <2>2. [post[job.of] EXCEPT !.state = "redacted"] \in Post
    <3>1. post[job.of] \in Post /\ post[job.of] # NoPost
      BY <1>4, <2>1 DEF RedactCommit, At, JobOK, NoPost
    <3> QED  BY <3>1, PostRows
  <2>3. post' \in [Contributions -> Post]
    BY <1>4, <2>2 DEF RedactCommit
  <2>4. ArtifactsTypeOK'
    <3>1. job' \in JobRow
      BY <1>4, GotoTyped DEF RedactCommit, ArtifactsTypeOK
    <3> QED
      BY <1>4, <3>1 DEF RedactCommit, EraseRows, MarkPending, ArtifactsTypeOK, fileVars
  <2>5. events' \subseteq Contributions /\ results' \subseteq Contributions
    BY <1>4 DEF RedactCommit, Scrub
  <2>6. current' \subseteq Changes
    BY <1>4, BumpTyped DEF RedactCommit
  <2> QED  BY <1>4, <2>1, <2>3, <2>4, <2>5, <2>6 DEF RedactCommit
<1>5. CASE RedactFails
  BY <1>5, DoneTyped DEF RedactFails, ArtifactsTypeOK, rowVars, fileVars, pageVars
<1>6. ASSUME NEW c \in Contributions, RedactAgain(c)
      PROVE  ContentTypeOK'
  BY <1>6, JobTyped DEF RedactAgain, ArtifactsTypeOK, rowVars, fileVars, pageVars
<1>7. ASSUME NEW r \in Relations, NEW c \in Contributions, NEW d \in Contributions,
             RelationAssert(r, c, d)
      PROVE  ContentTypeOK'
  <2>1. post[c].space \in Spaces
    <3>1. post[c] \in Post /\ post[c] # NoPost
      BY <1>7 DEF RelationAssert, Posted
    <3> QED  BY <3>1, PostRows
  <2> QED  BY <1>7, <2>1, BumpTyped, ArtifactsSame DEF RelationAssert, Touch, Placed
<1>8. ASSUME NEW r \in Relations, RelationRetract(r)
      PROVE  ContentTypeOK'
  <2>1. [relation[r] EXCEPT !.state = "retracted"] \in Placed({"asserted", "retracted"})
    BY <1>8 DEF RelationRetract, Placed, Nowhere
  <2> QED  BY <1>8, <2>1, BumpTyped, ArtifactsSame DEF RelationRetract, Touch
<1>9. ASSUME NEW c \in Contributions, NEW state \in {"set", "cleared"}, ReactionSet(c, state)
      PROVE  ContentTypeOK'
  BY <1>9, ArtifactsSame DEF ReactionSet
<1> QED
  BY <1>1, <1>2, <1>3, <1>4, <1>5, <1>6, <1>7, <1>8, <1>9 DEF Posting, Withdraw, Supersede

\* Participants, grants and lenses: their operations preserve the shape of
\* the state.
LEMMA AdministrationTyped ==
    ASSUME ContentTypeOK, Administration
    PROVE  ContentTypeOK'
<1> USE DEF ContentTypeOK, bodyVars, spaceVars, linkVars, changeVars, adminVars
<1>1. ASSUME NEW s \in Spaces, NEW p \in Subjects, NEW m \in Member, SetMember(s, p, m)
      PROVE  ContentTypeOK'
  <2>1. member' \in [Spaces -> [Subjects -> Member]]
    BY <1>1 DEF SetMember
  <2> QED  BY <1>1, <2>1, ArtifactsSame DEF SetMember
<1>2. ASSUME NEW s \in Spaces, NEW p \in Subjects
      PROVE  member[s][p] \in Member
  OBVIOUS
<1>3. ASSUME NEW s \in Spaces, NEW p \in Subjects, NEW role \in Roles,
             ParticipantAdd(s, p, role)
      PROVE  ContentTypeOK'
  <2>1. [state |-> "proposed", role |-> role, prepared |-> role] \in Member
    BY DEF Member
  <2> QED  BY <1>1, <1>3, <2>1 DEF ParticipantAdd
<1>4. ASSUME NEW s \in Spaces, NEW p \in Subjects, NEW role \in Roles,
             ParticipantActivate(s, p, role)
      PROVE  ContentTypeOK'
  <2>1. [member[s][p] EXCEPT !.state = "active"] \in Member
    BY <1>2, MemberRows
  <2> QED  BY <1>1, <1>4, <2>1 DEF ParticipantActivate
<1>5. ASSUME NEW s \in Spaces, NEW p \in Subjects, NEW role \in Roles,
             NEW state \in {"proposed", "active", "muted"},
             ParticipantUpdate(s, p, state, role)
      PROVE  ContentTypeOK'
  <2>1. [member[s][p] EXCEPT !.state = state, !.role = role] \in Member
    BY <1>2, MemberRows
  <2> QED  BY <1>1, <1>5, <2>1 DEF ParticipantUpdate
<1>6. ASSUME NEW s \in Spaces, NEW p \in Subjects, ParticipantRemove(s, p)
      PROVE  ContentTypeOK'
  <2>1. [member[s][p] EXCEPT !.state = "revoked"] \in Member
    BY <1>2, MemberRows
  <2> QED  BY <1>1, <1>6, <2>1 DEF ParticipantRemove
<1>7. ASSUME NEW g \in Grants, NEW s \in Spaces, GrantCreate(g, s)
      PROVE  ContentTypeOK'
  BY <1>7, ArtifactsSame DEF GrantCreate, Placed
<1>8. ASSUME NEW g \in Grants, GrantRevoke(g)
      PROVE  ContentTypeOK'
  <2>1. [grant[g] EXCEPT !.state = "revoked"] \in Placed({"active", "revoked"})
    BY <1>8 DEF GrantRevoke, Placed, Nowhere
  <2> QED  BY <1>8, <2>1, ArtifactsSame DEF GrantRevoke
<1>9. ASSUME NEW l \in Lenses, NEW row, SetLens(l, row),
             row \in [state : {"active", "revoked"}, space : Spaces, visibility : Visibilities]
      PROVE  ContentTypeOK'
  BY <1>9, ArtifactsSame DEF SetLens
<1>10. ASSUME NEW l \in Lenses, NEW s \in Spaces, NEW v \in Visibilities, LensCreate(l, s, v)
       PROVE  ContentTypeOK'
  BY <1>9, <1>10 DEF LensCreate
<1>11. ASSUME NEW l \in Lenses, NEW v \in Visibilities, LensUpdate(l, v)
       PROVE  ContentTypeOK'
  BY <1>9, <1>11 DEF LensUpdate
<1>12. ASSUME NEW l \in Lenses, LensRevoke(l)
       PROVE  ContentTypeOK'
  BY <1>9, <1>12 DEF LensRevoke
<1> QED
  BY <1>3, <1>4, <1>5, <1>6, <1>7, <1>8, <1>10, <1>11, <1>12 DEF Administration

\* Every step preserves ContentTypeOK.
LEMMA StepTyped ==
    ASSUME ContentTypeOK, JobOK, [ContentNext]_contentVars
    PROVE  ContentTypeOK'
<1>1. CASE Artifactual
  <2>1. ArtifactsTypeOK'
    BY <1>1, PipelineTyped DEF Artifactual, ContentTypeOK
  <2> QED
    BY <1>1, <2>1
       DEF Artifactual, ContentTypeOK, bodyVars, spaceVars, linkVars, changeVars, adminVars
<1>2. CASE UNCHANGED contentVars
  BY <1>2, ArtifactsSame
     DEF ContentTypeOK, contentVars, bodyVars, spaceVars, linkVars, changeVars, adminVars
<1> QED
  BY <1>1, <1>2, LifecycleTyped, PreparedChangesTyped, PostingTyped, AdministrationTyped
     DEF ContentNext
-----------------------------------------------------------------------------
(* Files, rows and pages.                                                  *)

\* While no available or erased artifact changes state, what is cited stays
\* cited rightly.
LEMMA CitedKept ==
    ASSUME ContentTypeOK, CitedOK, UNCHANGED <<post, events, results>>,
           \A a \in Artifacts :
              artifact[a] \in {"available", "erased"} => artifact'[a] = artifact[a]
    PROVE  CitedOK'
<1>1. \A c \in Contributions : Cited(c) \subseteq Artifacts
  BY DEF ContentTypeOK, Post, NoPost, Cited
<1> QED  BY <1>1 DEF CitedOK, Cited

\* With no command under way freed pages have their mark, and a staging file
\* of an ended upload is a stray one.
LEMMA IdleFacts ==
    ASSUME BodyOK, Idle
    PROVE  /\ residue => pending
           /\ \A a \in Artifacts : upload[a] \in Ended /\ staging[a] # None => a \in stray
BY DEF BodyOK, Idle, NoJob, Job, PagesOK, StagingOK

\* A step that leaves artifacts, bodies, events and receipts alone preserves
\* BodyOK.
LEMMA QuietSafe ==
    ASSUME BodyOK, UNCHANGED <<artifactVars, post, events, results>>
    PROVE  BodyOK'
BY DEF BodyOK, JobOK, Finalizing, At, RowsOK, StagingOK, CitedOK, PagesOK, Cited, Erasable,
       artifactVars, rowVars, fileVars, pageVars

\* A compaction that fails, at its VACUUM or after it, leaves nothing amiss
\* but the freed pages it has not rewritten.
LEMMA FailsSafe ==
    ASSUME BodyOK, Fails, UNCHANGED <<rowVars, fileVars, residue, post>>,
           residue => pending', job.step # "tidy", job.op # "down"
    PROVE  StagingOK' /\ JobOK' /\ PagesOK'
<1> USE DEF rowVars, fileVars
<1>1. job' = (IF job.op = "start" THEN Off ELSE NoJob)
  BY DEF Fails
<1>2. JobOK' /\ PagesOK'
  BY <1>1 DEF JobOK, Finalizing, At, PagesOK, Off, NoJob, Job
<1>3. job'.op = "down" \/ job.op # "start"
  BY <1>1 DEF Off, Job
<1> QED  BY <1>2, <1>3 DEF BodyOK, StagingOK

\* Every step of the artifact pipeline preserves BodyOK, the crash of the
\* daemon between two steps of a command included.
LEMMA PipelineSafe ==
    ASSUME ContentTypeOK, BodyOK, Pipeline, UNCHANGED <<post, events, results>>
    PROVE  BodyOK'
<1> USE DEF rowVars, fileVars, pageVars, Ended, Accepting
<1>0. ArtifactsTypeOK
  BY DEF ContentTypeOK
<1>1. ASSUME NEW a \in Artifacts, NEW d \in Contents \ Oversized, UploadBegin(a, d)
      PROVE  BodyOK'
  <2>1. RowsOK'
    BY <1>0, <1>1 DEF ArtifactsTypeOK, BodyOK, UploadBegin, RowsOK
  <2>2. CitedOK'
    BY <1>0, <1>1, CitedKept DEF ArtifactsTypeOK, BodyOK, UploadBegin, RowsOK
  <2>3. StagingOK' /\ JobOK' /\ PagesOK'
    BY <1>0, <1>1
       DEF ArtifactsTypeOK, BodyOK, UploadBegin, StagingOK, JobOK, Finalizing, At, PagesOK,
           Idle, NoJob, Job
  <2> QED  BY <2>1, <2>2, <2>3 DEF BodyOK
<1>2. ASSUME NEW a \in Artifacts, NEW d \in Contents \union {None}, UploaderWrites(a, d)
      PROVE  BodyOK'
  <2>1. StagingOK'
    BY <1>0, <1>2 DEF ArtifactsTypeOK, BodyOK, UploaderWrites, StagingOK
  <2>2. CitedOK'
    BY <1>2, CitedKept DEF BodyOK, UploaderWrites
  <2>3. RowsOK' /\ JobOK' /\ PagesOK'
    BY <1>2
       DEF BodyOK, UploaderWrites, RowsOK, JobOK, Finalizing, At, PagesOK, Erasable, Cited
  <2> QED  BY <2>1, <2>2, <2>3 DEF BodyOK
<1>3. ASSUME NEW a \in Artifacts, Finalize(a)  PROVE BodyOK'
  <2>1. RowsOK'
    BY <1>0, <1>3 DEF ArtifactsTypeOK, BodyOK, Finalize, RowsOK
  <2>2. CitedOK'
    BY <1>0, <1>3, CitedKept DEF ArtifactsTypeOK, BodyOK, Finalize, RowsOK
  <2>3. StagingOK'
    BY <1>0, <1>3, IdleFacts DEF ArtifactsTypeOK, BodyOK, Finalize, StagingOK
  <2>4. JobOK' /\ PagesOK'
    BY <1>0, <1>3, IdleFacts
       DEF ArtifactsTypeOK, Finalize, JobOK, Finalizing, At, PagesOK, Job, NoJob, Off
  <2> QED  BY <2>1, <2>2, <2>3, <2>4 DEF BodyOK
<1>4. ASSUME NEW a \in Artifacts, Abort(a)  PROVE BodyOK'
  <2>1. RowsOK'
    BY <1>0, <1>4 DEF ArtifactsTypeOK, BodyOK, Abort, RowsOK
  <2>2. CitedOK'
    BY <1>0, <1>4, CitedKept DEF ArtifactsTypeOK, BodyOK, Abort, RowsOK
  <2>3. StagingOK'
    BY <1>0, <1>4, IdleFacts DEF ArtifactsTypeOK, BodyOK, Abort, StagingOK, Job
  <2>4. JobOK' /\ PagesOK'
    BY <1>0, <1>4, IdleFacts
       DEF ArtifactsTypeOK, Abort, JobOK, Finalizing, At, PagesOK, Job, NoJob, Off
  <2> QED  BY <2>1, <2>2, <2>3, <2>4 DEF BodyOK
<1>5. ASSUME NEW a \in Artifacts, Resend(a)  PROVE BodyOK'
  <2>1. RowsOK' /\ CitedOK'
    BY <1>5, CitedKept DEF BodyOK, Resend, RowsOK
  <2>2. StagingOK'
    BY <1>5, IdleFacts DEF Resend, StagingOK
  <2>3. JobOK' /\ PagesOK'
    BY <1>5, IdleFacts DEF Resend, JobOK, Finalizing, At, PagesOK, Job, NoJob, Off
  <2> QED  BY <2>1, <2>2, <2>3 DEF BodyOK
<1>6. CASE ReadBytes
  <2>1. RowsOK' /\ CitedOK'
    BY <1>6, CitedKept DEF BodyOK, ReadBytes, RowsOK
  <2>2. CASE ~secret[job.of]
    BY <1>6, <2>1, <2>2
       DEF BodyOK, ReadBytes, At, Done, StagingOK, JobOK, Finalizing, PagesOK, NoJob, Job, Off
  <2>3. CASE secret[job.of]
    <3>1. job.of \in Artifacts /\ upload[job.of] = "sealing"
      BY <1>6 DEF ReadBytes, At, BodyOK, JobOK, Finalizing
    <3>2. PICK d \in Readable(job.of) :
              job' = [job EXCEPT !.seen = d,
                                 !.step = IF d = None \/ <<job.of, d>> \in sealed
                                          THEN "decide" ELSE "write"]
      BY <1>6, <2>3 DEF ReadBytes
    <3>3. d \in Contents \union {None}
      <4>1. FindSealed(job.of) \subseteq Contents
        BY DEF FindSealed
      <4> QED  BY <1>0, <3>1, <3>2, <4>1 DEF Readable, ArtifactsTypeOK
    <3>4. /\ job'.op = "finalize" /\ job'.of = job.of /\ job'.seen = d
          /\ job'.step \in {"decide", "write"}
          /\ job'.step = "decide" <=> (d = None \/ <<job.of, d>> \in sealed)
      BY <1>0, <1>6, <3>2 DEF ReadBytes, At, ArtifactsTypeOK, JobRow
    <3>5. JobOK'
      BY <1>6, <3>1, <3>3, <3>4 DEF ReadBytes, At, JobOK, Finalizing
    <3>6. StagingOK' /\ PagesOK'
      BY <1>6, <3>4 DEF ReadBytes, At, BodyOK, StagingOK, PagesOK
    <3> QED  BY <2>1, <3>5, <3>6 DEF BodyOK
  <2> QED  BY <2>2, <2>3
<1>7. CASE WriteSealed
  <2>1. /\ job.of \in Artifacts /\ upload[job.of] = "sealing"
        /\ job.seen \in Contents /\ <<job.of, job.seen>> \notin sealed
    BY <1>7 DEF WriteSealed, At, BodyOK, JobOK, Finalizing
  <2>2. /\ job'.op = "finalize" /\ job'.of = job.of /\ job'.seen = job.seen
        /\ job'.step = "rename"
    BY <1>0, <1>7 DEF WriteSealed, At, Goto, ArtifactsTypeOK, JobRow
  <2>3. RowsOK'
    BY <1>0, <1>7, <2>1 DEF ArtifactsTypeOK, BodyOK, WriteSealed, RowsOK
  <2>4. CitedOK'
    BY <1>7, CitedKept DEF BodyOK, WriteSealed
  <2>5. StagingOK' /\ JobOK' /\ PagesOK'
    BY <1>7, <2>1, <2>2
       DEF BodyOK, WriteSealed, At, StagingOK, JobOK, Finalizing, PagesOK
  <2> QED  BY <2>3, <2>4, <2>5 DEF BodyOK
<1>8. CASE RenameSealed
  <2>1. /\ job.of \in Artifacts /\ upload[job.of] = "sealing"
        /\ job.seen \in Contents /\ <<job.of, job.seen>> \notin sealed
    BY <1>8 DEF RenameSealed, At, BodyOK, JobOK, Finalizing
  <2>2. /\ job'.op = "finalize" /\ job'.of = job.of /\ job'.seen = job.seen
        /\ job'.step = "decide"
    BY <1>0, <1>8 DEF RenameSealed, At, Goto, ArtifactsTypeOK, JobRow
  <2>3. RowsOK'
    BY <1>0, <1>8, <2>1 DEF ArtifactsTypeOK, BodyOK, RenameSealed, RowsOK
  <2>4. CitedOK'
    BY <1>8, CitedKept DEF BodyOK, RenameSealed
  <2>5. StagingOK' /\ JobOK' /\ PagesOK'
    BY <1>8, <2>1, <2>2
       DEF BodyOK, RenameSealed, At, StagingOK, JobOK, Finalizing, PagesOK
  <2> QED  BY <2>3, <2>4, <2>5 DEF BodyOK
<1>9. CASE Decide
  <2>1. /\ job.of \in Artifacts /\ upload[job.of] = "sealing"
        /\ job.seen = None \/ <<job.of, job.seen>> \in sealed
        /\ job.seen \in Contents \union {None}
    BY <1>0, <1>9 DEF Decide, At, BodyOK, JobOK, Finalizing, ArtifactsTypeOK, JobRow
  <2>2. job'.op = "finalize" /\ job'.of = job.of /\ job'.step = "tidy"
    BY <1>0, <1>9 DEF Decide, At, Goto, ArtifactsTypeOK, JobRow
  <2>3. RowsOK'
    BY ZenonT(40), <1>0, <1>9, <2>1 DEF ArtifactsTypeOK, BodyOK, Decide, RowsOK
  <2>4. CitedOK'
    BY <1>0, <1>9, <2>1, CitedKept DEF ArtifactsTypeOK, BodyOK, Decide, RowsOK
  <2>5. StagingOK'
    BY <1>0, <1>9, <2>1, <2>2 DEF ArtifactsTypeOK, BodyOK, Decide, At, StagingOK
  <2>6. JobOK' /\ PagesOK'
    BY <1>9, <2>1, <2>2 DEF BodyOK, Decide, At, JobOK, Finalizing, PagesOK
  <2> QED  BY <2>3, <2>4, <2>5, <2>6 DEF BodyOK
<1>10. CASE Tidy
  <2>1. job.of \in Artifacts /\ job.op \notin {"down", "start"}
    BY <1>10 DEF Tidy, BodyOK, JobOK, Off, Job
  <2>2. RowsOK' /\ CitedOK'
    BY <1>10, CitedKept DEF BodyOK, Tidy, RowsOK
  <2>3. StagingOK'
    BY <1>0, <1>10, <2>1, RemovedFiles DEF ArtifactsTypeOK, BodyOK, Tidy, StagingOK
  <2>4. JobOK' /\ PagesOK'
    BY <1>10, <2>1
       DEF BodyOK, Tidy, Done, JobOK, Finalizing, At, PagesOK, NoJob, Job
  <2> QED  BY <2>2, <2>3, <2>4 DEF BodyOK
<1>11. CASE Vacuum
  <2>1. job.op \notin {"none", "down"} /\ job.step = "vacuum"
    BY <1>11 DEF Vacuum, BodyOK, JobOK, Off, NoJob, Job
  <2>2. RowsOK' /\ CitedOK'
    BY <1>11, CitedKept DEF BodyOK, Vacuum, RowsOK
  <2>3. CASE residue' = FALSE /\ Goto("unmark")
    <3>1. job'.op = job.op /\ job'.of = job.of /\ job'.step = "unmark"
      BY <1>0, <2>3 DEF Goto, ArtifactsTypeOK, JobRow
    <3> QED
      BY <1>11, <2>1, <2>2, <2>3, <3>1
         DEF BodyOK, Vacuum, StagingOK, JobOK, Finalizing, At, PagesOK
  <2>4. CASE UNCHANGED residue /\ Fails
    BY <1>11, <2>1, <2>2, <2>4, FailsSafe DEF BodyOK, PagesOK, Vacuum
  <2> QED  BY <1>11, <2>3, <2>4 DEF Vacuum
<1>12. CASE Unmark
  <2>1. job.op \notin {"none", "down"} /\ job.step = "unmark" /\ ~residue
    BY <1>12 DEF Unmark, BodyOK, JobOK, PagesOK, Off, NoJob, Job
  <2>2. RowsOK' /\ CitedOK'
    BY <1>12, CitedKept DEF BodyOK, Unmark, RowsOK
  <2>3. CASE job.op = "start" /\ Goto("sweep")
    <3>1. job'.op = "start" /\ job'.of = job.of /\ job'.step = "sweep"
      BY <1>0, <2>3 DEF Goto, ArtifactsTypeOK, JobRow
    <3> QED
      BY <1>12, <2>1, <2>2, <3>1
         DEF BodyOK, Unmark, StagingOK, JobOK, Finalizing, At, PagesOK
  <2>4. CASE job.op # "start" /\ Done
    BY <1>12, <2>1, <2>2, <2>4
       DEF BodyOK, Unmark, Done, StagingOK, JobOK, Finalizing, At, PagesOK, NoJob, Job
  <2>5. CASE Fails
    BY <1>12, <2>1, <2>2, <2>5, FailsSafe DEF BodyOK, Unmark
  <2> QED  BY <1>12, <2>3, <2>4, <2>5 DEF Unmark
<1>13. CASE Crash
  <2>1. RowsOK' /\ CitedOK'
    BY <1>13, CitedKept DEF BodyOK, Crash, RowsOK
  <2>2. StagingOK' /\ JobOK' /\ PagesOK'
    BY <1>13 DEF BodyOK, Crash, StagingOK, JobOK, Finalizing, At, PagesOK, Off, Job
  <2> QED  BY <2>1, <2>2 DEF BodyOK
<1>14. CASE Start
  <2>1. RowsOK' /\ CitedOK'
    BY <1>14, CitedKept DEF BodyOK, Start, RowsOK
  <2>2. StagingOK' /\ JobOK' /\ PagesOK'
    BY <1>14 DEF BodyOK, Start, StagingOK, JobOK, Finalizing, At, PagesOK, Off, Job
  <2> QED  BY <2>1, <2>2 DEF BodyOK
<1>15. CASE SweepStaging
  <2>1. RowsOK' /\ CitedOK'
    BY <1>15, CitedKept DEF BodyOK, SweepStaging, RowsOK
  <2>2. StagingOK'
    <3>1. Removed({a \in Artifacts : upload[a] \notin Accepting}) /\ UNCHANGED upload
      BY <1>15 DEF SweepStaging
    <3> QED  BY <1>0, <3>1, RemovedFiles DEF ArtifactsTypeOK, StagingOK
  <2>3. JobOK' /\ PagesOK'
    BY <1>15 DEF BodyOK, SweepStaging, Done, JobOK, Finalizing, At, PagesOK, NoJob, Job
  <2> QED  BY <2>1, <2>2, <2>3 DEF BodyOK
<1> QED
  BY <1>1, <1>2, <1>3, <1>4, <1>5, <1>6, <1>7, <1>8, <1>9, <1>10, <1>11, <1>12, <1>13,
     <1>14, <1>15 DEF Pipeline

\* A redaction removes the files while its transaction is open: what is still
\* available is sealed, or torn.
LEMMA RedactSafe ==
    ASSUME ContentTypeOK, BodyOK, NEW c \in Contributions, Redact(c)
    PROVE  BodyOK'
<1>1. Cited(c) \subseteq Artifacts
  <2>1. post[c] \in Post /\ post[c] # NoPost
    BY DEF Redact, NoPost, ContentTypeOK
  <2> QED  BY <2>1, PostRows DEF Cited
<1>2. Erasable(Cited(c)) \in SUBSET Artifacts
  BY <1>1 DEF Erasable
<1>3. PICK stays \in SUBSET {a \in Erasable(Cited(c)) : <<a, address[a]>> \in sealed} :
          LET gone == Erasable(Cited(c)) \ stays
          IN  /\ sealed' = sealed \ {<<a, address[a]>> : a \in gone}
              /\ torn'   = torn \union gone
              /\ stuck'  = (stuck \ gone) \union stays
              /\ Removed(Erasable(Cited(c)))
              /\ UNCHANGED partial
  BY DEF Redact, EraseFiles
<1>4. RowsOK'
  <2>1. /\ sealed' \subseteq sealed /\ partial' = partial
        /\ UNCHANGED <<upload, artifact, secret, declared, observed, address>>
    BY <1>3 DEF Redact, rowVars
  <2>2. \A a \in Artifacts :
            /\ <<a, address[a]>> \in sealed => <<a, address[a]>> \in sealed' \/ a \in torn'
            /\ a \in torn => a \in torn'
    BY <1>3
  <2>3. \A a \in Artifacts : artifact[a] = "erased" /\ a \in stuck => a \in stuck'
    BY <1>3 DEF Erasable
  <2> QED  BY <2>1, <2>2, <2>3 DEF BodyOK, RowsOK
<1>5. CitedOK'
  BY CitedKept DEF BodyOK, Redact, rowVars, bodyVars
<1>6. StagingOK'
  <2>1. /\ Removed(Erasable(Cited(c)))
        /\ UNCHANGED upload
        /\ \A a \in Artifacts : upload[a] \in Ended /\ staging[a] # None => a \in stray
    BY <1>3, IdleFacts DEF Redact, rowVars
  <2> QED  BY <1>2, <2>1, RemovedFiles DEF ContentTypeOK, ArtifactsTypeOK, StagingOK
<1>7. JobOK'
  <2>1. job' = Job("redact", "commit", c) /\ post[c].state = "present"
        /\ UNCHANGED <<artifact, address, post>>
    BY DEF Redact, rowVars, bodyVars
  <2>2. \A a \in Erasable(Cited(c)) :
            a \in stuck' \/ (a \in torn' /\ <<a, address[a]>> \notin sealed')
    <3>1. ASSUME NEW a \in Erasable(Cited(c)), a \in stays
          PROVE  a \in stuck'
      BY <1>3, <3>1
    <3>2. ASSUME NEW a \in Erasable(Cited(c)), a \notin stays
          PROVE  a \in torn' /\ <<a, address[a]>> \notin sealed'
      <4>1. a \in Erasable(Cited(c)) \ stays
        BY <3>2
      <4> QED  BY <1>3, <4>1
    <3> QED  BY <3>1, <3>2
  <2>3. Erasable(Cited(c))' = Erasable(Cited(c))
    BY <2>1 DEF Erasable, Cited
  <2> QED  BY <2>1, <2>2, <2>3 DEF JobOK, Finalizing, At, Job
<1>8. PagesOK'
  BY DEF Redact, BodyOK, PagesOK, At, Job, pageVars
<1> QED  BY <1>4, <1>5, <1>6, <1>7, <1>8 DEF BodyOK

\* The commit of a redaction erases the rows, the events and the receipts,
\* and leaves the freed pages to the VACUUM that follows.
LEMMA RedactCommitSafe ==
    ASSUME ContentTypeOK, BodyOK, RedactCommit
    PROVE  BodyOK'
<1> DEFINE c == job.of
<1>1. /\ c \in Contributions /\ post[c].state = "present"
      /\ post[c] \in Post /\ post[c] # NoPost
      /\ \A a \in Erasable(Cited(c)) :
            a \in stuck \/ (a \in torn /\ <<a, address[a]>> \notin sealed)
  BY DEF RedactCommit, At, BodyOK, JobOK, ContentTypeOK, NoPost
<1>2. Cited(c) \subseteq Artifacts
  BY <1>1, PostRows DEF Cited
<1>3. \A a \in Cited(c) : artifact[a] \in {"available", "erased"}
  BY <1>1 DEF BodyOK, CitedOK
<1>4. job'.op = "redact" /\ job'.step = "vacuum" /\ job'.of = c
  BY DEF RedactCommit, At, Goto, ContentTypeOK, ArtifactsTypeOK, JobRow
<1>5. RowsOK'
  <2> SUFFICES ASSUME NEW a \in Artifacts
               PROVE  /\ upload'[a] = "none" => artifact'[a] = "none"
                      /\ artifact'[a] \in {"available", "erased"} =>
                            /\ upload'[a] = "completed"
                            /\ observed'[a] # None
                            /\ partial'[a] # observed'[a]
                      /\ artifact'[a] = "available" =>
                            /\ address'[a] = declared'[a] /\ address'[a] = observed'[a]
                            /\ <<a, address'[a]>> \in sealed' \/ a \in torn'
                      /\ artifact'[a] = "erased" =>
                            /\ ~secret'[a]
                            /\ <<a, observed'[a]>> \in sealed' => a \in stuck'
                      /\ partial'[a] # None => <<a, partial'[a]>> \notin sealed'
    BY DEF RowsOK
  <2>1. /\ upload' = upload /\ observed' = observed /\ partial' = partial
        /\ sealed' = sealed /\ torn' = torn /\ stuck' = stuck
    BY DEF RedactCommit, EraseRows, fileVars
  <2>2. CASE a \in Erasable(Cited(c))
    <3>1. artifact[a] = "available" /\ artifact'[a] = "erased" /\ ~secret'[a]
      BY <1>3, <2>2 DEF RedactCommit, EraseRows, Erasable
    <3>2. <<a, observed[a]>> \in sealed => a \in stuck
      BY <1>1, <2>2, <3>1 DEF BodyOK, RowsOK
    <3> QED  BY <2>1, <3>1, <3>2 DEF BodyOK, RowsOK
  <2>3. CASE a \notin Erasable(Cited(c))
    <3>1. /\ artifact'[a] = artifact[a] /\ declared'[a] = declared[a]
          /\ address'[a] = address[a]
      BY <2>3 DEF RedactCommit, EraseRows
    <3>2. secret'[a] => secret[a]
      BY Zenon DEF RedactCommit, EraseRows
    <3> QED  BY <2>1, <3>1, <3>2 DEF BodyOK, RowsOK
  <2> QED  BY <2>2, <2>3
<1>6. CitedOK'
  <2>1. \A a \in Artifacts : artifact[a] \in {"available", "erased"} =>
            artifact'[a] = artifact[a] \/ artifact'[a] = "erased"
    BY DEF RedactCommit, EraseRows
  <2>2. \A a \in Cited(c) : artifact'[a] = "erased"
    BY <1>2, <1>3 DEF RedactCommit, EraseRows, Erasable
  <2>3. \A d \in Contributions : Cited(d) \subseteq Artifacts
    BY DEF ContentTypeOK, Post, NoPost, Cited
  <2>4. /\ c \notin events' \union results'
        /\ events' \subseteq events /\ results' \subseteq results
    BY <1>1 DEF RedactCommit, Scrub
  <2>5. \A d \in Contributions :
            /\ post'[d].artifact = post[d].artifact
            /\ d # c => post'[d] = post[d]
    <3>1. post' = [post EXCEPT ![c] = [post[c] EXCEPT !.state = "redacted"]]
      BY DEF RedactCommit
    <3>2. [post[c] EXCEPT !.state = "redacted"].artifact = post[c].artifact
      BY <1>1 DEF Post
    <3> QED  BY <1>1, <3>1, <3>2 DEF ContentTypeOK
  <2> QED  BY <1>1, <2>1, <2>2, <2>3, <2>4, <2>5 DEF BodyOK, CitedOK, Cited
<1>7. StagingOK'
  BY DEF BodyOK, RedactCommit, EraseRows, At, StagingOK, fileVars
<1>8. JobOK' /\ PagesOK'
  BY <1>4 DEF RedactCommit, MarkPending, JobOK, Finalizing, At, PagesOK
<1> QED  BY <1>5, <1>6, <1>7, <1>8 DEF BodyOK

\* The operations on contributions preserve BodyOK.
LEMMA PostingSafe ==
    ASSUME ContentTypeOK, BodyOK, Posting
    PROVE  BodyOK'
<1>1. ASSUME NEW c \in Contributions, NEW s \in Spaces, NEW a \in Artifacts \union {None},
             NEW t \in Texts, ContributionAppend(c, s, a, t)
      PROVE  BodyOK'
  <2>1. JobOK' /\ RowsOK' /\ StagingOK' /\ PagesOK'
    BY <1>1
       DEF ContributionAppend, BodyOK, JobOK, Finalizing, At, RowsOK, StagingOK, PagesOK,
           artifactVars, rowVars, fileVars, pageVars, Idle, NoJob, Job
  <2>2. CitedOK'
    <3>1. post'[c].artifact = a /\ post'[c].state = "present" /\ post[c] = NoPost
      BY <1>1 DEF ContributionAppend, ContentTypeOK
    <3>2. \A d \in Contributions : d # c => post'[d] = post[d]
      BY <1>1 DEF ContributionAppend, ContentTypeOK
    <3>3. /\ artifact' = artifact
          /\ events' = events \union {c} /\ results' = results \union {c}
      BY <1>1 DEF ContributionAppend, artifactVars, rowVars
    <3>4. a # None => artifact[a] = "available"
      BY <1>1 DEF ContributionAppend, ValidParts
    <3> QED  BY <3>1, <3>2, <3>3, <3>4 DEF BodyOK, CitedOK, Cited
  <2> QED  BY <2>1, <2>2 DEF BodyOK
<1>2. ASSUME NEW c \in Contributions, NEW kind, Dispose(c, kind)
      PROVE  BodyOK'
  BY <1>2, QuietSafe DEF Dispose
<1>3. CASE RedactFails
  <2>1. /\ UNCHANGED <<upload, artifact, secret, declared, observed, address, staging, partial,
                       sealed, stray, torn, stuck, pending, residue, post, events, results>>
        /\ job' = NoJob /\ job.op = "redact" /\ job.step = "commit"
    BY <1>3 DEF RedactFails, Done, At, rowVars, fileVars, pageVars, bodyVars
  <2>2. RowsOK' /\ CitedOK'
    BY <2>1, CitedKept DEF BodyOK, RowsOK
  <2>3. StagingOK' /\ JobOK' /\ PagesOK'
    BY <2>1 DEF BodyOK, StagingOK, JobOK, Finalizing, At, PagesOK, NoJob, Job
  <2> QED  BY <2>2, <2>3 DEF BodyOK
<1>4. ASSUME NEW c \in Contributions, RedactAgain(c)
      PROVE  BodyOK'
  <2>1. /\ UNCHANGED <<upload, artifact, secret, declared, observed, address, staging, partial,
                       sealed, stray, torn, stuck, pending, residue, post, events, results>>
        /\ job' = Job("redact", "vacuum", c)
    BY <1>4 DEF RedactAgain, rowVars, fileVars, pageVars, bodyVars
  <2>2. RowsOK' /\ CitedOK'
    BY <2>1, CitedKept DEF BodyOK, RowsOK
  <2>3. StagingOK' /\ PagesOK'
    BY <1>4, <2>1, IdleFacts DEF RedactAgain, StagingOK, PagesOK, At, Job
  <2>4. JobOK'
    BY <2>1 DEF JobOK, Finalizing, At, Job
  <2> QED  BY <2>2, <2>3, <2>4 DEF BodyOK
<1>5. ASSUME NEW r \in Relations, NEW c \in Contributions, NEW d \in Contributions,
             RelationAssert(r, c, d)
      PROVE  BodyOK'
  BY <1>5, QuietSafe DEF RelationAssert, Touch, bodyVars
<1>6. ASSUME NEW r \in Relations, RelationRetract(r)
      PROVE  BodyOK'
  BY <1>6, QuietSafe DEF RelationRetract, Touch, bodyVars
<1>7. ASSUME NEW c \in Contributions, NEW state, ReactionSet(c, state)
      PROVE  BodyOK'
  BY <1>7, QuietSafe DEF ReactionSet, bodyVars
<1> QED
  BY <1>1, <1>2, <1>3, <1>4, <1>5, <1>6, <1>7, RedactSafe, RedactCommitSafe
     DEF Posting, Withdraw, Supersede

\* Every step preserves BodyOK.
LEMMA BodySafe ==
    ASSUME ContentTypeOK, BodyOK, [ContentNext]_contentVars
    PROVE  BodyOK'
<1> USE DEF bodyVars
<1>1. CASE Lifecycle
  BY <1>1, QuietSafe
     DEF Lifecycle, SpaceCreate, Freeze, Reopen, Archive, SetStatus, Restrict, PolicyNarrow,
         SetAccess, UpdateMetadata
<1>2. CASE PreparedChanges
  BY <1>2, QuietSafe
     DEF PreparedChanges, WidenPrepare, PapcPrepare, Prepare, WidenConfirm, PapcConfirm,
         Confirm, WidenCancel, PapcCancel, Cancel
<1>3. CASE Administration
  BY ZenonT(40), <1>3, QuietSafe
     DEF Administration, ParticipantAdd, ParticipantActivate, ParticipantUpdate,
         ParticipantRemove, SetMember, GrantCreate, GrantRevoke, LensCreate, LensUpdate,
         LensRevoke, SetLens
<1>4. CASE Artifactual
  BY <1>4, PipelineSafe DEF Artifactual
<1>5. CASE UNCHANGED contentVars
  BY <1>5, QuietSafe DEF contentVars
<1> QED  BY <1>1, <1>2, <1>3, <1>4, <1>5, PostingSafe DEF ContentNext

-----------------------------------------------------------------------------
(* Prepared changes.                                                       *)

\* A step that prepares and settles no change, and moves the access of no
\* scope with a current change, preserves ChangesOK.
LEMMA ChangesKept ==
    ASSUME ContentTypeOK, ChangesOK, UNCHANGED change, current' \subseteq current,
           \A s \in Spaces : status[s] # "none" => status'[s] # "none",
           \A x \in current' : Prepared(x) =>
              access'[change[x].scope] = access[change[x].scope]
    PROVE  ChangesOK'
BY DEF ChangesOK, Prepared

\* Every step preserves ChangesOK: whatever moves the access of a scope takes
\* its changes out of `current`.
LEMMA ChangesSafe ==
    ASSUME ContentTypeOK, ChangesOK, [ContentNext]_contentVars
    PROVE  ChangesOK'
<1> USE DEF changeVars, spaceVars
<1>0. \A x \in Changes : Prepared(x) => change[x].scope \in Scopes
  BY ChangeRows DEF ContentTypeOK, Prepared
<1>1. ASSUME NEW s \in Spaces, NEW v \in Visibilities, NEW p \in Policies,
             SpaceCreate(s, v, p)
      PROVE  ChangesOK'
  <2>1. \A t \in Spaces : status[t] # "none" => status'[t] # "none"
    BY <1>1 DEF SpaceCreate, ContentTypeOK
  <2>2. \A x \in Changes : Prepared(x) => change[x].scope # s
    BY <1>1 DEF SpaceCreate, ChangesOK
  <2>3. \A z \in Scopes : z # s => access'[z] = access[z]
    BY <1>1 DEF SpaceCreate, ContentTypeOK
  <2> QED
    BY <1>0, <1>1, <2>1, <2>2, <2>3, ChangesKept DEF SpaceCreate, ContentTypeOK
<1>2. ASSUME NEW s \in Spaces, NEW from, NEW to \in {"open", "frozen", "archived"},
             SetStatus(s, from, to)
      PROVE  ChangesOK'
  <2>1. \A t \in Spaces : status[t] # "none" => status'[t] # "none"
    BY <1>2 DEF SetStatus, ContentTypeOK
  <2> QED  BY <1>2, <2>1, ChangesKept DEF SetStatus, Bump
<1>3. ASSUME NEW s \in Spaces, NEW a, SetAccess(s, a)
      PROVE  ChangesOK'
  <2>1. \A x \in current' : x \in current /\ change[x].scope # s
    BY <1>3 DEF SetAccess, Bump
  <2>2. \A z \in Scopes : z # s => access'[z] = access[z]
    BY <1>3 DEF SetAccess, ContentTypeOK
  <2> QED  BY <1>0, <1>3, <2>1, <2>2, ChangesKept DEF SetAccess, ContentTypeOK
<1>4. CASE UNCHANGED <<change, status, access>> /\ current' \subseteq current
  BY <1>4, ChangesKept
<1>5. CASE Lifecycle
  <2>1. ASSUME NEW z \in Scopes, UpdateMetadata(z)  PROVE ChangesOK'
    BY <1>4, <2>1 DEF UpdateMetadata, Bump
  <2> QED
    BY <1>1, <1>2, <1>3, <1>5, <2>1
       DEF Lifecycle, Freeze, Reopen, Archive, Restrict, PolicyNarrow
<1>6. CASE PreparedChanges
  <2>1. ASSUME NEW x \in Changes, NEW z \in Scopes, NEW a \in Access, Prepare(x, z, a),
               z \in Spaces => status[z] # "none"
        PROVE  ChangesOK'
    <3>1. /\ change'[x].scope = z /\ change'[x].prior = access[z]
          /\ \A y \in Changes : y # x => change'[y] = change[y]
      BY <2>1 DEF Prepare, ContentTypeOK
    <3>2. current' = current \union {x} /\ UNCHANGED <<status, access>>
      BY <2>1 DEF Prepare
    <3> QED  BY <2>1, <3>1, <3>2 DEF ChangesOK, Prepared
  <2>2. ASSUME NEW x \in Changes, Confirm(x)  PROVE ChangesOK'
    <3>1. change[x] \in Change /\ change[x].state = "prepared"
      BY <2>2 DEF Confirm, Confirmable, Prepared, ContentTypeOK
    <3>2. /\ change'[x].state = "confirmed"
          /\ \A y \in Changes : y # x => change'[y] = change[y]
      BY <2>2, <3>1 DEF Confirm, Settle, ContentTypeOK, Change
    <3>3. \A y \in current' : y \in current /\ change[y].scope # change[x].scope
      BY <2>2 DEF Confirm, Bump
    <3>4. \A z \in Scopes : z # change[x].scope => access'[z] = access[z]
      BY <2>2 DEF Confirm, ContentTypeOK
    <3>5. status' = status
      BY <2>2 DEF Confirm
    <3> QED  BY <1>0, <3>2, <3>3, <3>4, <3>5 DEF ChangesOK, Prepared
  <2>3. ASSUME NEW x \in Changes, Prepared(x), Cancel(x)  PROVE ChangesOK'
    <3>1. change[x] \in Change /\ change[x].state = "prepared"
      BY <2>3 DEF Prepared, ContentTypeOK
    <3>2. /\ change'[x].state = "canceled"
          /\ \A y \in Changes : y # x => change'[y] = change[y]
      BY <2>3, <3>1 DEF Cancel, Settle, ContentTypeOK, Change
    <3>3. UNCHANGED <<current, status, access>>
      BY <2>3 DEF Cancel
    <3> QED  BY <3>2, <3>3 DEF ChangesOK, Prepared
  <2>4. ASSUME NEW x \in Changes, NEW s \in Spaces, NEW v \in Visibilities,
               NEW p \in Policies, WidenPrepare(x, s, v, p)
        PROVE  ChangesOK'
    <3>1. [visibility |-> v, policy |-> p] \in Access
      BY DEF Access
    <3> QED  BY <2>1, <2>4, <3>1 DEF WidenPrepare, Administered, Scopes
  <2>5. ASSUME NEW x \in Changes, NEW p \in Policies, PapcPrepare(x, p)
        PROVE  ChangesOK'
    <3>1. [access[Project] EXCEPT !.policy = p] \in Access
      BY DEF Access, Scopes, ContentTypeOK
    <3> QED  BY <2>1, <2>5, <3>1, ScopeAssumption DEF PapcPrepare, Scopes
  <2> QED
    BY <1>6, <2>2, <2>3, <2>4, <2>5
       DEF PreparedChanges, WidenConfirm, PapcConfirm, WidenCancel, PapcCancel
<1>7. CASE Posting
  BY <1>4, <1>7
     DEF Posting, ContributionAppend, Withdraw, Supersede, Dispose, Redact, RedactCommit,
         RedactFails, RedactAgain, RelationAssert, RelationRetract, Touch, ReactionSet, Bump
<1>8. CASE Administration
  <2>1. UNCHANGED <<changeVars, spaceVars>>
    BY ZenonT(40), <1>8
       DEF Administration, ParticipantAdd, ParticipantActivate, ParticipantUpdate,
           ParticipantRemove, SetMember, GrantCreate, GrantRevoke, LensCreate, LensUpdate,
           LensRevoke, SetLens
  <2> QED  BY <1>4, <2>1
<1>9. CASE Artifactual
  BY <1>4, <1>9 DEF Artifactual
<1>10. CASE UNCHANGED contentVars
  BY <1>4, <1>10 DEF contentVars
<1> QED  BY <1>5, <1>6, <1>7, <1>8, <1>9, <1>10 DEF ContentNext

-----------------------------------------------------------------------------
(* The theorems.                                                           *)

\* The inductive invariant holds throughout.
THEOREM ContentSafe == ContentSpec => []SafeInv
<1>1. ContentInit => SafeInv
  <2> SUFFICES ASSUME ContentInit PROVE SafeInv
    OBVIOUS
  <2>1. ContentTypeOK
    BY InitTyped
  <2>2. JobOK /\ PagesOK
    BY DEF ContentInit, ArtifactsInit, JobOK, PagesOK, Finalizing, At, Off, Job
  <2>3. RowsOK /\ StagingOK
    BY DEF ContentInit, ArtifactsInit, RowsOK, StagingOK
  <2>4. CitedOK
    BY DEF ContentInit, CitedOK, Cited, NoPost
  <2>5. ChangesOK
    BY DEF ContentInit, ChangesOK, Prepared
  <2> QED  BY <2>1, <2>2, <2>3, <2>4, <2>5 DEF SafeInv, BodyOK
<1>2. SafeInv /\ [ContentNext]_contentVars => SafeInv'
  BY StepTyped, BodySafe, ChangesSafe DEF SafeInv, BodyOK
<1> QED  BY <1>1, <1>2, PTL DEF ContentSpec

\* Every variable keeps its shape, for any spaces, contributions and changes.
THEOREM ContentTypeSafe == ContentSpec => []ContentTypeOK
<1>1. SafeInv => ContentTypeOK
  BY DEF SafeInv
<1> QED  BY <1>1, ContentSafe, PTL

\* Rows and files agree at rest (upload_finalize and upload_abort of
\* kovee-artifacts, erase_artifact, the sweep at start-up), for any
\* number of artifacts and whatever crashed before.
THEOREM FilesFollowRowsSafe == ContentSpec => []FilesFollowRows
<1>1. SafeInv => FilesFollowRows
  BY IdleFacts DEF SafeInv, FilesFollowRows, BodyOK, RowsOK
<1> QED  BY <1>1, ContentSafe, PTL

\* A redaction leaves nothing of what it redacted (contribution_redact in
\* disposition_ops.rs and the compaction of kovee-store), for any number of
\* contributions that share literals and cite the same artifacts.
THEOREM RedactionLeavesNothingSafe == ContentSpec => []RedactionLeavesNothing
<1>1. SafeInv => RedactionLeavesNothing
  <2> SUFFICES ASSUME SafeInv PROVE RedactionLeavesNothing
    OBVIOUS
  <2>1. \A c \in Contributions : Cited(c) \subseteq Artifacts
    BY DEF SafeInv, ContentTypeOK, Post, NoPost, Cited
  <2> QED
    BY <2>1 DEF SafeInv, RedactionLeavesNothing, BodyOK, RowsOK, CitedOK, PagesOK
<1> QED  BY <1>1, ContentSafe, PTL

\* A change is confirmed by its own confirmation only.
LEMMA Settled ==
    ASSUME SafeInv, ContentNext, NEW x \in Changes, Prepared(x), change'[x].state = "confirmed"
    PROVE  Confirm(x)
<1> USE DEF changeVars, Prepared
<1>1. change'[x] # change[x]
  OBVIOUS
<1>2. ~Lifecycle /\ ~Posting /\ ~Administration /\ ~Artifactual
  BY ZenonT(40), <1>1
     DEF Lifecycle, SpaceCreate, Freeze, Reopen, Archive, SetStatus, Restrict, PolicyNarrow,
         SetAccess, UpdateMetadata, Posting, ContributionAppend, Withdraw, Supersede, Dispose,
         Redact, RedactCommit, RedactFails, RedactAgain, RelationAssert, RelationRetract, Touch,
         ReactionSet, Administration, ParticipantAdd, ParticipantActivate, ParticipantUpdate,
         ParticipantRemove, SetMember, GrantCreate, GrantRevoke, LensCreate, LensUpdate,
         LensRevoke, SetLens, Artifactual
<1>3. ASSUME NEW y \in Changes, NEW z, NEW a, Prepare(y, z, a)  PROVE FALSE
  <2>1. y # x
    BY <1>3 DEF Prepare
  <2> QED  BY <1>1, <1>3, <2>1 DEF Prepare, SafeInv, ContentTypeOK
<1>4. ASSUME NEW y \in Changes, Prepared(y), Cancel(y)  PROVE FALSE
  <2>1. change[y] \in Change
    BY DEF SafeInv, ContentTypeOK
  <2>2. y # x
    BY <1>4, <2>1 DEF Cancel, Settle, SafeInv, ContentTypeOK, Change
  <2> QED  BY <1>1, <1>4, <2>2 DEF Cancel, Settle, SafeInv, ContentTypeOK
<1>5. ASSUME NEW y \in Changes, Confirm(y)  PROVE y = x
  BY <1>1, <1>5 DEF Confirm, Settle, SafeInv, ContentTypeOK
<1> QED
  BY <1>2, <1>3, <1>4, <1>5
     DEF ContentNext, PreparedChanges, WidenPrepare, PapcPrepare, WidenConfirm, PapcConfirm,
         WidenCancel, PapcCancel

\* A confirmed change takes effect over the items and the access it was
\* prepared over (widen_confirm and papc_confirm of
\* lifecycle_ops.rs), for any number of spaces and of changes.
THEOREM ConfirmedAsPreparedSafe == ContentSpec => ConfirmedAsPrepared
<1> DEFINE AsPrepared ==
        \A x \in Changes :
            Prepared(x) /\ change'[x].state = "confirmed" =>
              /\ ItemSet(change[x].scope) = change[x].items
              /\ access[change[x].scope] = change[x].prior
              /\ access'[change[x].scope] = change[x].proposed
<1>1. SafeInv /\ [ContentNext]_contentVars => [AsPrepared]_contentVars
  <2> SUFFICES ASSUME SafeInv, ContentNext, NEW x \in Changes, Prepared(x),
                      change'[x].state = "confirmed"
               PROVE  /\ ItemSet(change[x].scope) = change[x].items
                      /\ access[change[x].scope] = change[x].prior
                      /\ access'[change[x].scope] = change[x].proposed
    OBVIOUS
  <2>1. Confirm(x)
    BY Settled
  <2>2. change[x].scope \in Scopes
    BY ChangeRows DEF SafeInv, ContentTypeOK, Prepared
  <2> QED  BY <2>1, <2>2 DEF Confirm, Confirmable, SafeInv, ChangesOK, ContentTypeOK
<1> QED  BY <1>1, ContentSafe, PTL DEF ContentSpec, ConfirmedAsPrepared
===============================================================================
