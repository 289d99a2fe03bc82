---------------------------- MODULE SpaceContent -----------------------------
(***************************************************************************)
(* What is in a project's spaces and who may see it: contributions and     *)
(* their dispositions (crates/koveed/src/disposition_ops.rs), the life of  *)
(* a space and the prepared changes of access (lifecycle_ops.rs), and its  *)
(* participants, grants, lenses and reactions (space_admin_ops.rs), over   *)
(* Artifacts, whose bytes a contribution cites and a redaction erases.     *)
(*                                                                         *)
(* Every operation but a redaction is one transaction.  A revision is only *)
(* ever compared with one pinned before, so it is not a number here:       *)
(* `current` holds the prepared changes whose pinned revision is still the *)
(* present one, and Bump takes out those of the row that moved.  A command *)
(* that presents a stale revision is refused and changes nothing.          *)
(***************************************************************************)
EXTENDS Artifacts

CONSTANTS
    Spaces,
    Project,          \* the one project: a scope of access beside the spaces
    Contributions,
    Texts,            \* the literal a contribution's body holds
    Relations,
    Changes,          \* project access policy changes and space widenings
    Policies,         \* a policy set with a default classification
    Subjects,         \* who may be a participant
    Owner,
    Roles,
    Steward,
    Grants,
    Lenses

ASSUME ScopeAssumption   == Project \notin Spaces /\ None \notin Spaces
ASSUME OwnerAssumption   == Owner \in Subjects /\ Steward \in Roles
ASSUME SubjectAssumption == None \notin Contributions /\ None \notin Roles

VARIABLES
    status,      \* spaces.status
    access,      \* visibility and policy of each space; the project's policy
    post,        \* contributions
    disposed,    \* contribution_dispositions: contribution and kind
    events,      \* contributions whose append event holds the body
    results,     \* contributions whose stored receipt holds the body
    relation,    \* space_relations: where, and retracted or not
    reaction,    \* reactions.state on each contribution
    change,      \* project_policy_changes and space_access_widenings
    current,     \* changes whose expected revision is the row's revision
    member,      \* space_participants
    grant,       \* space_access_grants
    lens         \* space_lenses

bodyVars   == <<post, disposed, events, results>>
spaceVars  == <<status, access>>
linkVars   == <<relation, reaction>>
changeVars == <<change, current>>
adminVars  == <<member, grant, lens>>
contentVars == <<artifactVars, bodyVars, spaceVars, linkVars, changeVars, adminVars>>

Visibilities == {"project", "restricted"}
Access       == [visibility : Visibilities \union {"none"}, policy : Policies]
Scopes       == Spaces \union {Project}
NoPost       == [state |-> "none", space |-> None, artifact |-> None, text |-> None]
NoMember     == [state |-> "none", role |-> None, prepared |-> None]
Nowhere      == [state |-> "none", space |-> None]

ContentInit ==
    /\ ArtifactsInit
    /\ status   = [s \in Spaces |-> "none"]
    /\ \E p \in Policies :
            access = [z \in Scopes |-> [visibility |-> "none", policy |-> p]]
    /\ post     = [c \in Contributions |-> NoPost]
    /\ disposed = {}
    /\ events   = {}
    /\ results  = {}
    /\ relation = [r \in Relations |-> Nowhere]
    /\ reaction = [c \in Contributions |-> "none"]
    /\ change   = [x \in Changes |-> [state |-> "none"]]
    /\ current  = {}
    /\ member   = [s \in Spaces |-> [p \in Subjects |-> NoMember]]
    /\ grant    = [g \in Grants |-> Nowhere]
    /\ lens     = [l \in Lenses |-> Nowhere]

\* revision + 1 of a space or of the project.
Bump(z) == current' = {x \in current : change[x].scope # z}

Exists(s) == status[s] # "none"
Open(s)   == status[s] = "open"
Administered(s) == status[s] \in {"open", "frozen"}

-----------------------------------------------------------------------------
(* Spaces.                                                                 *)

SpaceCreate(s, v, p) ==
    /\ Idle
    /\ status[s] = "none"
    /\ status' = [status EXCEPT ![s] = "open"]
    /\ access' = [access EXCEPT ![s] = [visibility |-> v, policy |-> p]]
    /\ member' = [member EXCEPT ![s][Owner] =
                    [state |-> "active", role |-> Steward, prepared |-> Steward]]
    /\ UNCHANGED <<artifactVars, bodyVars, linkVars, changeVars, grant, lens>>

SetStatus(s, from, to) ==
    /\ Idle
    /\ status[s] \in from
    /\ status' = [status EXCEPT ![s] = to]
    /\ Bump(s)
    /\ UNCHANGED <<artifactVars, bodyVars, linkVars, change, access, adminVars>>

Freeze(s)  == SetStatus(s, {"open"}, "frozen")
Reopen(s)  == SetStatus(s, {"frozen"}, "open")
Archive(s) == SetStatus(s, {"open", "frozen"}, "archived")

SetAccess(s, a) ==
    /\ access' = [access EXCEPT ![s] = a]
    /\ Bump(s)
    /\ UNCHANGED <<artifactVars, bodyVars, linkVars, change, status, adminVars>>

\* Whatever the status of the space.
Restrict(s) ==
    /\ Idle
    /\ Exists(s)
    /\ access[s].visibility # "restricted"
    /\ SetAccess(s, [access[s] EXCEPT !.visibility = "restricted"])

\* Any policy will do: there is nothing to compare two policies by.
PolicyNarrow(s, p) ==
    /\ Idle
    /\ Administered(s)
    /\ SetAccess(s, [access[s] EXCEPT !.policy = p])

\* A title, or a name: no more than a revision.
UpdateMetadata(z) ==
    /\ Idle
    /\ z # Project => Administered(z)
    /\ Bump(z)
    /\ UNCHANGED <<artifactVars, bodyVars, linkVars, change, spaceVars, adminVars>>

-----------------------------------------------------------------------------
(* Prepared changes of access.                                             *)

\* item_set_digest: the contributions of a space, or of all of them.  The
\* digest of each is keyed and a redaction does not move it.
ItemSet(z) == {c \in Contributions : post[c].space \in IF z = Project THEN Spaces ELSE {z}}

Prepare(x, z, proposed) ==
    /\ Idle
    /\ change[x].state = "none"
    /\ change'  = [change EXCEPT ![x] =
                     [state |-> "prepared", scope |-> z, prior |-> access[z],
                      proposed |-> proposed, items |-> ItemSet(z)]]
    /\ current' = current \union {x}
    /\ UNCHANGED <<artifactVars, bodyVars, linkVars, spaceVars, adminVars>>

WidenPrepare(x, s, v, p) ==
    /\ Administered(s)
    /\ Prepare(x, s, [visibility |-> v, policy |-> p])

PapcPrepare(x, p) == Prepare(x, Project, [access[Project] EXCEPT !.policy = p])

Prepared(x) == change[x].state = "prepared"
Settle(x, state) == change' = [change EXCEPT ![x].state = state]

\* Mutant: the revision alone is compared.
RevisionOnly(x) == Idle /\ Prepared(x) /\ x \in current

\* The row has not moved and the item set is the one prepared over.
Confirmable(x) ==
    /\ Idle
    /\ Prepared(x)
    /\ x \in current
    /\ ItemSet(change[x].scope) = change[x].items

Confirm(x) ==
    /\ Confirmable(x)
    /\ access' = [access EXCEPT ![change[x].scope] = change[x].proposed]
    /\ Settle(x, "confirmed")
    /\ Bump(change[x].scope)
    /\ UNCHANGED <<artifactVars, bodyVars, linkVars, status, adminVars>>

WidenConfirm(x) == Prepared(x) /\ change[x].scope \in Spaces /\ Confirm(x)
PapcConfirm(x)  == Prepared(x) /\ change[x].scope = Project /\ Confirm(x)

Cancel(x) ==
    /\ Idle
    /\ Settle(x, "canceled")
    /\ UNCHANGED <<artifactVars, bodyVars, linkVars, current, spaceVars, adminVars>>

WidenCancel(x) == Prepared(x) /\ change[x].scope \in Spaces /\ Cancel(x)
PapcCancel(x)  == Prepared(x) /\ change[x].scope = Project /\ Cancel(x)

-----------------------------------------------------------------------------
(* Contributions, and what is said of them.                                *)

\* Mutant: an artifact may be cited before it is available.
AnyPart(a) == a # None => artifact[a] # "none"

\* validate_parts: an artifact part names an available artifact.
ValidParts(a) == a # None => artifact[a] = "available"

ContributionAppend(c, s, a, t) ==
    /\ Idle
    /\ post[c] = NoPost
    /\ Open(s)
    /\ ValidParts(a)
    /\ post'    = [post EXCEPT ![c] =
                     [state |-> "present", space |-> s, artifact |-> a, text |-> t]]
    /\ events'  = events \union {c}
    /\ results' = results \union {c}
    /\ Bump(s)
    /\ UNCHANGED <<artifactVars, disposed, linkVars, change, spaceVars, adminVars>>

Posted(c) == post[c] # NoPost

\* A withdrawal or a supersession, once each, in an open space.
Dispose(c, kind) ==
    /\ Idle
    /\ Posted(c)
    /\ Open(post[c].space)
    /\ <<c, kind>> \notin disposed
    /\ disposed' = disposed \union {<<c, kind>>}
    /\ Bump(post[c].space)
    /\ UNCHANGED <<artifactVars, post, events, results, linkVars, change, spaceVars,
                   adminVars>>

Withdraw(c) == Dispose(c, "withdraw")

Supersede(c, by) ==
    /\ by # c
    /\ Posted(by)
    /\ post[by].space = post[c].space
    /\ Dispose(c, "supersede")

Touch(s) ==
    /\ Bump(s)
    /\ UNCHANGED <<artifactVars, bodyVars, change, spaceVars, reaction, adminVars>>

RelationAssert(r, c, d) ==
    /\ Idle
    /\ relation[r] = Nowhere
    /\ Posted(c) /\ Posted(d)
    /\ post[c].space = post[d].space
    /\ Open(post[c].space)
    /\ relation' = [relation EXCEPT ![r] = [state |-> "asserted", space |-> post[c].space]]
    /\ Touch(post[c].space)

RelationRetract(r) ==
    /\ Idle
    /\ relation[r].state = "asserted"
    /\ Open(relation[r].space)
    /\ relation' = [relation EXCEPT ![r].state = "retracted"]
    /\ Touch(relation[r].space)

\* The upsert leaves the space's revision alone.
ReactionSet(c, state) ==
    /\ Idle
    /\ Posted(c)
    /\ Open(post[c].space)
    /\ reaction[c] # state
    /\ reaction' = [reaction EXCEPT ![c] = state]
    /\ UNCHANGED <<artifactVars, bodyVars, relation, changeVars, spaceVars, adminVars>>

-----------------------------------------------------------------------------
(* Redaction.                                                              *)

Cited(c) == IF post[c].artifact = None THEN {} ELSE {post[c].artifact}

\* In any space, once.  The transaction is open when the files are removed.
Redact(c) ==
    /\ Idle
    /\ post[c].state = "present"
    /\ EraseFiles(Cited(c))
    /\ job' = Job("redact", "commit", c)
    /\ UNCHANGED <<rowVars, pageVars, bodyVars, linkVars, changeVars, spaceVars, adminVars>>

\* scrub_retention_graph: the projections of this contribution, and its
\* literal wherever else it occurs.
Scrub(c) ==
    LET hit == {d \in Contributions : d = c \/ post[d].text = post[c].text}
    IN  events' = events \ hit /\ results' = results \ hit

RedactCommit ==
    LET c == job.of
    IN  /\ At("redact", "commit")
        /\ post'     = [post EXCEPT ![c].state = "redacted"]
        /\ EraseRows(Cited(c))
        /\ Scrub(c)
        /\ MarkPending
        /\ disposed' = disposed \union {<<c, "redact">>}
        /\ Bump(post[c].space)
        /\ Goto("vacuum")
        /\ UNCHANGED <<fileVars, linkVars, change, spaceVars, adminVars>>

\* A later statement fails and the transaction is rolled back.
RedactFails ==
    /\ At("redact", "commit")
    /\ Done
    /\ UNCHANGED <<rowVars, fileVars, pageVars, bodyVars, linkVars, changeVars, spaceVars,
                   adminVars>>

\* The command is sent again: answered from its record, then compacted.
RedactAgain(c) ==
    /\ Idle
    /\ post[c].state = "redacted"
    /\ job' = Job("redact", "vacuum", c)
    /\ UNCHANGED <<rowVars, fileVars, pageVars, bodyVars, linkVars, changeVars, spaceVars,
                   adminVars>>

-----------------------------------------------------------------------------
(* Participants, grants and lenses.                                        *)

SetMember(s, p, m) ==
    /\ Idle
    /\ Administered(s)
    /\ member' = [member EXCEPT ![s][p] = m]
    /\ UNCHANGED <<artifactVars, bodyVars, linkVars, changeVars, spaceVars, grant, lens>>

\* Once for a subject, even when it was removed.
ParticipantAdd(s, p, role) ==
    /\ member[s][p] = NoMember
    /\ SetMember(s, p, [state |-> "proposed", role |-> role, prepared |-> role])

\* The decision names the digest stored with the proposal.
ParticipantActivate(s, p, digest) ==
    /\ member[s][p].state = "proposed"
    /\ digest = member[s][p].prepared
    /\ SetMember(s, p, [member[s][p] EXCEPT !.state = "active"])

\* Between active and muted; the role of any that is not revoked.
ParticipantUpdate(s, p, state, role) ==
    LET m == member[s][p]
    IN  /\ m.state \in {"proposed", "active", "muted"}
        /\ state # m.state => {state, m.state} = {"active", "muted"}
        /\ SetMember(s, p, [m EXCEPT !.state = state, !.role = role])

ParticipantRemove(s, p) ==
    /\ member[s][p].state \notin {"none", "revoked"}
    /\ SetMember(s, p, [member[s][p] EXCEPT !.state = "revoked"])

GrantCreate(g, s) ==
    /\ Idle
    /\ Administered(s)
    /\ grant[g] = Nowhere
    /\ grant' = [grant EXCEPT ![g] = [state |-> "active", space |-> s]]
    /\ UNCHANGED <<artifactVars, bodyVars, linkVars, changeVars, spaceVars, member, lens>>

\* Whatever the status of the space.
GrantRevoke(g) ==
    /\ Idle
    /\ grant[g].state = "active"
    /\ grant' = [grant EXCEPT ![g].state = "revoked"]
    /\ UNCHANGED <<artifactVars, bodyVars, linkVars, changeVars, spaceVars, member, lens>>

SetLens(l, row) ==
    /\ Idle
    /\ lens' = [lens EXCEPT ![l] = row]
    /\ UNCHANGED <<artifactVars, bodyVars, linkVars, changeVars, spaceVars, member, grant>>

LensCreate(l, s, v) ==
    /\ lens[l] = Nowhere
    /\ Administered(s)
    /\ SetLens(l, [state |-> "active", space |-> s, visibility |-> v])

\* A revoked lens is updated, and revoked, like any other.
LensUpdate(l, v) ==
    /\ lens[l] # Nowhere
    /\ Administered(lens[l].space)
    /\ SetLens(l, [lens[l] EXCEPT !.visibility = v])

LensRevoke(l) ==
    /\ lens[l] # Nowhere
    /\ Administered(lens[l].space)
    /\ SetLens(l, [lens[l] EXCEPT !.state = "revoked"])

-----------------------------------------------------------------------------
Lifecycle ==
    \/ \E s \in Spaces, v \in Visibilities, p \in Policies : SpaceCreate(s, v, p)
    \/ \E s \in Spaces : Freeze(s) \/ Reopen(s) \/ Archive(s) \/ Restrict(s)
    \/ \E s \in Spaces, p \in Policies : PolicyNarrow(s, p)
    \/ \E z \in Scopes : UpdateMetadata(z)

PreparedChanges ==
    \/ \E x \in Changes, s \in Spaces, v \in Visibilities, p \in Policies :
            WidenPrepare(x, s, v, p)
    \/ \E x \in Changes, p \in Policies : PapcPrepare(x, p)
    \/ \E x \in Changes :
            WidenConfirm(x) \/ WidenCancel(x) \/ PapcConfirm(x) \/ PapcCancel(x)

Posting ==
    \/ \E c \in Contributions, s \in Spaces, a \in Artifacts \union {None}, t \in Texts :
            ContributionAppend(c, s, a, t)
    \/ \E c \in Contributions : Withdraw(c) \/ Redact(c) \/ RedactAgain(c)
    \/ \E c, d \in Contributions : Supersede(c, d)
    \/ RedactCommit
    \/ RedactFails
    \/ \E r \in Relations, c, d \in Contributions : RelationAssert(r, c, d)
    \/ \E r \in Relations : RelationRetract(r)
    \/ \E c \in Contributions, state \in {"set", "cleared"} : ReactionSet(c, state)

Administration ==
    \/ \E s \in Spaces, p \in Subjects, role \in Roles :
        \/ ParticipantAdd(s, p, role)
        \/ ParticipantActivate(s, p, role)
        \/ \E state \in {"proposed", "active", "muted"} : ParticipantUpdate(s, p, state, role)
    \/ \E s \in Spaces, p \in Subjects : ParticipantRemove(s, p)
    \/ \E g \in Grants : GrantRevoke(g) \/ \E s \in Spaces : GrantCreate(g, s)
    \/ \E l \in Lenses, v \in Visibilities :
            LensUpdate(l, v) \/ \E s \in Spaces : LensCreate(l, s, v)
    \/ \E l \in Lenses : LensRevoke(l)

\* The artifact pipeline does not touch the rows of a space.
Artifactual ==
    /\ Pipeline
    /\ UNCHANGED <<bodyVars, spaceVars, linkVars, changeVars, adminVars>>

ContentNext == Lifecycle \/ PreparedChanges \/ Posting \/ Administration \/ Artifactual

ContentSpec == ContentInit /\ [][ContentNext]_contentVars

-----------------------------------------------------------------------------
(* Types.                                                                  *)

JobRow ==
    [op : {"none", "down", "start", "finalize", "abort", "resend", "redact"},
     step : {"none", "read", "write", "rename", "decide", "tidy", "commit", "vacuum", "unmark",
             "sweep"},
     of : Artifacts \union Contributions \union {None}, seen : Contents \union {None}]
Post ==
    {NoPost} \union [state : {"present", "redacted"}, space : Spaces,
                     artifact : Artifacts \union {None}, text : Texts]
Change ==
    [state : {"none"}]
      \union [state : {"prepared", "confirmed", "canceled"}, scope : Scopes, prior : Access,
              proposed : Access, items : SUBSET Contributions]
Member ==
    [state : {"none", "proposed", "active", "muted", "revoked"}, role : Roles \union {None},
     prepared : Roles \union {None}]
Placed(states) == [state : states, space : Spaces]

ArtifactsTypeOK ==
    /\ upload   \in [Artifacts -> {"none"} \union Accepting \union Ended]
    /\ artifact \in [Artifacts -> {"none", "pending", "verifying", "available", "rejected",
                                   "unavailable", "erased"}]
    /\ secret   \in [Artifacts -> BOOLEAN]
    /\ declared \in [Artifacts -> Contents \union {None}]
    /\ observed \in [Artifacts -> Contents \union {None}]
    /\ address \in [Artifacts -> Contents \union {None}]
    /\ staging \in [Artifacts -> Contents \union {None}]
    /\ partial \in [Artifacts -> Contents \union {None}]
    /\ sealed \subseteq Artifacts \X Contents
    /\ pending \in BOOLEAN /\ residue \in BOOLEAN
    /\ stray \subseteq Artifacts /\ torn \subseteq Artifacts /\ stuck \subseteq Artifacts
    /\ job \in JobRow

\* Every variable keeps its shape, the running command its step.
ContentTypeOK ==
    /\ ArtifactsTypeOK
    /\ status \in [Spaces -> {"none", "open", "frozen", "archived"}]
    /\ access \in [Scopes -> Access]
    /\ post \in [Contributions -> Post]
    /\ disposed \subseteq Contributions \X {"withdraw", "supersede", "redact"}
    /\ events \subseteq Contributions /\ results \subseteq Contributions
    /\ relation \in [Relations -> {Nowhere} \union Placed({"asserted", "retracted"})]
    /\ reaction \in [Contributions -> {"none", "set", "cleared"}]
    /\ change \in [Changes -> Change]
    /\ current \subseteq Changes
    /\ member \in [Spaces -> [Subjects -> Member]]
    /\ grant \in [Grants -> {Nowhere} \union Placed({"active", "revoked"})]
    /\ lens \in [Lenses -> {Nowhere} \union
                  [state : {"active", "revoked"}, space : Spaces, visibility : Visibilities]]

-----------------------------------------------------------------------------
(* Properties.                                                             *)

\* Rows and files agree whenever no command is under way, whatever crashed
\* before: an available artifact is what was declared, sealed under its
\* address, until an erasure took its bytes; and no staging file outlives its
\* upload, unless the uploader wrote it afterwards or it could not be removed.
FilesFollowRows ==
    Idle => \A a \in Artifacts :
        /\ artifact[a] = "available" =>
              /\ address[a] = declared[a]
              /\ <<a, address[a]>> \in sealed \/ a \in torn
        /\ upload[a] \in Ended /\ staging[a] # None => a \in stray

\* Of a redacted contribution nothing is left in the rows once no command is
\* under way, no event and no receipt, and of the artifact it cites no secret
\* to verify a digest with and no half-sealed byte; a sealed one only where
\* the erasure could not remove the file.  Freed pages may still hold its
\* text when the compaction has failed, but then the mark stands by which the
\* next redaction or start compacts again; and no start gets to its sweep
\* before it has (contribution_redact, erase_artifact, Store::open).
RedactionLeavesNothing ==
    /\ Idle =>
        /\ \A c \in Contributions : post[c].state = "redacted" =>
            /\ c \notin events \union results
            /\ \A a \in Cited(c) :
                /\ artifact[a] = "erased"
                /\ ~secret[a]
                /\ <<a, observed[a]>> \in sealed => a \in stuck
                /\ partial[a] # observed[a]
        /\ residue => pending
    /\ At("start", "sweep") => ~residue

\* A change takes effect over exactly what it was prepared over: the items
\* its scope holds are those of its item set, and the access it replaces is
\* the one it recorded.  A contribution added in between, or a change of its
\* scope's own row, makes it stale; what is redacted or withdrawn in a space
\* moves neither the project's revision nor an item set, and does not make a
\* change of the whole project stale.
ConfirmedAsPrepared ==
    [][\A x \in Changes :
          Prepared(x) /\ change'[x].state = "confirmed" =>
            /\ ItemSet(change[x].scope) = change[x].items
            /\ access[change[x].scope] = change[x].prior
            /\ access'[change[x].scope] = change[x].proposed]_contentVars
==============================================================================
