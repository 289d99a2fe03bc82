------------------------------ MODULE Artifacts ------------------------------
(***************************************************************************)
(* The artifact pipeline of crates/kovee-artifacts/src/lib.rs: the rows of *)
(* artifacts and artifact_uploads beside the staging and sealed            *)
(* directories, which no SQL transaction covers, and the compaction of the *)
(* database file that ends an erasure (crates/kovee-store/src/lib.rs).     *)
(*                                                                         *)
(* An artifact has one upload.  The daemon holds the store's lock through  *)
(* a whole command, so commands do not interleave; `job` is the running    *)
(* command and the step it has come to, and a Crash may fall before any    *)
(* step.  The uploader writes its staging file whenever it likes.  A file   *)
(* may fail to go: every remove_file of the pipeline drops its error.      *)
(*                                                                         *)
(* The content of a file is a member of Contents.  A keyed address is the  *)
(* content it was computed from, under the artifact's own secret.          *)
(***************************************************************************)
EXTENDS Naturals, FiniteSets

CONSTANTS
    Artifacts,
    Contents,     \* what the uploader may write
    Oversized,    \* the contents longer than max_bytes
    None

ASSUME ContentAssumption == Oversized \subseteq Contents
ASSUME NoneAssumption ==
    /\ None \notin Artifacts
    /\ None \notin Contents

VARIABLES
    upload,      \* artifact_uploads.state
    artifact,    \* artifacts.state
    secret,      \* is object_secret not NULL?
    declared,    \* what declared_raw_commitment commits to
    observed,    \* artifact_verifications: what the verification saw
    address,     \* artifacts.content_digest_ref
    staging,     \* the upload's file in the staging directory
    partial,     \* its <upload_id>.tmp in the sealed directory
    sealed,      \* the sealed objects: pairs of an artifact and a content
    pending,     \* meta: erasure_compaction_pending
    residue,     \* do freed pages or WAL images still hold erased plaintext?
    job,         \* the running command
    stray,       \* auxiliary: staging files written after their upload ended, or
                 \* that could not be removed
    torn,        \* auxiliary: artifacts whose sealed object an erasure has removed
    stuck        \* auxiliary: ... could not remove

rowVars  == <<upload, artifact, secret, declared, observed, address>>
fileVars == <<staging, partial, sealed, stray, torn, stuck>>
pageVars == <<pending, residue>>
artifactVars == <<rowVars, fileVars, pageVars, job>>

Job(op, step, of) == [op |-> op, step |-> step, of |-> of, seen |-> None]
NoJob == Job("none", "none", None)
Off   == Job("down", "none", None)

Idle == job = NoJob
At(op, step) == job.op = op /\ job.step = step
Goto(step) == job' = [job EXCEPT !.step = step]
Done == job' = NoJob

Accepting == {"prepared", "sealing"}
Ended     == {"completed", "rejected", "aborted"}

ArtifactsInit ==
    /\ upload   = [a \in Artifacts |-> "none"]
    /\ artifact = [a \in Artifacts |-> "none"]
    /\ secret   = [a \in Artifacts |-> FALSE]
    /\ declared = [a \in Artifacts |-> None]
    /\ observed = [a \in Artifacts |-> None]
    /\ address  = [a \in Artifacts |-> None]
    /\ staging  = [a \in Artifacts |-> None]
    /\ partial  = [a \in Artifacts |-> None]
    /\ sealed   = {}
    /\ pending  = FALSE
    /\ residue  = FALSE
    /\ stray    = {}
    /\ torn     = {}
    /\ stuck    = {}
    /\ job      = Off

\* remove_file of the staging files of A, but for those that stay.
Removed(A) ==
    \E stays \in SUBSET {a \in A : staging[a] # None} :
        /\ staging' = [a \in Artifacts |-> IF a \in A \ stays THEN None ELSE staging[a]]
        /\ stray'   = (stray \ A) \union stays

-----------------------------------------------------------------------------
(* Uploads.                                                                *)

\* A fresh secret, and the commitment to the declared checksum under it.
UploadBegin(a, d) ==
    /\ Idle
    /\ upload[a] = "none"
    /\ upload'   = [upload EXCEPT ![a] = "prepared"]
    /\ artifact' = [artifact EXCEPT ![a] = "pending"]
    /\ secret'   = [secret EXCEPT ![a] = TRUE]
    /\ declared' = [declared EXCEPT ![a] = d]
    /\ UNCHANGED <<observed, address, fileVars, pageVars, job>>

\* The owner of the path a credential named: truncates, writes, removes.
UploaderWrites(a, d) ==
    /\ upload[a] # "none"
    /\ d # staging[a]
    /\ staging' = [staging EXCEPT ![a] = d]
    /\ stray'   = IF upload[a] \in Ended /\ d # None THEN stray \union {a} ELSE stray \ {a}
    /\ UNCHANGED <<rowVars, partial, sealed, torn, stuck, pageVars, job>>

\* The transaction that commits `sealing`; a retry finds it committed.
Finalize(a) ==
    /\ Idle
    /\ upload[a] \in Accepting
    /\ upload'   = [upload EXCEPT ![a] = "sealing"]
    /\ artifact' = IF upload[a] = "prepared" /\ artifact[a] = "pending"
                   THEN [artifact EXCEPT ![a] = "verifying"] ELSE artifact
    /\ job'      = Job("finalize", "read", a)
    /\ UNCHANGED <<secret, declared, observed, address, fileVars, pageVars>>

\* The sealed objects that verify under the artifact's secret.
FindSealed(a) == {d \in Contents : <<a, d>> \in sealed}

\* Staging first; without it, any sealed object found; too long is as gone.
Readable(a) ==
    LET found == IF staging[a] # None THEN {staging[a]} ELSE FindSealed(a)
    IN  IF found = {} THEN {None}
        ELSE {IF d \in Oversized THEN None ELSE d : d \in found}

\* An object sealed before a crash is not written again.
ReadBytes ==
    LET a == job.of
    IN  /\ At("finalize", "read")
        /\ IF secret[a]
           THEN \E d \in Readable(a) :
                    job' = [job EXCEPT !.seen = d,
                                       !.step = IF d = None \/ <<a, d>> \in sealed
                                                THEN "decide" ELSE "write"]
           ELSE Done
        /\ UNCHANGED <<rowVars, fileVars, pageVars>>

WriteSealed ==
    /\ At("finalize", "write")
    /\ partial' = [partial EXCEPT ![job.of] = job.seen]
    /\ Goto("rename")
    /\ UNCHANGED <<rowVars, staging, sealed, stray, torn, stuck, pageVars>>

RenameSealed ==
    /\ At("finalize", "rename")
    /\ partial' = [partial EXCEPT ![job.of] = None]
    /\ sealed'  = sealed \union {<<job.of, job.seen>>}
    /\ Goto("decide")
    /\ UNCHANGED <<rowVars, staging, stray, torn, stuck, pageVars>>

\* The final transaction.  It does not look at the artifact's state.
Decide ==
    LET a  == job.of
        ok == job.seen # None /\ job.seen = declared[a]
    IN  /\ At("finalize", "decide")
        /\ upload[a] = "sealing"
        /\ upload'   = [upload EXCEPT ![a] = IF ok THEN "completed" ELSE "rejected"]
        /\ artifact' = [artifact EXCEPT ![a] = IF ok THEN "available" ELSE "rejected"]
        /\ observed' = [observed EXCEPT ![a] = job.seen]
        /\ address'  = IF ok THEN [address EXCEPT ![a] = job.seen] ELSE address
        /\ Goto("tidy")
        /\ UNCHANGED <<secret, declared, fileVars, pageVars>>

Abort(a) ==
    /\ Idle
    /\ upload[a] \in Accepting
    /\ upload'   = [upload EXCEPT ![a] = "aborted"]
    /\ artifact' = IF artifact[a] \in {"pending", "verifying"}
                   THEN [artifact EXCEPT ![a] = "unavailable"] ELSE artifact
    /\ job'      = Job("abort", "tidy", a)
    /\ UNCHANGED <<secret, declared, observed, address, fileVars, pageVars>>

\* A finalize or an abort sent again is answered from its record; the
\* staging file goes all the same.
Resend(a) ==
    /\ Idle
    /\ upload[a] \in Ended
    /\ job' = Job("resend", "tidy", a)
    /\ UNCHANGED <<rowVars, fileVars, pageVars>>

Tidy ==
    /\ job.step = "tidy"
    /\ Removed({job.of})
    /\ Done
    /\ UNCHANGED <<rowVars, partial, sealed, torn, stuck, pageVars>>

-----------------------------------------------------------------------------
(* Erasure: the files go while the transaction is open, the rows when it   *)
(* commits.                                                                *)

Erasable(A) == {a \in A : artifact[a] # "erased"}

\* The sealed object goes, and the staging file; a sealed object that could
\* not be removed is as gone to the rows: nothing will look for it again.
EraseFiles(A) ==
    \E stays \in SUBSET {a \in Erasable(A) : <<a, address[a]>> \in sealed} :
        LET gone == Erasable(A) \ stays
        IN  /\ sealed' = sealed \ {<<a, address[a]>> : a \in gone}
            /\ torn'   = torn \union gone
            /\ stuck'  = (stuck \ gone) \union stays
            /\ Removed(Erasable(A))
            /\ UNCHANGED partial

EraseRows(A) ==
    LET gone == Erasable(A)
    IN  /\ artifact' = [a \in Artifacts |-> IF a \in gone THEN "erased" ELSE artifact[a]]
        /\ secret'   = [a \in Artifacts |-> secret[a] /\ a \notin gone]
        /\ declared' = [a \in Artifacts |-> IF a \in gone THEN None ELSE declared[a]]
        /\ address'  = [a \in Artifacts |-> IF a \in gone THEN None ELSE address[a]]
        /\ UNCHANGED <<upload, observed>>

\* mark_erasure_compaction_pending: rows deleted, their pages not rewritten.
MarkPending == pending' = TRUE /\ residue' = TRUE

\* compact_after_erasure returns its first error: a redaction is answered
\* with it and the daemon serves on; a start is over.
Fails == job' = IF job.op = "start" THEN Off ELSE NoJob

\* Mutant: a compaction that failed takes the mark away with it.
VacuumUnmarks ==
    /\ job.step = "vacuum"
    /\ \/ residue' = FALSE /\ Goto("unmark") /\ UNCHANGED pending
       \/ UNCHANGED residue /\ Fails /\ pending' = FALSE
    /\ UNCHANGED <<rowVars, fileVars>>

\* Checkpoint, VACUUM, checkpoint: the old pages go with the last of them, ...
Vacuum ==
    /\ job.step = "vacuum"
    /\ \/ residue' = FALSE /\ Goto("unmark")
       \/ UNCHANGED residue /\ Fails
    /\ UNCHANGED <<rowVars, fileVars, pending>>

\* ... and only then the mark, unless its deletion fails; the checkpoint after
\* it may fail too.
Unmark ==
    /\ job.step = "unmark"
    /\ \/ pending' = FALSE /\ IF job.op = "start" THEN Goto("sweep") ELSE Done
       \/ pending' \in {pending, FALSE} /\ Fails
    /\ UNCHANGED <<rowVars, fileVars, residue>>

-----------------------------------------------------------------------------
(* The daemon dies and starts.                                             *)

Crash ==
    /\ job # Off
    /\ job' = Off
    /\ UNCHANGED <<rowVars, fileVars, pageVars>>

Start ==
    /\ job = Off
    /\ job' = Job("start", IF pending THEN "vacuum" ELSE "sweep", None)
    /\ UNCHANGED <<rowVars, fileVars, pageVars>>

\* Mutant: only what was completed is swept.
SweepCompleted ==
    /\ At("start", "sweep")
    /\ Removed({a \in Artifacts : upload[a] = "completed"})
    /\ Done
    /\ UNCHANGED <<rowVars, partial, sealed, torn, stuck, pageVars>>

\* A staging file stays while its upload is still accepting or sealing.  The
\* daemon serves all the same when the sweep ends early.
SweepStaging ==
    /\ At("start", "sweep")
    /\ Removed({a \in Artifacts : upload[a] \notin Accepting})
    /\ Done
    /\ UNCHANGED <<rowVars, partial, sealed, torn, stuck, pageVars>>

Pipeline ==
    \/ \E a \in Artifacts, d \in Contents \ Oversized : UploadBegin(a, d)
    \/ \E a \in Artifacts, d \in Contents \union {None} : UploaderWrites(a, d)
    \/ \E a \in Artifacts : Finalize(a) \/ Abort(a) \/ Resend(a)
    \/ ReadBytes \/ WriteSealed \/ RenameSealed \/ Decide \/ Tidy
    \/ Vacuum \/ Unmark
    \/ Crash \/ Start \/ SweepStaging
==============================================================================
