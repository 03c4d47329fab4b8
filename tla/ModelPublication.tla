-------------------------- MODULE ModelPublication -------------------------
(***************************************************************************)
(* Preparation of the embedding model: prepare.py, prepare_lock.py and the *)
(* readers of manifest.py.  A preparation downloads a snapshot into a      *)
(* stage of its own, moves it to the coordinate its content names, and     *)
(* replaces the manifest that names the snapshot to load.  It keeps a hard *)
(* link to the manifest it replaces, and puts that back when a later step  *)
(* fails.                                                                  *)
(*                                                                         *)
(* A manifest is an inode and the content it names.  Only what a power     *)
(* loss may do to the two directories and to the snapshots is kept beside  *)
(* what processes see: the entries that may be found after it.  A killed   *)
(* process leaves temporary files behind, which nothing reads.             *)
(***************************************************************************)
EXTENDS Naturals, FiniteSets

CONSTANTS
    Preparers,      \* processes that run `model prepare`
    Readers,        \* threads that look for the prepared model
    Contents,       \* what a download can yield
    Nobody,         \* no preparer
    NoModel,        \* no content
    MaxPrepares, MaxReads, MaxFaults, MaxKills, MaxPowerLosses, MaxReplacements, MaxDamages

NullsAssumption == Nobody \notin Preparers /\ NoModel \notin Contents

VARIABLES
    manifest,   \* the manifest: its inode and the content it names
    survivors,  \* the manifests a power loss may leave
    snapshot,   \* what stands at the coordinate of each content
    onDisk,     \* what a power loss may leave there
    unsettled,  \* contents whose move to their coordinate was cut off before its fsync
    inodes,     \* inodes used so far
    lock,       \* who holds prepare.lock
    pc,         \* where each preparer stands
    content,    \* what it has downloaded
    previous,   \* the manifest it found: previous_identity, previous_content
    published,  \* the inode of the manifest it writes
    backup,     \* whether its hard link to that manifest exists
    failed,     \* whether an exception is on its way
    found,      \* what the manifest named when it took the lock, or has been put there since
    spoiled,    \* whether that may be lost: a step of Fragile failed, or a race was lost
    prepared,   \* some preparation has reported success
    reading,    \* the manifest each reader has open
    stands,     \* where each reader stands
    disturbed,  \* whether the inode it has open has changed (st_ctime_ns)
    expects,    \* whether a model had been prepared when it began
    used        \* how often each bounded event has happened

files == <<manifest, survivors, snapshot, onDisk, unsettled, inodes>>
prepare == <<content, previous, published, backup, found, spoiled>>
readers == <<reading, stands, disturbed, expects>>
vars == <<files, lock, pc, prepare, failed, prepared, readers, used>>

NoManifest == [inode |-> 0, names |-> NoModel]

Body == {"download", "compare", "settle", "pin", "backup", "replace"}
Recorded == {"synchronize", "revalidate", "commit", "final"}
Undoing == {"rollback", "undo", "recheck", "rewrite", "resync"}
(* The manifest is replaced and that is not recorded, or is being undone:  *)
(* a failure here is not rolled back.                                      *)
Fragile == {"reopen", "rollback", "undo", "recheck", "rewrite"}

(* What was read of the manifest decides that it is replaced next.         *)
Replacing == {"replace", "undo", "rewrite"}

Steps == {"idle", "reopen", "cleanup"} \cup Body \cup Recorded \cup Undoing

Limits == [prepare |-> MaxPrepares, read |-> MaxReads, fault |-> MaxFaults,
           kill |-> MaxKills, power |-> MaxPowerLosses,
           replacement |-> MaxReplacements, damage |-> MaxDamages]

(* A bounded event happens once more. *)
Spend(event) == used[event] < Limits[event] /\ used' = [used EXCEPT ![event] = @ + 1]

Manifests == [inode : Nat, names : Contents \cup {NoModel}]
States == {"absent", "intact", "damaged"}

(* Inodes, contents and program counters have their types, and a backup    *)
(* and an exception belong to the preparation that holds the lock.         *)
TypeOK ==
    /\ \A p \in Preparers : pc[p] # "idle" \/ backup[p] \/ failed[p] => lock = p
    /\ manifest \in Manifests /\ survivors \subseteq Manifests
    /\ snapshot \in [Contents -> States] /\ onDisk \in [Contents -> SUBSET States]
    /\ unsettled \subseteq Contents /\ inodes \in Nat
    /\ lock \in Preparers \cup {Nobody}
    /\ pc \in [Preparers -> Steps]
    /\ content \in [Preparers -> Contents \cup {NoModel}]
    /\ previous \in [Preparers -> Manifests] /\ published \in [Preparers -> Nat]
    /\ backup \in [Preparers -> BOOLEAN] /\ failed \in [Preparers -> BOOLEAN]
    /\ found \in [Preparers -> Contents \cup {NoModel}]
    /\ spoiled \in [Preparers -> BOOLEAN]
    /\ prepared \in BOOLEAN
    /\ reading \in [Readers -> Manifests]
    /\ stands \in [Readers -> {"idle", "read", "hash", "found", "missed"}]
    /\ disturbed \in [Readers -> BOOLEAN] /\ expects \in [Readers -> BOOLEAN]
    /\ used \in [DOMAIN Limits -> Nat]

Init ==
    /\ manifest = NoManifest /\ survivors = {NoManifest}
    /\ snapshot = [c \in Contents |-> "absent"]
    /\ onDisk = [c \in Contents |-> {"absent"}]
    /\ unsettled = {} /\ inodes = 0
    /\ lock = Nobody
    /\ pc = [p \in Preparers |-> "idle"]
    /\ content = [p \in Preparers |-> NoModel]
    /\ previous = [p \in Preparers |-> NoManifest]
    /\ published = [p \in Preparers |-> 0]
    /\ backup = [p \in Preparers |-> FALSE]
    /\ failed = [p \in Preparers |-> FALSE]
    /\ found = [p \in Preparers |-> NoModel]
    /\ spoiled = [p \in Preparers |-> FALSE]
    /\ prepared = FALSE
    /\ reading = [r \in Readers |-> NoManifest]
    /\ stands = [r \in Readers |-> "idle"]
    /\ disturbed = [r \in Readers |-> FALSE]
    /\ expects = [r \in Readers |-> FALSE]
    /\ used = [event \in DOMAIN Limits |-> 0]

---------------------------------------------------------------------------
(* Files.  A directory operation is seen at once and survives a power loss *)
(* when the directory has been synchronized.                               *)

Goto(p, step) == pc' = [pc EXCEPT ![p] = step]

(* The process of each of these preparations is over. *)
Forget(ps) ==
    /\ pc' = [p \in Preparers |-> IF p \in ps THEN "idle" ELSE pc[p]]
    /\ content' = [p \in Preparers |-> IF p \in ps THEN NoModel ELSE content[p]]
    /\ previous' = [p \in Preparers |-> IF p \in ps THEN NoManifest ELSE previous[p]]
    /\ published' = [p \in Preparers |-> IF p \in ps THEN 0 ELSE published[p]]
    /\ backup' = [p \in Preparers |-> IF p \in ps THEN FALSE ELSE backup[p]]
    /\ found' = [p \in Preparers |-> IF p \in ps THEN NoModel ELSE found[p]]
    /\ spoiled' = [p \in Preparers |-> IF p \in ps THEN FALSE ELSE spoiled[p]]
    /\ failed' = [p \in Preparers |-> IF p \in ps THEN FALSE ELSE failed[p]]

(* The links of these inodes change, and with them their st_ctime_ns. *)
Touch(ids) ==
    disturbed' = [r \in Readers |->
        disturbed[r] \/ (stands[r] = "read" /\ reading[r].inode \in ids)]

(* os.replace of the manifest, or its removal. *)
PutManifest(entry) ==
    /\ manifest' = entry
    /\ survivors' = survivors \cup {entry}

FsyncManifest == survivors' = {manifest}

---------------------------------------------------------------------------
(* prepare_embedding_model                                                 *)

(* Mutant: a lock that somebody holds is taken. *)
TakeLockAnyway(p) ==
    /\ pc[p] = "idle"
    /\ Spend("prepare")
    /\ lock' = p
    /\ Goto(p, "download")
    /\ found' = [found EXCEPT ![p] = manifest.names]
    /\ UNCHANGED <<files, content, previous, published, backup, spoiled, failed,
                   prepared, readers>>

TakeLock(p) ==
    /\ pc[p] = "idle"
    /\ Spend("prepare")
    /\ lock = Nobody
    /\ lock' = p
    /\ Goto(p, "download")
    /\ found' = [found EXCEPT ![p] = manifest.names]
    /\ UNCHANGED <<files, content, previous, published, backup, spoiled, failed,
                   prepared, readers>>

(* LOCK_NB: the preparation fails at once. *)
RefuseLock(p) ==
    /\ pc[p] = "idle"
    /\ Spend("prepare")
    /\ lock # Nobody
    /\ UNCHANGED <<files, lock, pc, prepare, failed, prepared, readers>>

(* The download, and the hashes that give it its coordinate. *)
Download(p) ==
    /\ pc[p] = "download"
    /\ \E c \in Contents : content' = [content EXCEPT ![p] = c]
    /\ Goto(p, "compare")
    /\ UNCHANGED <<files, lock, previous, published, backup, found, spoiled, failed,
                   prepared, readers, used>>

MoveStage(p) ==
    LET c == content[p] IN
    /\ pc[p] = "compare"
    /\ snapshot[c] = "absent"
    /\ snapshot' = [snapshot EXCEPT ![c] = "intact"]
    /\ onDisk' = [onDisk EXCEPT ![c] = @ \cup {"intact", "damaged"}]
    /\ Goto(p, "settle")
    /\ UNCHANGED <<manifest, survivors, unsettled, inodes, lock, prepare, failed,
                   prepared, readers, used>>

(* The snapshot is there already: it must be the one downloaded. *)
ReuseSnapshot(p) ==
    /\ pc[p] = "compare"
    /\ snapshot[content[p]] = "intact"
    /\ Goto(p, "pin")
    /\ UNCHANGED <<files, lock, prepare, failed, prepared, readers, used>>

(* Mutant: the directories of the snapshot are not synchronized. *)
SettleNothing(p) ==
    /\ pc[p] = "settle"
    /\ Goto(p, "pin")
    /\ UNCHANGED <<files, lock, prepare, failed, prepared, readers, used>>

(* Both directories of the rename are synchronized; the files are not. *)
SettleSnapshot(p) ==
    /\ pc[p] = "settle"
    /\ onDisk' = [onDisk EXCEPT ![content[p]] = @ \ {"absent"}]
    /\ Goto(p, "pin")
    /\ UNCHANGED <<manifest, survivors, snapshot, unsettled, inodes, lock, prepare,
                   failed, prepared, readers, used>>

Pin(p) ==
    /\ pc[p] = "pin"
    /\ snapshot[content[p]] = "intact"
    /\ Goto(p, "backup")
    /\ UNCHANGED <<files, lock, prepare, failed, prepared, readers, used>>

---------------------------------------------------------------------------
(* _atomic_publish.  The temporary manifest is written and synchronized    *)
(* before the manifest in place is linked and read.                        *)

KeepPrevious(p) ==
    /\ pc[p] = "backup"
    /\ previous' = [previous EXCEPT ![p] = manifest]
    /\ backup' = [backup EXCEPT ![p] = manifest # NoManifest]
    /\ FsyncManifest
    /\ Touch({manifest.inode})
    /\ Goto(p, "replace")
    /\ UNCHANGED <<manifest, snapshot, onDisk, unsettled, inodes, lock, content,
                   published, found, spoiled, failed, prepared, reading, stands,
                   expects, used>>

(* The check before sees that the coordinate holds a directory that is not *)
(* the pinned one, not that the files in it have changed.                  *)
ReplaceManifest(p) ==
    /\ pc[p] = "replace"
    /\ inodes' = inodes + 1
    /\ published' = [published EXCEPT ![p] = inodes + 1]
    /\ PutManifest([inode |-> inodes + 1, names |-> content[p]])
    /\ Touch({manifest.inode})
    /\ Goto(p, "reopen")
    /\ UNCHANGED <<snapshot, onDisk, unsettled, lock, content, previous, backup, found,
                   spoiled, failed, prepared, reading, stands, expects, used>>

OwnsManifest(p) == manifest.inode = published[p]

(* The manifest is opened again; the publication is recorded when it is    *)
(* the file just written.                                                  *)
RecordPublication(p) ==
    /\ pc[p] = "reopen"
    /\ OwnsManifest(p)
    /\ Goto(p, "synchronize")
    /\ UNCHANGED <<files, lock, prepare, failed, prepared, readers, used>>

SynchronizeManifest(p) ==
    /\ pc[p] = "synchronize"
    /\ FsyncManifest
    /\ Goto(p, "revalidate")
    /\ UNCHANGED <<manifest, snapshot, onDisk, unsettled, inodes, lock, prepare, failed,
                   prepared, readers, used>>

Revalidate(p) ==
    /\ pc[p] = "revalidate"
    /\ Goto(p, "commit")
    /\ UNCHANGED <<files, lock, prepare, failed, prepared, readers, used>>

RemoveBackup(p) ==
    /\ pc[p] = "commit"
    /\ backup' = [backup EXCEPT ![p] = FALSE]
    /\ IF backup[p]
       THEN Touch({previous[p].inode}) /\ FsyncManifest
       ELSE UNCHANGED <<disturbed, survivors>>
    /\ Goto(p, "final")
    /\ UNCHANGED <<manifest, snapshot, onDisk, unsettled, inodes, lock, content,
                   previous, published, found, spoiled, failed, prepared, reading,
                   stands, expects, used>>

(* The manifest is read back and the pinned snapshot hashed once more. *)
ReportPrepared(p) ==
    /\ pc[p] = "final"
    /\ manifest.names = content[p]
    /\ snapshot[content[p]] = "intact"
    /\ prepared' = TRUE
    /\ Goto(p, "cleanup")
    /\ UNCHANGED <<files, lock, prepare, failed, readers, used>>

---------------------------------------------------------------------------
(* Failure                                                                 *)

(* The finally clauses that catch an exception raised at this step: with a *)
(* publication recorded the first of them rolls it back; whatever a        *)
(* rollback raises is dropped.                                             *)
Handler(step) == IF step \in Recorded THEN "rollback" ELSE "cleanup"

Fail(p) ==
    /\ failed' = [failed EXCEPT ![p] = TRUE]
    /\ Goto(p, Handler(pc[p]))

(* A snapshot that was moved may stay without its fsync. *)
CutOff(p) ==
    unsettled' = IF pc[p] = "settle" THEN unsettled \cup {content[p]} ELSE unsettled

(* An operation of the step raises, or a control-flow exception arrives. *)
Fault(p) ==
    /\ pc[p] \notin {"idle", "cleanup"}
    /\ Spend("fault")
    /\ CutOff(p)
    /\ spoiled' = [spoiled EXCEPT ![p] = @ \/ pc[p] \in Fragile]
    /\ Fail(p)
    /\ UNCHANGED <<manifest, survivors, snapshot, onDisk, inodes, lock, content,
                   previous, published, backup, found, prepared, readers>>

(* A check of the snapshot or of the manifest fails. *)
RefuseSnapshot(p) ==
    /\ \/ pc[p] \in {"compare", "pin", "replace", "revalidate", "final"}
          /\ snapshot[content[p]] = "damaged"
       \/ pc[p] = "pin" /\ snapshot[content[p]] = "absent"
       \/ pc[p] = "reopen" /\ ~ OwnsManifest(p)
       \/ pc[p] = "final" /\ manifest.names # content[p]
    /\ Fail(p)
    /\ UNCHANGED <<files, lock, prepare, prepared, readers, used>>

(* _ManifestPublication.rollback: a manifest that is not the published one *)
(* is left alone.                                                          *)
BeginRollback(p) ==
    /\ pc[p] = "rollback"
    /\ Goto(p, IF ~ OwnsManifest(p) THEN "cleanup"
               ELSE IF previous[p] # NoManifest /\ ~ backup[p] THEN "recheck" ELSE "undo")
    /\ UNCHANGED <<files, lock, prepare, failed, prepared, readers, used>>

(* Mutant: what was published is removed, whatever was there before. *)
UnlinkManifest(p) ==
    /\ pc[p] = "undo"
    /\ PutManifest(NoManifest)
    /\ Touch({manifest.inode})
    /\ Goto(p, "resync")
    /\ UNCHANGED <<snapshot, onDisk, unsettled, inodes, lock, prepare, failed, prepared,
                   reading, stands, expects, used>>

(* The backup becomes the manifest again; there being none, the manifest   *)
(* is removed.                                                             *)
PutBack(p) ==
    /\ pc[p] = "undo"
    /\ PutManifest(previous[p])
    /\ Touch({manifest.inode, previous[p].inode})
    /\ backup' = [backup EXCEPT ![p] = FALSE]
    /\ Goto(p, "resync")
    /\ UNCHANGED <<snapshot, onDisk, unsettled, inodes, lock, content, previous,
                   published, found, spoiled, failed, prepared, reading, stands,
                   expects, used>>

(* Mutant: with the backup gone there is nothing to restore. *)
RewriteNothing(p) ==
    /\ pc[p] = "rewrite"
    /\ Goto(p, "cleanup")
    /\ UNCHANGED <<files, lock, prepare, failed, prepared, readers, used>>

(* _restore_owned_manifest: the backup is gone, its bytes are written to a *)
(* new file and the directory is synchronized; the file replaces the       *)
(* manifest if that is still the published.                                *)
RecheckManifest(p) ==
    /\ pc[p] = "recheck"
    /\ FsyncManifest
    /\ Goto(p, IF OwnsManifest(p) THEN "rewrite" ELSE "cleanup")
    /\ UNCHANGED <<manifest, snapshot, onDisk, unsettled, inodes, lock, prepare, failed,
                   prepared, readers, used>>

RewritePrevious(p) ==
    /\ pc[p] = "rewrite"
    /\ inodes' = inodes + 1
    /\ PutManifest([inode |-> inodes + 1, names |-> previous[p].names])
    /\ Touch({manifest.inode})
    /\ Goto(p, "resync")
    /\ UNCHANGED <<snapshot, onDisk, unsettled, lock, prepare, failed, prepared,
                   reading, stands, expects, used>>

Resynchronize(p) ==
    /\ pc[p] = "resync"
    /\ FsyncManifest
    /\ Goto(p, "cleanup")
    /\ UNCHANGED <<manifest, snapshot, onDisk, unsettled, inodes, lock, prepare, failed,
                   prepared, readers, used>>

(* Mutant: a failed preparation keeps the descriptor of the lock. *)
CleanUpPrepared(p) ==
    /\ pc[p] = "cleanup"
    /\ Forget({p})
    /\ IF backup[p] THEN Touch({previous[p].inode}) ELSE UNCHANGED disturbed
    /\ lock' = IF failed[p] THEN lock ELSE Nobody
    /\ UNCHANGED <<files, prepared, reading, stands, expects, used>>

(* Temporary files and the stage are removed, the descriptor of the lock   *)
(* is closed.                                                              *)
CleanUp(p) ==
    /\ pc[p] = "cleanup"
    /\ Forget({p})
    /\ IF backup[p] THEN Touch({previous[p].inode}) ELSE UNCHANGED disturbed
    /\ lock' = Nobody
    /\ UNCHANGED <<files, prepared, reading, stands, expects, used>>

---------------------------------------------------------------------------
(* verified_model_snapshot                                                 *)

Answer(r, answer) == stands' = [stands EXCEPT ![r] = answer]

OpenManifest(r) ==
    /\ stands[r] \in {"idle", "found", "missed"}
    /\ Spend("read")
    /\ reading' = [reading EXCEPT ![r] = manifest]
    /\ disturbed' = [disturbed EXCEPT ![r] = FALSE]
    /\ expects' = [expects EXCEPT ![r] = prepared]
    /\ Answer(r, IF manifest = NoManifest THEN "missed" ELSE "read")
    /\ UNCHANGED <<files, lock, pc, prepare, failed, prepared>>

(* A change within one tick of the clock of the file system goes unseen. *)
ReadManifest(r) ==
    /\ stands[r] = "read"
    /\ Answer(r, "hash")
    /\ UNCHANGED <<files, lock, pc, prepare, failed, prepared, reading, disturbed,
                   expects, used>>

RefuseRead(r) ==
    /\ stands[r] = "read"
    /\ disturbed[r]
    /\ Answer(r, "missed")
    /\ UNCHANGED <<files, lock, pc, prepare, failed, prepared, reading, disturbed,
                   expects, used>>

HashSnapshot(r) ==
    /\ stands[r] = "hash"
    /\ Answer(r, IF snapshot[reading[r].names] = "intact" THEN "found" ELSE "missed")
    /\ UNCHANGED <<files, lock, pc, prepare, failed, prepared, reading, disturbed,
                   expects, used>>

---------------------------------------------------------------------------
(* The environment                                                         *)

(* The process dies; the kernel closes its descriptors. *)
Kill(p) ==
    /\ pc[p] # "idle"
    /\ Spend("kill")
    /\ CutOff(p)
    /\ Forget({p})
    /\ lock' = Nobody
    /\ UNCHANGED <<manifest, survivors, snapshot, onDisk, inodes, prepared, readers>>

LosePower ==
    /\ Spend("power")
    /\ manifest' \in survivors
    /\ survivors' = {manifest'}
    /\ snapshot' \in {s \in [Contents -> States] : \A c \in Contents : s[c] \in onDisk[c]}
    /\ onDisk' = [c \in Contents |-> {snapshot'[c]}]
    /\ lock' = Nobody
    /\ Forget(Preparers)
    /\ stands' = [r \in Readers |-> "idle"]
    /\ UNCHANGED <<unsettled, inodes, prepared, reading, disturbed, expects>>

(* The kernel writes the files of a snapshot to the disk. *)
WriteBack(c) ==
    /\ snapshot[c] \in onDisk[c]
    /\ "absent" \notin onDisk[c]
    /\ onDisk[c] # {snapshot[c]}
    /\ onDisk' = [onDisk EXCEPT ![c] = {snapshot[c]}]
    /\ UNCHANGED <<manifest, survivors, snapshot, unsettled, inodes, lock, pc, prepare,
                   failed, prepared, readers, used>>

(* Somebody puts a manifest of a snapshot that is there in place. *)
ReplaceByHand(c) ==
    /\ Spend("replacement")
    /\ snapshot[c] = "intact" /\ onDisk[c] = {"intact"}
    /\ inodes' = inodes + 1
    /\ PutManifest([inode |-> inodes + 1, names |-> c])
    /\ Touch({manifest.inode})
    /\ found' = [p \in Preparers |-> IF pc[p] = "idle" THEN found[p] ELSE c]
    /\ spoiled' = [p \in Preparers |-> spoiled[p] \/ pc[p] \in Replacing]
    /\ UNCHANGED <<snapshot, onDisk, unsettled, lock, pc, content, previous, published,
                   backup, failed, prepared, reading, stands, expects>>

(* The files of a snapshot are altered. *)
Damage(c) ==
    /\ Spend("damage")
    /\ snapshot[c] = "intact"
    /\ snapshot' = [snapshot EXCEPT ![c] = "damaged"]
    /\ onDisk' = [onDisk EXCEPT ![c] = @ \cup {"damaged"}]
    /\ UNCHANGED <<manifest, survivors, unsettled, inodes, lock, pc, prepare, failed,
                   prepared, readers>>

---------------------------------------------------------------------------
Prepare(p) ==
    \/ Download(p) \/ MoveStage(p) \/ ReuseSnapshot(p) \/ SettleSnapshot(p) \/ Pin(p)
    \/ KeepPrevious(p) \/ ReplaceManifest(p) \/ RecordPublication(p) \/ SynchronizeManifest(p)
    \/ Revalidate(p) \/ RemoveBackup(p) \/ ReportPrepared(p) \/ RefuseSnapshot(p)
    \/ BeginRollback(p) \/ PutBack(p) \/ RecheckManifest(p) \/ RewritePrevious(p)
    \/ Resynchronize(p) \/ CleanUp(p)

Read(r) == OpenManifest(r) \/ ReadManifest(r) \/ RefuseRead(r) \/ HashSnapshot(r)

Next ==
    \/ \E p \in Preparers : TakeLock(p) \/ RefuseLock(p) \/ Prepare(p) \/ Fault(p) \/ Kill(p)
    \/ \E r \in Readers : Read(r)
    \/ \E c \in Contents : WriteBack(c) \/ ReplaceByHand(c) \/ Damage(c)
    \/ LosePower

(* A running preparation is scheduled; its download ends. *)
Fairness == \A p \in Preparers : WF_vars(Prepare(p))

Spec == Init /\ [][Next]_vars /\ Fairness

---------------------------------------------------------------------------
(* The publication of the process that holds the lock, as PublishedModel   *)
(* sees it.                                                                *)
PhaseOf(step) ==
    CASE step = "backup" -> "verified"
      [] step = "replace" -> "observed"
      [] step \in {"reopen"} \cup Recorded \cup Undoing -> "published"
      [] OTHER -> "none"

Phase == IF lock = Nobody THEN "none" ELSE PhaseOf(pc[lock])

Verified == IF Phase = "none" THEN NoModel ELSE content[lock]
Prior == IF Phase \in {"observed", "published"} THEN previous[lock].names ELSE NoModel
Durable == {entry.names : entry \in survivors}
Intact == {c \in Contents : snapshot[c] = "intact"}

Model == INSTANCE PublishedModel WITH
    current <- manifest.names,
    durable <- Durable,
    intact <- Intact,
    phase <- Phase,
    verified <- Verified,
    prior <- Prior,
    replacements <- used["replacement"],
    prepared <- prepared

(* Preparations implement PublishedModel: apart from what somebody else    *)
(* puts there, what is published changes as a whole and only by a content  *)
(* that this preparation has verified or back to what it found, and        *)
(* success is reported only of what it verified, is published undamaged    *)
(* and survives a power loss, under any fault, kill and replacement.       *)
ImplementsPublishedModel == Model!Spec

(* Once a preparation has reported success a manifest is there for ever,   *)
(* whatever later preparations, faults, kills and power losses do.         *)
PreparedStays == Model!PreparedStays

(* The manifest names a snapshot that is there, and so does every manifest *)
(* a power loss may bring back, unless the move of that snapshot was once  *)
(* cut off: a later preparation takes what it finds there for settled.     *)
ManifestNamesSnapshot ==
    \A entry \in survivors \cup {manifest} :
        \/ entry = NoManifest \/ entry.names \in unsettled
        \/ "absent" \notin onDisk[entry.names] \cup {snapshot[entry.names]}

(* A reader that began after a preparation succeeded misses the model only *)
(* when its snapshot is damaged or lost, or the manifest changed while it  *)
(* was read.                                                               *)
MissHasCause ==
    \A r \in Readers :
        stands[r] = "missed" /\ expects[r] =>
            \/ disturbed[r] \/ reading[r].names \in unsettled
            \/ \E c \in Contents : reading[r].names = c /\ snapshot[c] = "damaged"

(* What has been prepared can be loaded, unless it is damaged or replaced  *)
(* in the meantime (manifest.py: verified_model_snapshot).                 *)
PreparedIsLoadable == ManifestNamesSnapshot /\ MissHasCause

(* test_model_prepare.py, test_failure_preserves_an_existing_valid_manifest: *)
(* a preparation that fails leaves the manifest naming what it named, or   *)
(* what somebody has put there meanwhile, unless that is spoiled.          *)
FailureRestores ==
    \A p \in Preparers :
        pc[p] = "cleanup" /\ failed[p] /\ ~spoiled[p] => manifest.names = found[p]

(* The lock is let go, whatever happens to the preparation that holds it.  *)
LockIsFreed == lock # Nobody ~> lock = Nobody
===========================================================================
