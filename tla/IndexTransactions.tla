------------------------- MODULE IndexTransactions ------------------------
(***************************************************************************)
(* The index lifecycle at the grain of its SQL statements: indexers that   *)
(* build a run in one transaction and activate it in the next, and         *)
(* administrators that activate or roll back, interleaved over one         *)
(* PostgreSQL database in READ COMMITTED isolation.                        *)
(*                                                                         *)
(* Every worker keeps the uncommitted part of its transaction in tx[w]:    *)
(* the statuses it wrote, the rows it inserted or deleted.  Others see it  *)
(* at commit only, but feel its locks before:                              *)
(*   - owner is the advisory lock of a source, tried and never awaited;    *)
(*   - an inserted or deleted content row is locked until commit, and a    *)
(*     linked one is locked against deletion (the foreign key takes FOR    *)
(*     KEY SHARE): whoever needs the row waits.                            *)
(* PostgreSQL breaks a circular wait by cancelling one of its transactions.*)
(***************************************************************************)
EXTENDS Naturals

CONSTANTS
    Sources,    \* source profiles
    Runs,       \* index runs that may ever be built
    Contents,   \* distinct document contents, by content hash
    SourceOf,   \* the source profile of each run
    Snapshot,   \* the contents found in the commit of each run
    NoRun,      \* the null active_index_run_id
    Workers,    \* processes that run the index or administration commands
    NoWorker,   \* holder of a free lock
    NoSource,   \* source of an idle worker
    NoContent,  \* no content in hand
    Dangling,   \* a content id whose row is gone
    MaxCrashes  \* bound on the transactions that die

ASSUME SourceOfAssumption == SourceOf \in [Runs -> Sources]
ASSUME SnapshotAssumption == Snapshot \in [Runs -> SUBSET Contents]
ASSUME NullsAssumption ==
    /\ NoRun \notin Runs
    /\ NoWorker \notin Workers
    /\ NoSource \notin Sources
    /\ NoContent \notin Contents
    /\ Dangling \notin Contents \cup {NoContent}
ASSUME MaxCrashesAssumption == MaxCrashes \in Nat

VARIABLES
    status,         \* index_runs.status, committed
    failure,        \* why a run FAILED: "snapshot" or "conflict"
    pointer,        \* source_profiles.active_index_run_id, committed
    occurrences,    \* document_occurrences of each run, committed
    contents,       \* document_contents, committed
    owner,          \* transaction advisory lock of each source
    tx,             \* the transaction of each worker
    crashes         \* transactions that died so far

committed == <<status, failure, pointer, occurrences, contents>>
vars == <<committed, owner, tx, crashes>>

Generations == INSTANCE IndexGenerations

Statuses == Generations!Statuses \cup {"building"}
Unwritten == "unwritten"

(* Where a worker stands.                                                  *)
(*   build: between two files        link: content resolved, not yet linked*)
(*   built: READY committed, the activating transaction not yet begun      *)
(*   lock: pointer read, about to take the locks                           *)
(*   validate: rollback checks       archive, demote, promote: the flushes *)
(*   prune: between two batches      collect: inside one batch             *)
Stages == {"idle", "build", "link", "built", "lock", "validate", "archive",
           "demote", "promote", "prune", "collect", "commit"}

Transactions ==
    [stage : Stages,
     kind : {"none", "build", "activate", "rollback"},
     source : Sources \cup {NoSource},
     run : Runs \cup {NoRun},            \* the run built, or to become ACTIVE
     observed : Runs \cup {NoRun},       \* the pointer read before locking
     active : Runs \cup {NoRun},         \* the ACTIVE run found under the lock
     previous : Runs \cup {NoRun},       \* the PREVIOUS run found under the lock
     writes : [Runs -> Statuses \cup {Unwritten}],   \* statuses flushed
     todo : SUBSET Contents,             \* snapshot contents not yet upserted
     inserted : SUBSET Contents,         \* content rows inserted
     linked : SUBSET Contents,           \* contents the run's occurrences link
     cursor : Contents \cup {NoContent, Dangling},   \* the content id in hand
     candidates : SUBSET Contents,       \* contents of the pruned run to visit
     batch : SUBSET Contents,            \* rows the current DELETE selected
     deleted : SUBSET Contents]          \* content rows deleted

NoTransaction ==
    [stage |-> "idle", kind |-> "none", source |-> NoSource, run |-> NoRun,
     observed |-> NoRun, active |-> NoRun, previous |-> NoRun,
     writes |-> [r \in Runs |-> Unwritten], todo |-> {}, inserted |-> {},
     linked |-> {}, cursor |-> NoContent, candidates |-> {}, batch |-> {},
     deleted |-> {}]

(* Every worker has one transaction, every source one lock. *)
TypeOK ==
    /\ status \in [Runs -> Generations!Statuses]
    /\ failure \in [Runs -> {"none", "snapshot", "conflict"}]
    /\ pointer \in [Sources -> Runs \cup {NoRun}]
    /\ occurrences \in [Runs -> SUBSET Contents]
    /\ contents \in SUBSET Contents
    /\ owner \in [Sources -> Workers \cup {NoWorker}]
    /\ tx \in [Workers -> Transactions]
    /\ crashes \in 0..MaxCrashes

Init ==
    /\ Generations!Init
    /\ failure = [r \in Runs |-> "none"]
    /\ owner = [s \in Sources |-> NoWorker]
    /\ tx = [w \in Workers |-> NoTransaction]
    /\ crashes = 0

---------------------------------------------------------------------------
(* The statuses as worker w reads them: committed ones under its own writes. *)
View(w) ==
    [r \in Runs |-> IF tx[w].writes[r] = Unwritten THEN status[r]
                                                   ELSE tx[w].writes[r]]

(* Ending a transaction frees its advisory lock. *)
ReleaseLocks(w) ==
    owner' = [s \in Sources |-> IF owner[s] = w THEN NoWorker ELSE owner[s]]

(* A transaction that ends without effect. *)
EndWithoutEffect(w) ==
    /\ ReleaseLocks(w)
    /\ tx' = [tx EXCEPT ![w] = NoTransaction]
    /\ UNCHANGED committed

(* Whose uncommitted rows worker w may find in its way. *)
WaitsFor(w, v) ==
    /\ v # w
    /\ \/ /\ tx[w].stage = "build"
          /\ tx[w].todo \cap (tx[v].inserted \cup tx[v].deleted) # {}
       \/ /\ tx[w].stage = "link"
          /\ tx[w].cursor \in tx[v].deleted
       \/ /\ tx[w].stage = "collect"
          /\ (tx[w].batch \ tx[w].deleted) \cap (tx[v].linked \cup tx[v].deleted) # {}

(* Workers each of which waits for another one of them. *)
Stuck(group) == \A w \in group : \E v \in group : WaitsFor(w, v)

(* The workers on a smallest circular wait through w. *)
Deadlocked(w) ==
    \E group \in SUBSET Workers :
        /\ w \in group
        /\ Stuck(group)
        /\ \A smaller \in SUBSET group : Stuck(smaller) => smaller \in {{}, group}

---------------------------------------------------------------------------
(* Building a run: TransactionalIndexPipeline.index and IndexService.index. *)

(* The advisory lock is free and the run row is inserted as BUILDING.  A   *)
(* refusal (IndexingAlreadyInProgressError) changes nothing.               *)
BeginBuild(w, r) ==
    /\ tx[w].stage = "idle"
    /\ status[r] = "absent"
    /\ owner[SourceOf[r]] = NoWorker
    /\ owner' = [owner EXCEPT ![SourceOf[r]] = w]
    /\ tx' = [tx EXCEPT ![w] =
                 [NoTransaction EXCEPT
                     !.stage = "build", !.kind = "build", !.source = SourceOf[r],
                     !.run = r, !.writes[r] = "building", !.todo = Snapshot[r]]]
    /\ UNCHANGED <<committed, crashes>>

(* upsert_content: ON CONFLICT DO NOTHING waits for a row another          *)
(* transaction is inserting or deleting, and locks nothing it finds.  The  *)
(* SELECT of its id that follows is part of the step: what could come      *)
(* between the two is what can come after them.                            *)
UpsertContent(w, c) ==
    /\ tx[w].stage = "build"
    /\ c \in tx[w].todo
    /\ \A v \in Workers \ {w} : c \notin tx[v].inserted \cup tx[v].deleted
    /\ tx' = [tx EXCEPT ![w] =
                 [@ EXCEPT !.stage = "link",
                           !.cursor = c,
                           !.todo = tx[w].todo \ {c},
                           !.inserted = IF c \in contents THEN tx[w].inserted
                                        ELSE tx[w].inserted \cup {c}]]
    /\ UNCHANGED <<committed, owner, crashes>>

(* create_occurrence: the foreign key locks the content row, after waiting *)
(* for a transaction that is deleting it.                                  *)
CreateOccurrence(w) ==
    /\ tx[w].stage = "link"
    /\ tx[w].cursor \in Contents
    /\ \A v \in Workers \ {w} : tx[w].cursor \notin tx[v].deleted
    /\ tx' = [tx EXCEPT ![w] =
                 [@ EXCEPT !.stage = "build",
                           !.linked = tx[w].linked \cup {tx[w].cursor},
                           !.cursor = NoContent]]
    /\ UNCHANGED <<committed, owner, crashes>>

(* Mutant: mark_ready is forgotten, the run commits as BUILDING. *)
CommitBuilding(w) ==
    /\ tx[w].stage = "build"
    /\ tx[w].todo = {}
    /\ status' = View(w)
    /\ occurrences' = [occurrences EXCEPT ![tx[w].run] = tx[w].linked]
    /\ contents' = contents \cup tx[w].inserted
    /\ ReleaseLocks(w)
    /\ tx' = [tx EXCEPT ![w] = NoTransaction]
    /\ UNCHANGED <<failure, pointer, crashes>>

(* The build as READY: run, occurrences and contents commit together, and  *)
(* the workflow goes on to activate.                                       *)
CommitReady(w) ==
    /\ tx[w].stage = "build"
    /\ tx[w].todo = {}
    /\ status' = [status EXCEPT ![tx[w].run] = "ready"]
    /\ occurrences' = [occurrences EXCEPT ![tx[w].run] = tx[w].linked]
    /\ contents' = contents \cup tx[w].inserted
    /\ ReleaseLocks(w)
    /\ tx' = [tx EXCEPT ![w] = [NoTransaction EXCEPT !.stage = "built",
                                                     !.source = tx[w].source,
                                                     !.run = tx[w].run]]
    /\ UNCHANGED <<failure, pointer, crashes>>

(* Mutant: the failed run is recorded without rolling the savepoint back. *)
CommitFailedKeepingContents(w, cause) ==
    /\ status' = [status EXCEPT ![tx[w].run] = "failed"]
    /\ failure' = [failure EXCEPT ![tx[w].run] = cause]
    /\ contents' = contents \cup tx[w].inserted
    /\ ReleaseLocks(w)
    /\ tx' = [tx EXCEPT ![w] = NoTransaction]
    /\ UNCHANGED <<pointer, occurrences, crashes>>

(* The savepoint is rolled back, the run is marked FAILED and committed. *)
CommitFailed(w, cause) ==
    /\ status' = [status EXCEPT ![tx[w].run] = "failed"]
    /\ failure' = [failure EXCEPT ![tx[w].run] = cause]
    /\ ReleaseLocks(w)
    /\ tx' = [tx EXCEPT ![w] = NoTransaction]
    /\ UNCHANGED <<pointer, occurrences, contents, crashes>>

(* A file of the snapshot does not decode, parse, embed, or has bad metadata. *)
SnapshotFault(w) ==
    /\ tx[w].stage \in {"build", "link"}
    /\ Snapshot[tx[w].run] # {}
    /\ CommitFailed(w, "snapshot")

(* The content in hand was collected before it was linked: the foreign key *)
(* fails inside the savepoint.                                             *)
DanglingReference(w) ==
    /\ tx[w].stage = "link"
    /\ tx[w].cursor = Dangling
    /\ CommitFailed(w, "conflict")

---------------------------------------------------------------------------
(* Moving the pointer: ActivationService and PostgresActivationRepository. *)

(* The unlocked read at the head of _lock_source.  The index workflow      *)
(* activates the run it has just built, an administrator any stored run of *)
(* any source.                                                             *)
BeginActivation(w, s, r) ==
    /\ \/ tx[w].stage = "built" /\ tx[w].source = s /\ tx[w].run = r
       \/ tx[w].stage = "idle" /\ status[r] # "absent"
    /\ tx' = [tx EXCEPT ![w] =
                 [NoTransaction EXCEPT
                     !.stage = "lock", !.kind = "activate", !.source = s,
                     !.run = r, !.observed = pointer[s]]]
    /\ UNCHANGED <<committed, owner, crashes>>

BeginRollback(w, s) ==
    /\ tx[w].stage = "idle"
    /\ tx' = [tx EXCEPT ![w] =
                 [NoTransaction EXCEPT
                     !.stage = "lock", !.kind = "rollback", !.source = s,
                     !.observed = pointer[s]]]
    /\ UNCHANGED <<committed, owner, crashes>>

(* _unique_status_run: r is the only run of s with that status, or NoRun   *)
(* when there is none.                                                     *)
IsUniqueStatusRun(s, st, r) ==
    {q \in Runs : SourceOf[q] = s /\ status[q] = st} = {r} \ {NoRun}

(* Mutant: the switch does not try the advisory lock. *)
CanLockTaken(w, a, p) ==
    LET s == tx[w].source IN
    /\ pointer[s] = tx[w].observed
    /\ IsUniqueStatusRun(s, "active", a)
    /\ IsUniqueStatusRun(s, "previous", p)
    /\ pointer[s] = a
    /\ IF tx[w].kind = "activate"
       THEN status[tx[w].run] = "ready" /\ SourceOf[tx[w].run] = s
       ELSE a # NoRun /\ p # NoRun

(* _lock_source and what activate and prepare_rollback check under it, for *)
(* a the active and p the previous run.                                    *)
CanLock(w, a, p) ==
    LET s == tx[w].source IN
    /\ owner[s] = NoWorker
    /\ pointer[s] = tx[w].observed
    /\ IsUniqueStatusRun(s, "active", a)
    /\ IsUniqueStatusRun(s, "previous", p)
    /\ pointer[s] = a
    /\ CASE tx[w].kind = "activate" ->
                /\ status[tx[w].run] = "ready"
                /\ SourceOf[tx[w].run] = s
                /\ a = NoRun => p = NoRun
         [] tx[w].kind = "rollback" -> a # NoRun /\ p # NoRun

(* Mutant: the PREVIOUS run is not archived before the ACTIVE is demoted. *)
LockAndDemote(w, a, p) ==
    /\ tx[w].stage = "lock" /\ tx[w].kind = "activate"
    /\ CanLock(w, a, p)
    /\ owner' = [owner EXCEPT ![tx[w].source] = w]
    /\ tx' = [tx EXCEPT ![w] =
                 [@ EXCEPT !.stage = IF a # NoRun THEN "demote" ELSE "promote",
                           !.active = a,
                           !.previous = p]]
    /\ UNCHANGED <<committed, crashes>>

LockForActivation(w, a, p) ==
    /\ tx[w].stage = "lock" /\ tx[w].kind = "activate"
    /\ CanLock(w, a, p)
    /\ owner' = [owner EXCEPT ![tx[w].source] = w]
    /\ tx' = [tx EXCEPT ![w] =
                 [@ EXCEPT !.stage = CASE p # NoRun -> "archive"
                                       [] p = NoRun /\ a # NoRun -> "demote"
                                       [] OTHER -> "promote",
                           !.active = a,
                           !.previous = p]]
    /\ UNCHANGED <<committed, crashes>>

LockForRollback(w, a, p) ==
    /\ tx[w].stage = "lock" /\ tx[w].kind = "rollback"
    /\ CanLock(w, a, p)
    /\ owner' = [owner EXCEPT ![tx[w].source] = w]
    /\ tx' = [tx EXCEPT ![w] =
                 [@ EXCEPT !.stage = "validate",
                           !.active = a,
                           !.previous = p,
                           !.run = p]]
    /\ UNCHANGED <<committed, crashes>>

(* ActivationError: the lock is taken, the pointer moved, or the runs are  *)
(* not in the expected statuses.                                           *)
RefuseLock(w) ==
    /\ tx[w].stage = "lock"
    /\ \A p \in Runs \cup {NoRun} : ~ CanLock(w, tx[w].observed, p)
    /\ EndWithoutEffect(w)
    /\ UNCHANGED crashes

(* _assert_target_artifacts: every document of the target is still stored  *)
(* and linked.                                                             *)
ArtifactsComplete(r) ==
    occurrences[r] = Snapshot[r] /\ occurrences[r] \subseteq contents

ValidateTarget(w) ==
    /\ tx[w].stage = "validate"
    /\ ArtifactsComplete(tx[w].run)
    /\ tx' = [tx EXCEPT ![w] = [@ EXCEPT !.stage = "archive"]]
    /\ UNCHANGED <<committed, owner, crashes>>

(* Incomplete artifacts, or RollbackReadinessError: the running embedding  *)
(* provider is not the one the target was built with, or is not ready.     *)
RefuseRollback(w) ==
    /\ tx[w].stage = "validate"
    /\ EndWithoutEffect(w)
    /\ UNCHANGED crashes

(* First flush: the PREVIOUS run leaves its status.  An activation has     *)
(* read the contents it links, to visit them when it prunes.               *)
ArchivePrevious(w) ==
    /\ tx[w].stage = "archive"
    /\ tx' = [tx EXCEPT ![w] =
                 [@ EXCEPT !.stage = "demote",
                           !.writes[tx[w].previous] = "archived",
                           !.candidates = IF tx[w].kind = "activate"
                                          THEN occurrences[tx[w].previous]
                                          ELSE {}]]
    /\ UNCHANGED <<committed, owner, crashes>>

(* Second flush: the ACTIVE run becomes the PREVIOUS one. *)
DemoteActive(w) ==
    /\ tx[w].stage = "demote"
    /\ tx' = [tx EXCEPT ![w] =
                 [@ EXCEPT !.stage = "promote",
                           !.writes[tx[w].active] = "previous"]]
    /\ UNCHANGED <<committed, owner, crashes>>

(* Third flush: the target becomes ACTIVE and the pointer names it. *)
PromoteTarget(w) ==
    /\ tx[w].stage = "promote"
    /\ tx' = [tx EXCEPT ![w] =
                 [@ EXCEPT !.stage = IF tx[w].kind = "activate" /\ tx[w].previous # NoRun
                                     THEN "prune" ELSE "commit",
                           !.writes[tx[w].run] = "active"]]
    /\ UNCHANGED <<committed, owner, crashes>>

(* Mutant: the loop over the candidates does not advance. *)
SelectBatchAgain(w, some) ==
    /\ tx[w].stage = "prune"
    /\ some # {}
    /\ some \subseteq tx[w].candidates
    /\ tx' = [tx EXCEPT ![w] =
                 [@ EXCEPT !.stage = "collect",
                           !.batch =
                            {c \in (some \cap contents) \ tx[w].deleted :
                                \A r \in Runs \ {tx[w].previous} : c \notin occurrences[r]}]]
    /\ UNCHANGED <<committed, owner, crashes>>

(* Mutant: the contents are selected before the archived run's occurrences *)
(* are deleted.                                                            *)
SelectBatchStillLinked(w, some) ==
    /\ tx[w].stage = "prune"
    /\ some # {}
    /\ some \subseteq tx[w].candidates
    /\ tx' = [tx EXCEPT ![w] =
                 [@ EXCEPT !.stage = "collect",
                           !.candidates = tx[w].candidates \ some,
                           !.batch = {c \in some \cap contents :
                                          \A r \in Runs : c \notin occurrences[r]}]]
    /\ UNCHANGED <<committed, owner, crashes>>

(* _prune_archived_run: the archived run's occurrences are gone for this   *)
(* transaction; the snapshot of one batched DELETE selects the rows that   *)
(* no committed occurrence links.  The batch size is left open.            *)
SelectBatch(w, some) ==
    /\ tx[w].stage = "prune"
    /\ some # {}
    /\ some \subseteq tx[w].candidates
    /\ tx' = [tx EXCEPT ![w] =
                 [@ EXCEPT !.stage = "collect",
                           !.candidates = tx[w].candidates \ some,
                           !.batch =
                            {c \in some \cap contents :
                                \A r \in Runs \ {tx[w].previous} : c \notin occurrences[r]}]]
    /\ UNCHANGED <<committed, owner, crashes>>

(* The DELETE reaches one selected row, after waiting for a transaction    *)
(* whose occurrence holds it.  It does not look at the occurrences again.  *)
DeleteContent(w, c) ==
    /\ tx[w].stage = "collect"
    /\ c \in tx[w].batch \ tx[w].deleted
    /\ \A v \in Workers \ {w} : c \notin tx[v].linked \cup tx[v].deleted
    /\ tx' = [tx EXCEPT ![w] = [@ EXCEPT !.deleted = tx[w].deleted \cup {c}]]
    /\ UNCHANGED <<committed, owner, crashes>>

(* The foreign key with ON DELETE RESTRICT does, when the DELETE ends. *)
DeletedReferenced(w) ==
    \E c \in tx[w].batch : \E r \in Runs \ {tx[w].previous} : c \in occurrences[r]

EndBatch(w) ==
    /\ tx[w].stage = "collect"
    /\ tx[w].batch \subseteq tx[w].deleted
    /\ ~ DeletedReferenced(w)
    /\ tx' = [tx EXCEPT ![w] =
                 [@ EXCEPT !.stage = "prune",
                           !.batch = {}]]
    /\ UNCHANGED <<committed, owner, crashes>>

RestrictedDelete(w) ==
    /\ tx[w].stage = "collect"
    /\ tx[w].batch \subseteq tx[w].deleted
    /\ DeletedReferenced(w)
    /\ EndWithoutEffect(w)
    /\ UNCHANGED crashes

EndPrune(w) ==
    /\ tx[w].stage = "prune"
    /\ tx[w].candidates = {}
    /\ tx' = [tx EXCEPT ![w] = [@ EXCEPT !.stage = "commit"]]
    /\ UNCHANGED <<committed, owner, crashes>>

(* A content id resolved but not yet locked dangles once its row is gone:  *)
(* ids are random and never reused.                                        *)
Resolve(cursor, gone) == IF cursor \in gone THEN Dangling ELSE cursor

(* The switch commits, with everything it flushed and deleted.  Another    *)
(* DELETE that waits for a row which is gone skips it.                     *)
CommitSwitch(w) ==
    /\ tx[w].stage = "commit"
    /\ status' = View(w)
    /\ pointer' = [pointer EXCEPT ![tx[w].source] = tx[w].run]
    /\ occurrences' = IF tx[w].kind = "activate" /\ tx[w].previous # NoRun
                      THEN [occurrences EXCEPT ![tx[w].previous] = {}]
                      ELSE occurrences
    /\ contents' = contents \ tx[w].deleted
    /\ ReleaseLocks(w)
    /\ tx' = [v \in Workers |->
                 IF v = w THEN NoTransaction
                 ELSE [tx[v] EXCEPT !.cursor = Resolve(tx[v].cursor, tx[w].deleted),
                                    !.batch = tx[v].batch \ tx[w].deleted]]
    /\ UNCHANGED <<failure, crashes>>

---------------------------------------------------------------------------
(* What can end a transaction from outside. *)

(* PostgreSQL cancels a transaction of a circular wait.  A build fails     *)
(* inside its savepoint and is recorded as FAILED; a switch is lost.       *)
CancelDeadlock(w) ==
    /\ Deadlocked(w)
    /\ IF tx[w].kind = "build"
       THEN CommitFailed(w, "conflict")
       ELSE EndWithoutEffect(w) /\ UNCHANGED crashes

(* The process or its connection dies, or an exception outside the         *)
(* savepoint propagates: nothing of the open transaction remains.          *)
Crash(w) ==
    /\ tx[w].stage # "idle"
    /\ crashes < MaxCrashes
    /\ crashes' = crashes + 1
    /\ EndWithoutEffect(w)

---------------------------------------------------------------------------
(* The steps of a running command, as opposed to its start or its death. *)
BuildStep(w) ==
    \/ \E c \in Contents : UpsertContent(w, c)
    \/ CreateOccurrence(w)
    \/ DanglingReference(w)
    \/ CommitReady(w)
    \/ tx[w].stage = "built" /\ BeginActivation(w, tx[w].source, tx[w].run)

SwitchStep(w) ==
    \/ \E p \in Runs \cup {NoRun} : \/ LockForActivation(w, tx[w].observed, p)
                                   \/ LockForRollback(w, tx[w].observed, p)
    \/ RefuseLock(w)
    \/ ValidateTarget(w)
    \/ ArchivePrevious(w)
    \/ DemoteActive(w)
    \/ PromoteTarget(w)
    \/ \E some \in SUBSET Contents : SelectBatch(w, some)
    \/ \E c \in Contents : DeleteContent(w, c)
    \/ EndBatch(w)
    \/ RestrictedDelete(w)
    \/ EndPrune(w)
    \/ CommitSwitch(w)

Progress(w) == BuildStep(w) \/ SwitchStep(w) \/ CancelDeadlock(w)

Start(w) ==
    \/ \E r \in Runs : BeginBuild(w, r)
    \/ \E s \in Sources, r \in Runs :
           tx[w].stage = "idle" /\ BeginActivation(w, s, r)
    \/ \E s \in Sources : BeginRollback(w, s)

Next ==
    \E w \in Workers :
        Progress(w) \/ Start(w) \/ SnapshotFault(w) \/ RefuseRollback(w) \/ Crash(w)

(* A running command goes on executing; nobody has to start one.  Only row *)
(* locks are waited for, and PostgreSQL wakes their waiters in turn: hence *)
(* strong fairness.                                                        *)
Fairness == \A w \in Workers : SF_vars(Progress(w))

Spec == Init /\ [][Next]_vars /\ Fairness

---------------------------------------------------------------------------
(* The committed database behaves like IndexGenerations: whatever the      *)
(* interleaving, deadlocks and crashes, only whole builds and whole        *)
(* switches are ever seen.                                                 *)
ImplementsGenerations == Generations!Spec

(* The partial unique indexes on index_runs are checked at every flush and *)
(* cannot be deferred: the order of the flushes must never show two ACTIVE *)
(* or two PREVIOUS runs of a source to the transaction that writes them.   *)
FlushesRespectUniqueIndexes ==
    \A w \in Workers : \A r, q \in Runs :
        /\ SourceOf[r] = SourceOf[q]
        /\ View(w)[r] = View(w)[q]
        /\ View(w)[r] \in {"active", "previous"}
        => r = q

(* What a switch read under the lock is what it overwrites: while a worker *)
(* holds a source, no one else changes the pointer or a run of it.         *)
LockedSourceIsStable ==
    [][\A s \in Sources :
           owner[s] # NoWorker /\ owner'[s] = owner[s] =>
               /\ pointer'[s] = pointer[s]
               /\ \A r \in Runs : SourceOf[r] = s =>
                      status'[r] = status[r] /\ occurrences'[r] = occurrences[r]]_vars

(* Pruning leaves nothing behind: a stored content is linked by some run.  *)
NoOrphanContent ==
    \A c \in contents : \E r \in Runs : c \in occurrences[r]

(* The contents that a switch has looked at and does not delete.           *)
PassedOver(w) ==
    IF tx[w].stage \in {"prune", "collect", "commit"}
       /\ tx[w].kind = "activate" /\ tx[w].previous # NoRun
    THEN occurrences[tx[w].previous]
             \ (tx[w].candidates \cup tx[w].batch \cup tx[w].deleted)
    ELSE {}

LinksOf(c) == {r \in Runs : c \in occurrences[r]}

Orphans == {c \in contents : LinksOf(c) = {}}

(* The contents that an open switch leaves without a link by committing.   *)
Forsaken ==
    {c \in contents : \E w \in Workers : c \in PassedOver(w) /\ LinksOf(c) = {tx[w].previous}}

(* Pruning may leave a content behind only where two switches race: it     *)
(* becomes an orphan when it was forsaken, and is forsaken when two open   *)
(* switches have both passed over it, each for the link that the other is  *)
(* about to remove.  One switch, whatever is built, batched, cancelled or  *)
(* dies beside it, deletes all that only its archived run links.           *)
OrphansComeFromRaces ==
    [][/\ Orphans' \subseteq Orphans \cup Forsaken
       /\ \A c \in Forsaken' \ Forsaken :
              \E w, v \in Workers : w # v /\ c \in PassedOver(w) \cap PassedOver(v)]_vars

(* failure_code invariant_failure says that the artifacts violated their   *)
(* identity contract: a build that only met another transaction is not     *)
(* recorded as FAILED.                                                     *)
FailuresComeFromTheSnapshot ==
    \A r \in Runs : failure[r] # "conflict"

(* Every command ends, whoever else builds, switches, waits or dies: no    *)
(* lock is waited for for ever.                                            *)
CommandsEnd ==
    \A w \in Workers : tx[w].stage # "idle" ~> tx[w].stage = "idle"
===========================================================================
