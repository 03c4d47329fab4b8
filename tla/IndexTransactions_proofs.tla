---------------------- MODULE IndexTransactions_proofs --------------------
(***************************************************************************)
(* The statement-level lifecycle implements the promised one, for any      *)
(* number of workers, sources, runs and contents.                          *)
(*                                                                         *)
(* The invariant says of every open transaction what it knows of the       *)
(* source it holds (Local), what it knows of the shared contents (Stored), *)
(* and how it is kept apart from each other one (Apart).  The advisory     *)
(* lock makes the first stable; row locks make the other two so.           *)
(*                                                                         *)
(* These predicates name what they are about as parameters: t and u are    *)
(* transactions, st, occ and stored the committed statuses, occurrences    *)
(* and contents, locks the advisory locks.                                 *)
(***************************************************************************)
EXTENDS IndexTransactions, TLAPS

Promises == INSTANCE IndexGenerations_proofs

Building == {"build", "link"}
Promoted == {"prune", "collect", "commit"}
Demoted == {"promote"} \cup Promoted
Archived == {"demote"} \cup Demoted
Switching == {"archive", "validate"} \cup Archived

NothingWritten == [r \in Runs |-> Unwritten]

(* What a switch has flushed, by its stage. *)
Flushed(t) ==
    [r \in Runs |->
        IF r = t.run /\ t.stage \in Promoted THEN "active"
        ELSE IF r = t.active /\ t.stage \in Demoted THEN "previous"
        ELSE IF r = t.previous /\ t.stage \in Archived THEN "archived"
        ELSE Unwritten]

(* r is the only run of source s with status label, NoRun if there is none. *)
Only(st, s, label, r) ==
    \A q \in Runs : SourceOf[q] = s /\ st[q] = label <=> q = r

(* The contents a switch may collect. *)
Pruned(t, occ) ==
    IF t.kind = "activate" /\ t.previous # NoRun THEN occ[t.previous] ELSE {}

(* A transaction between its locks and its end holds its source. *)
Holds(w, t, locks) ==
    t.stage \in Building \cup Switching => t.source \in Sources /\ locks[t.source] = w

(* A build knows its run to be unpublished, and keeps account of its       *)
(* snapshot.                                                               *)
BuildLocal(t, st) ==
    /\ t.kind = "build"
    /\ t.run \in Runs /\ SourceOf[t.run] = t.source /\ st[t.run] = "absent"
    /\ t.writes = [NothingWritten EXCEPT ![t.run] = "building"]
    /\ t.inserted \subseteq Snapshot[t.run]
    /\ t.deleted = {} /\ t.batch = {}
    /\ t.stage = "build" => t.linked \cup t.todo = Snapshot[t.run]
    /\ t.stage = "link" =>
           /\ t.cursor \in Contents \cup {Dangling}
           /\ t.cursor \in Contents => t.linked \cup t.todo \cup {t.cursor} = Snapshot[t.run]

(* A switch knows the statuses of its source, and collects only contents   *)
(* of the run it retires.                                                  *)
SwitchLocal(t, st, occ) ==
    /\ t.kind \in {"activate", "rollback"}
    /\ t.run \in Runs /\ SourceOf[t.run] = t.source
    /\ Only(st, t.source, "active", t.active)
    /\ Only(st, t.source, "previous", t.previous)
    /\ t.kind = "activate" => st[t.run] = "ready"
    /\ t.kind = "rollback" => t.run = t.previous
    /\ t.stage \in {"archive", "validate"} => t.previous # NoRun
    /\ t.writes = Flushed(t)
    /\ t.inserted = {} /\ t.linked = {}
    /\ t.candidates \cup t.batch \cup t.deleted \subseteq Pruned(t, occ)
    /\ t.stage # "collect" => t.batch = {}

QuietLocal(t) ==
    /\ t.writes = NothingWritten
    /\ t.inserted = {} /\ t.linked = {} /\ t.deleted = {} /\ t.batch = {}
    /\ t.candidates = {}
    /\ t.stage \in {"built", "lock"} => t.source \in Sources
    /\ t.stage = "built" \/ (t.stage = "lock" /\ t.kind # "rollback") => t.run \in Runs

Local(t, st, occ) ==
    /\ t.stage \in Building => BuildLocal(t, st)
    /\ t.stage \in Switching => SwitchLocal(t, st, occ)
    /\ t.stage \notin Building \cup Switching => QuietLocal(t)

(* What a transaction counts on is stored, what it inserts is not yet, and *)
(* what it has deleted for good is linked by no run but the one it retires.*)
Stored(t, occ, stored) ==
    /\ t.linked \subseteq stored \cup t.inserted
    /\ t.cursor \in Contents => t.cursor \in stored \cup t.inserted
    /\ t.inserted \cap stored = {}
    /\ t.deleted \cup t.batch \subseteq stored
    /\ \A c \in t.deleted \ t.batch : \A r \in Runs \ {t.previous} : c \notin occ[r]

(* Two transactions never insert or delete the same row, and neither       *)
(* deletes what the other links.                                           *)
Apart(t, u) ==
    /\ t.inserted \cap u.inserted = {}
    /\ t.deleted \cap u.deleted = {}
    /\ t.deleted \cap u.linked = {}
    /\ u.deleted \cap t.linked = {}

Inv ==
    /\ TypeOK
    /\ Promises!Inv
    /\ \A w \in Workers : /\ Holds(w, tx[w], owner)
                          /\ Local(tx[w], status, occurrences)
                          /\ Stored(tx[w], occurrences, contents)
    /\ \A w, v \in Workers : v # w => Apart(tx[w], tx[v])

---------------------------------------------------------------------------
(* The two instances of IndexGenerations say the same. *)
LEMMA SameLifecycle ==
    /\ Generations!TypeOK <=> Promises!TypeOK
    /\ Generations!Init <=> Promises!Init
    /\ Generations!Next <=> Promises!Next
    /\ Generations!vars = Promises!vars
    /\ \A r \in Runs :
           /\ Generations!PublishReady(r) <=> Promises!PublishReady(r)
           /\ Generations!PublishFailed(r) <=> Promises!PublishFailed(r)
           /\ Generations!Activate(r) <=> Promises!Activate(r)
           /\ Generations!Rollback(r) <=> Promises!Rollback(r)
BY DEF Generations!TypeOK, Promises!TypeOK, Generations!Statuses, Promises!Statuses,
       Generations!Init, Promises!Init, Generations!Next, Promises!Next,
       Generations!vars, Promises!vars,
       Generations!PublishReady, Promises!PublishReady,
       Generations!PublishFailed, Promises!PublishFailed,
       Generations!Activate, Promises!Activate,
       Generations!Rollback, Promises!Rollback,
       Generations!Succession, Promises!Succession,
       Generations!Collectable, Promises!Collectable,
       Generations!RunsOf, Promises!RunsOf

(* The lifecycle keeps its promises. *)
LEMMA GenerationsKeepPromises ==
    ASSUME Promises!Inv, [Generations!Next]_(Generations!vars)
    PROVE  Promises!Inv'
<1>1. [Promises!Next]_(Promises!vars)
  BY SameLifecycle DEF Generations!vars, Promises!vars
<1> QED
  BY <1>1, Promises!NextPreservesInv, SourceOfAssumption, SnapshotAssumption, NullsAssumption

(* What a transaction knows of its source outlives changes to the others. *)
LEMMA LocalIsAboutItsSource ==
    ASSUME NEW t \in Transactions, NEW st, NEW st2, NEW occ, NEW occ2,
           Local(t, st, occ),
           t.stage \in Building \cup Switching =>
               \A r \in Runs : SourceOf[r] = t.source => st2[r] = st[r] /\ occ2[r] = occ[r]
    PROVE  Local(t, st2, occ2)
<1>1. CASE t.stage \in Building
  <2>1. BuildLocal(t, st2)
    BY <1>1 DEF Local, BuildLocal
  <2> QED  BY <1>1, <2>1 DEF Local, Building, Switching, Archived, Demoted, Promoted
<1>2. CASE t.stage \in Switching
  <2>1. \A r \in Runs : SourceOf[r] = t.source => st2[r] = st[r] /\ occ2[r] = occ[r]
    BY <1>2
  <2>2. SwitchLocal(t, st, occ)
    BY <1>2 DEF Local
  <2>3. Only(st2, t.source, "active", t.active) /\ Only(st2, t.source, "previous", t.previous)
    BY <2>1, <2>2 DEF SwitchLocal, Only
  <2>4. Pruned(t, occ2) = Pruned(t, occ)
    BY <2>1, <2>2 DEF SwitchLocal, Only, Pruned, Transactions
  <2>5. st2[t.run] = st[t.run]
    BY <2>1, <2>2 DEF SwitchLocal
  <2>6. SwitchLocal(t, st2, occ2)
    BY <2>2, <2>3, <2>4, <2>5 DEF SwitchLocal
  <2> QED  BY <1>2, <2>6 DEF Local, Building, Switching, Archived, Demoted, Promoted
<1>3. CASE t.stage \notin Building \cup Switching
  BY <1>3 DEF Local
<1> QED  BY <1>1, <1>2, <1>3

(* The empty database satisfies the invariant. *)
LEMMA InitEstablishesInv == Init => Inv
<1> SUFFICES ASSUME Init  PROVE Inv
  OBVIOUS
<1> USE SourceOfAssumption, SnapshotAssumption, NullsAssumption, MaxCrashesAssumption
<1>1. Promises!Inv
  BY SameLifecycle, Promises!InitEstablishesInv DEF Init
<1>2. NoTransaction \in Transactions
  BY DEF NoTransaction, Transactions, Stages, Statuses, Unwritten
<1>3. TypeOK
  BY <1>1, <1>2, SameLifecycle DEF Init, TypeOK, Promises!Inv, Promises!TypeOK,
     Promises!Statuses, Generations!Statuses
<1>4. \A w \in Workers : tx[w] = NoTransaction
  BY DEF Init
<1>5. \A w \in Workers : /\ Holds(w, NoTransaction, owner)
                         /\ Local(NoTransaction, status, occurrences)
                         /\ Stored(NoTransaction, occurrences, contents)
  BY DEF NoTransaction, Holds, Local, Stored, QuietLocal, NothingWritten,
         Building, Switching, Archived, Demoted, Promoted
<1>6. Apart(NoTransaction, NoTransaction)
  BY DEF NoTransaction, Apart
<1> QED  BY <1>1, <1>3, <1>4, <1>5, <1>6 DEF Inv

(* A step of one transaction that commits nothing keeps the invariant when *)
(* the transaction it leads to is sound and kept apart from the others.    *)
LEMMA UncommittedStep ==
    ASSUME Inv, NEW w \in Workers, NEW t \in Transactions,
           tx' = [tx EXCEPT ![w] = t],
           UNCHANGED committed,
           crashes' \in 0..MaxCrashes,
           owner' \in [Sources -> Workers \cup {NoWorker}],
           \A s \in Sources : \A v \in Workers \ {w} : owner[s] = v => owner'[s] = v,
           Holds(w, t, owner'),
           Local(t, status, occurrences),
           Stored(t, occurrences, contents),
           \A v \in Workers \ {w} : Apart(t, tx[v])
    PROVE  Inv'
<1>1. TypeOK'
  BY DEF Inv, TypeOK, committed
<1>2. Promises!Inv'
  BY GenerationsKeepPromises DEF Inv, committed, Generations!vars
<1>3. status' = status /\ occurrences' = occurrences /\ contents' = contents
  BY DEF committed
<1>4. tx'[w] = t /\ \A v \in Workers \ {w} : tx'[v] = tx[v]
  BY DEF Inv, TypeOK
<1>5. \A v \in Workers : /\ Local(tx'[v], status', occurrences')
                         /\ Stored(tx'[v], occurrences', contents')
  BY <1>3, <1>4 DEF Inv
<1>6. ASSUME NEW v \in Workers  PROVE Holds(v, tx'[v], owner')
  <2>1. CASE v = w
    BY <1>4, <2>1
  <2>2. CASE v # w
    BY <1>4, <2>2 DEF Inv, Holds
  <2> QED  BY <2>1, <2>2
<1>7. ASSUME NEW v \in Workers, NEW z \in Workers, z # v
      PROVE  Apart(tx'[v], tx'[z])
  <2>1. CASE v = w
    BY <1>4, <1>7, <2>1
  <2>2. CASE z = w
    <3>1. Apart(t, tx[v])
      BY <1>7, <2>2
    <3> QED  BY <1>4, <1>7, <2>2, <3>1 DEF Apart
  <2>3. CASE v # w /\ z # w
    BY <1>4, <1>7, <2>3 DEF Inv
  <2> QED  BY <2>1, <2>2, <2>3
<1> QED  BY <1>1, <1>2, <1>5, <1>6, <1>7 DEF Inv

(* A transaction that ends without effect, or one not yet working, is      *)
(* quiet: nothing is said of it but that it touched nothing.               *)
Quiet(t) ==
    /\ t.stage \in {"idle", "built", "lock"}
    /\ t.cursor = NoContent
    /\ QuietLocal(t)

(* A quiet transaction is sound in any database, beside any other.         *)
LEMMA QuietIsSound ==
    ASSUME NEW w, NEW t \in Transactions, NEW st, NEW occ, NEW stored, NEW locks, Quiet(t)
    PROVE  /\ Holds(w, t, locks)
           /\ Local(t, st, occ)
           /\ Stored(t, occ, stored)
           /\ \A u : Apart(t, u) /\ Apart(u, t)
BY NullsAssumption
   DEF Quiet, QuietLocal, Holds, Local, Stored, Apart, Building, Switching,
       Archived, Demoted, Promoted

LEMMA NoTransactionIsQuiet == NoTransaction \in Transactions /\ Quiet(NoTransaction)
BY DEF NoTransaction, Transactions, Stages, Statuses, Unwritten, Quiet, QuietLocal,
       NothingWritten

(* The transactions that have only been begun. *)
LEMMA BegunIsQuiet ==
    ASSUME NEW s \in Sources, NEW p \in Runs \cup {NoRun}
    PROVE  /\ \A r \in Runs :
                 LET t == [NoTransaction EXCEPT !.stage = "built", !.source = s, !.run = r]
                 IN  t \in Transactions /\ Quiet(t)
           /\ \A r \in Runs :
                 LET t == [NoTransaction EXCEPT !.stage = "lock", !.kind = "activate",
                                                !.source = s, !.run = r, !.observed = p]
                 IN  t \in Transactions /\ Quiet(t)
           /\ LET t == [NoTransaction EXCEPT !.stage = "lock", !.kind = "rollback",
                                             !.source = s, !.observed = p]
              IN  t \in Transactions /\ Quiet(t)
<1>1. ASSUME NEW n \in Transactions, Quiet(n), n.kind = "none", NEW r \in Runs
      PROVE  LET t == [n EXCEPT !.stage = "built", !.source = s, !.run = r]
             IN  t \in Transactions /\ Quiet(t)
  BY <1>1 DEF Transactions, Stages, Quiet, QuietLocal
<1>2. ASSUME NEW n \in Transactions, Quiet(n), NEW r \in Runs
      PROVE  LET t == [n EXCEPT !.stage = "lock", !.kind = "activate",
                                !.source = s, !.run = r, !.observed = p]
             IN  t \in Transactions /\ Quiet(t)
  BY <1>2 DEF Transactions, Stages, Quiet, QuietLocal
<1>3. ASSUME NEW n \in Transactions, Quiet(n)
      PROVE  LET t == [n EXCEPT !.stage = "lock", !.kind = "rollback",
                                !.source = s, !.observed = p]
             IN  t \in Transactions /\ Quiet(t)
  BY <1>3 DEF Transactions, Stages, Quiet, QuietLocal
<1>4. NoTransaction.kind = "none"
  BY DEF NoTransaction
<1> QED  BY <1>1, <1>2, <1>3, <1>4, NoTransactionIsQuiet

(* Releasing the locks of one worker leaves the others theirs. *)
LEMMA ReleaseKeepsOthers ==
    ASSUME TypeOK, NEW w \in Workers, ReleaseLocks(w)
    PROVE  /\ owner' \in [Sources -> Workers \cup {NoWorker}]
           /\ \A s \in Sources : owner[s] # w => owner'[s] = owner[s]
           /\ \A s \in Sources : owner[s] = w => owner'[s] = NoWorker
BY NullsAssumption DEF TypeOK, ReleaseLocks

(* A refused, cancelled or dead transaction leaves nothing behind. *)
LEMMA EndStep ==
    ASSUME Inv, NEW w \in Workers, EndWithoutEffect(w), crashes' \in 0..MaxCrashes
    PROVE  Inv'
<1>1. TypeOK
  BY DEF Inv
<1>2. \A v \in Workers \ {w} : Apart(NoTransaction, tx[v])
  BY NoTransactionIsQuiet, QuietIsSound
<1>3. Holds(w, NoTransaction, owner')
  BY NoTransactionIsQuiet, QuietIsSound
<1>4. Local(NoTransaction, status, occurrences) /\ Stored(NoTransaction, occurrences, contents)
  BY NoTransactionIsQuiet, QuietIsSound
<1> QED
  BY <1>1, <1>2, <1>3, <1>4, NoTransactionIsQuiet, ReleaseKeepsOthers, UncommittedStep
     DEF EndWithoutEffect

(* Beginning an activation or a rollback locks nothing. *)
LEMMA BeginSwitchStep ==
    ASSUME Inv, NEW w \in Workers, NEW s \in Sources,
           (\E r \in Runs : BeginActivation(w, s, r)) \/ BeginRollback(w, s)
    PROVE  Inv'
<1>1. TypeOK
  BY DEF Inv
<1>2. PICK t \in Transactions : Quiet(t) /\ tx' = [tx EXCEPT ![w] = t]
  <2>1. pointer[s] \in Runs \cup {NoRun}
    BY <1>1 DEF TypeOK
  <2>2. CASE \E r \in Runs : BeginActivation(w, s, r)
    BY <2>1, <2>2, BegunIsQuiet DEF BeginActivation
  <2>3. CASE BeginRollback(w, s)
    BY <2>1, <2>3, BegunIsQuiet DEF BeginRollback
  <2> QED  BY <2>2, <2>3
<1>3. UNCHANGED <<committed, owner, crashes>>
  BY DEF BeginActivation, BeginRollback
<1>4. Holds(w, t, owner') /\ Local(t, status, occurrences) /\ Stored(t, occurrences, contents)
  BY <1>2, QuietIsSound
<1>5. \A v \in Workers \ {w} : Apart(t, tx[v])
  BY <1>2, QuietIsSound
<1> QED
  BY <1>1, <1>2, <1>3, <1>4, <1>5, UncommittedStep DEF TypeOK

---------------------------------------------------------------------------
(* The steps of a build before it commits. *)

LEMMA BeginBuildStep ==
    ASSUME Inv, NEW w \in Workers, NEW r \in Runs, BeginBuild(w, r)
    PROVE  Inv'
<1> USE SourceOfAssumption, SnapshotAssumption, NullsAssumption
<1> DEFINE t == [NoTransaction EXCEPT
                     !.stage = "build", !.kind = "build", !.source = SourceOf[r],
                     !.run = r, !.writes[r] = "building", !.todo = Snapshot[r]]
<1>1. TypeOK /\ status[r] = "absent" /\ owner[SourceOf[r]] = NoWorker
  BY DEF Inv, BeginBuild
<1>2. /\ t \in Transactions
      /\ t.stage = "build" /\ t.kind = "build" /\ t.source = SourceOf[r] /\ t.run = r
      /\ t.writes = [NothingWritten EXCEPT ![r] = "building"]
      /\ t.todo = Snapshot[r] /\ t.cursor = NoContent
      /\ t.inserted = {} /\ t.linked = {} /\ t.deleted = {} /\ t.batch = {}
  <2>1. ASSUME NEW n \in Transactions, Quiet(n)
        PROVE  LET b == [n EXCEPT !.stage = "build", !.kind = "build", !.source = SourceOf[r],
                                  !.run = r, !.writes[r] = "building", !.todo = Snapshot[r]]
               IN  /\ b \in Transactions
                   /\ b.stage = "build" /\ b.kind = "build" /\ b.source = SourceOf[r]
                   /\ b.run = r /\ b.writes = [NothingWritten EXCEPT ![r] = "building"]
                   /\ b.todo = Snapshot[r] /\ b.cursor = NoContent
                   /\ b.inserted = {} /\ b.linked = {} /\ b.deleted = {} /\ b.batch = {}
    BY <2>1 DEF Transactions, Stages, Statuses, Quiet, QuietLocal
  <2> QED  BY <2>1, NoTransactionIsQuiet
<1>3. /\ tx' = [tx EXCEPT ![w] = t]
      /\ owner' = [owner EXCEPT ![SourceOf[r]] = w]
      /\ UNCHANGED <<committed, crashes>>
  BY DEF BeginBuild
<1>4. /\ owner' \in [Sources -> Workers \cup {NoWorker}]
      /\ \A s \in Sources : \A v \in Workers \ {w} : owner[s] = v => owner'[s] = v
      /\ owner'[SourceOf[r]] = w
  BY <1>1, <1>3 DEF TypeOK
<1>5. Holds(w, t, owner')
  BY <1>2, <1>4 DEF Holds
<1>6. Local(t, status, occurrences)
  BY <1>1, <1>2 DEF Local, BuildLocal, Building, Switching, Archived, Demoted, Promoted
<1>7. Stored(t, occurrences, contents) /\ \A v \in Workers \ {w} : Apart(t, tx[v])
  BY <1>2 DEF Stored, Apart
<1> HIDE DEF t
<1> QED
  BY <1>1, <1>2, <1>3, <1>4, <1>5, <1>6, <1>7, UncommittedStep DEF TypeOK

(* What the invariant says of one worker. *)
LEMMA WorkerFacts ==
    ASSUME Inv, NEW w \in Workers
    PROVE  /\ tx[w] \in Transactions
           /\ Holds(w, tx[w], owner)
           /\ Local(tx[w], status, occurrences)
           /\ Stored(tx[w], occurrences, contents)
           /\ \A v \in Workers \ {w} : Apart(tx[w], tx[v])
BY DEF Inv, TypeOK

(* A step within a transaction keeps its source and its lock. *)
LEMMA StepWithin ==
    ASSUME Inv, NEW w \in Workers, NEW t \in Transactions,
           tx' = [tx EXCEPT ![w] = t],
           UNCHANGED <<committed, owner, crashes>>,
           tx[w].stage \in Building \cup Switching,
           t.source = tx[w].source,
           Local(t, status, occurrences),
           Stored(t, occurrences, contents),
           \A v \in Workers \ {w} : Apart(t, tx[v])
    PROVE  Inv'
<1>1. TypeOK
  BY DEF Inv
<1>2. Holds(w, t, owner')
  BY WorkerFacts DEF Holds
<1> QED  BY <1>1, <1>2, UncommittedStep DEF TypeOK

LEMMA UpsertContentStep ==
    ASSUME Inv, NEW w \in Workers, NEW c \in Contents, UpsertContent(w, c)
    PROVE  Inv'
<1> DEFINE o == tx[w]
<1> DEFINE new == IF c \in contents THEN o.inserted ELSE o.inserted \cup {c}
<1> DEFINE t == [o EXCEPT !.stage = "link", !.cursor = c, !.todo = o.todo \ {c},
                          !.inserted = new]
<1>1. o \in Transactions /\ o.stage = "build" /\ c \in o.todo
  BY WorkerFacts DEF UpsertContent
<1>2. BuildLocal(o, status) /\ Stored(o, occurrences, contents)
  BY <1>1, WorkerFacts DEF Local, Building
<1>3. new \in SUBSET Contents /\ o.inserted \subseteq new /\ new \subseteq o.inserted \cup {c}
      /\ c \in contents \cup new /\ new \cap contents = {}
  BY <1>1, <1>2 DEF Transactions, Stored
<1> HIDE DEF new
<1>4. /\ t \in Transactions
      /\ t.stage = "link" /\ t.cursor = c /\ t.todo = o.todo \ {c} /\ t.inserted = new
      /\ t.kind = o.kind /\ t.source = o.source /\ t.run = o.run /\ t.writes = o.writes
      /\ t.linked = o.linked /\ t.deleted = o.deleted /\ t.batch = o.batch
      /\ t.previous = o.previous
  BY <1>1, <1>3 DEF Transactions, Stages
<1>5. tx' = [tx EXCEPT ![w] = t] /\ UNCHANGED <<committed, owner, crashes>>
  BY DEF UpsertContent, new
<1> HIDE DEF t
<1>6. BuildLocal(t, status)
  <2>1. Snapshot[o.run] \subseteq Contents /\ c \in Snapshot[o.run]
    BY <1>1, <1>2, SnapshotAssumption DEF BuildLocal
  <2> QED  BY <1>1, <1>2, <1>3, <1>4, <2>1 DEF BuildLocal
<1>7. Local(t, status, occurrences)
  BY <1>4, <1>6 DEF Local, Building, Switching, Archived, Demoted, Promoted
<1>8. Stored(t, occurrences, contents)
  BY <1>2, <1>3, <1>4 DEF Stored
<1>9. ASSUME NEW v \in Workers \ {w}  PROVE Apart(t, tx[v])
  <2>1. c \notin tx[v].inserted \cup tx[v].deleted /\ Apart(o, tx[v])
    BY WorkerFacts DEF UpsertContent
  <2> QED  BY <1>2, <1>3, <1>4, <2>1 DEF Apart, BuildLocal
<1>10. o.stage \in Building \cup Switching
  BY <1>1 DEF Building
<1> QED  BY <1>4, <1>5, <1>7, <1>8, <1>9, <1>10, StepWithin

LEMMA CreateOccurrenceStep ==
    ASSUME Inv, NEW w \in Workers, CreateOccurrence(w)
    PROVE  Inv'
<1> DEFINE o == tx[w]
<1> DEFINE t == [o EXCEPT !.stage = "build", !.linked = o.linked \cup {o.cursor},
                          !.cursor = NoContent]
<1>1. o \in Transactions /\ o.stage = "link" /\ o.cursor \in Contents
  BY WorkerFacts DEF CreateOccurrence
<1>2. BuildLocal(o, status) /\ Stored(o, occurrences, contents)
  BY <1>1, WorkerFacts DEF Local, Building
<1>3. /\ t \in Transactions
      /\ t.stage = "build" /\ t.cursor = NoContent /\ t.linked = o.linked \cup {o.cursor}
      /\ t.todo = o.todo /\ t.inserted = o.inserted
      /\ t.kind = o.kind /\ t.source = o.source /\ t.run = o.run /\ t.writes = o.writes
      /\ t.deleted = o.deleted /\ t.batch = o.batch /\ t.previous = o.previous
  BY <1>1 DEF Transactions, Stages
<1>4. tx' = [tx EXCEPT ![w] = t] /\ UNCHANGED <<committed, owner, crashes>>
  BY DEF CreateOccurrence
<1> HIDE DEF t
<1>5. BuildLocal(t, status)
  BY <1>1, <1>2, <1>3 DEF BuildLocal
<1>6. Local(t, status, occurrences)
  BY <1>3, <1>5 DEF Local, Building, Switching, Archived, Demoted, Promoted
<1>7. Stored(t, occurrences, contents)
  BY <1>1, <1>2, <1>3, NullsAssumption DEF Stored
<1>8. ASSUME NEW v \in Workers \ {w}  PROVE Apart(t, tx[v])
  <2>1. o.cursor \notin tx[v].deleted /\ Apart(o, tx[v])
    BY WorkerFacts DEF CreateOccurrence
  <2> QED  BY <1>3, <2>1 DEF Apart
<1>9. o.stage \in Building \cup Switching
  BY <1>1 DEF Building
<1> QED  BY <1>3, <1>4, <1>6, <1>7, <1>8, <1>9, StepWithin

---------------------------------------------------------------------------
(* The steps of a switch before it commits. *)

(* What _unique_status_run returns is the only run of that status. *)
LEMMA UniqueIsOnly ==
    ASSUME NEW s, NEW label, NEW r \in Runs \cup {NoRun}, IsUniqueStatusRun(s, label, r)
    PROVE  Only(status, s, label, r)
BY NullsAssumption DEF IsUniqueStatusRun, Only

LEMMA LockStep ==
    ASSUME Inv, NEW w \in Workers, NEW a \in Runs \cup {NoRun}, NEW p \in Runs \cup {NoRun},
           LockForActivation(w, a, p) \/ LockForRollback(w, a, p)
    PROVE  Inv'
<1> USE NullsAssumption
<1> DEFINE o == tx[w]
<1>1. /\ o \in Transactions /\ o.stage = "lock" /\ QuietLocal(o)
      /\ o.kind \in {"activate", "rollback"} /\ CanLock(w, a, p)
  BY WorkerFacts DEF LockForActivation, LockForRollback, Local, Building, Switching,
     Archived, Demoted, Promoted
<1>2. PICK stage \in {"archive", "demote", "promote", "validate"},
           run \in Runs \cup {NoRun} :
        /\ tx' = [tx EXCEPT ![w] = [o EXCEPT !.stage = stage, !.active = a,
                                             !.previous = p, !.run = run]]
        /\ stage = "archive" => p # NoRun
        /\ stage = "validate" => o.kind = "rollback"
        /\ stage = "demote" => p = NoRun
        /\ stage = "promote" => a = NoRun /\ p = NoRun
        /\ o.kind = "activate" => run = o.run
        /\ o.kind = "rollback" => run = p
  <2>1. CASE LockForRollback(w, a, p)
    BY <2>1 DEF LockForRollback
  <2>2. CASE LockForActivation(w, a, p)
    <3>1. \A st : [o EXCEPT !.stage = st, !.active = a, !.previous = p]
                    = [o EXCEPT !.stage = st, !.active = a, !.previous = p, !.run = o.run]
      BY <1>1 DEF Transactions
    <3>2. o.run \in Runs \cup {NoRun}
      BY <1>1 DEF Transactions
    <3>3. CASE p # NoRun
      BY <2>2, <3>1, <3>2, <3>3 DEF LockForActivation
    <3>4. CASE p = NoRun /\ a # NoRun
      BY <2>2, <3>1, <3>2, <3>4 DEF LockForActivation
    <3>5. CASE p = NoRun /\ a = NoRun
      BY <2>2, <3>1, <3>2, <3>5 DEF LockForActivation
    <3> QED  BY <3>3, <3>4, <3>5
  <2> QED  BY <2>1, <2>2
<1> DEFINE t == [o EXCEPT !.stage = stage, !.active = a, !.previous = p, !.run = run]
<1>3. /\ t \in Transactions
      /\ t.stage = stage /\ t.active = a /\ t.previous = p /\ t.run = run
      /\ t.kind = o.kind /\ t.source = o.source /\ t.cursor = o.cursor
      /\ t.writes = o.writes /\ t.candidates = o.candidates
      /\ t.inserted = o.inserted /\ t.linked = o.linked
      /\ t.deleted = o.deleted /\ t.batch = o.batch
  <2>1. o \in Transactions
    BY <1>1
  <2>2. t \in Transactions
    BY <2>1 DEF Transactions, Stages
  <2> QED  BY <2>1, <2>2 DEF Transactions
<1>4. /\ UNCHANGED <<committed, crashes>>
      /\ owner' = [owner EXCEPT ![o.source] = w]
      /\ owner[o.source] = NoWorker
      /\ IsUniqueStatusRun(o.source, "active", a)
      /\ IsUniqueStatusRun(o.source, "previous", p)
      /\ o.kind = "activate" => status[o.run] = "ready" /\ SourceOf[o.run] = o.source
      /\ o.kind = "rollback" => p # NoRun
  BY <1>1 DEF LockForActivation, LockForRollback, CanLock
<1>5. Only(status, o.source, "active", a) /\ Only(status, o.source, "previous", p)
  BY <1>4, UniqueIsOnly
<1>6. o.source \in Sources /\ run \in Runs /\ SourceOf[run] = o.source
  BY <1>1, <1>2, <1>4, <1>5 DEF QuietLocal, Only
<1>7. TypeOK
  BY DEF Inv
<1>8. /\ owner' \in [Sources -> Workers \cup {NoWorker}]
      /\ \A s \in Sources : \A v \in Workers \ {w} : owner[s] = v => owner'[s] = v
      /\ owner'[o.source] = w
  BY <1>4, <1>6, <1>7 DEF TypeOK
<1> HIDE DEF t
<1>9. Holds(w, t, owner')
  BY <1>3, <1>6, <1>8 DEF Holds
<1>10. Local(t, status, occurrences)
  <2>1. t.writes = Flushed(t)
    BY <1>1, <1>2, <1>3, <1>6, <1>4, NullsAssumption
       DEF QuietLocal, NothingWritten, Flushed, Promoted, Demoted, Archived
  <2>2. SwitchLocal(t, status, occurrences)
    BY <1>1, <1>2, <1>3, <1>4, <1>5, <1>6, <2>1 DEF SwitchLocal, QuietLocal, Promoted
  <2> QED
    BY <1>2, <1>3, <2>2 DEF Local, Building, Switching, Archived, Demoted, Promoted
<1>11. Stored(t, occurrences, contents) /\ \A v \in Workers \ {w} : Apart(t, tx[v])
  BY <1>1, <1>3, WorkerFacts DEF QuietLocal, Stored, Apart
<1> QED
  BY <1>2, <1>3, <1>4, <1>7, <1>8, <1>9, <1>10, <1>11, UncommittedStep DEF TypeOK, t

(* t is the switch o, some steps later. *)
SameSwitch(t, o) ==
    /\ t.kind = o.kind /\ t.source = o.source /\ t.run = o.run
    /\ t.active = o.active /\ t.previous = o.previous /\ t.cursor = o.cursor
    /\ t.inserted = o.inserted /\ t.linked = o.linked

(* What worker w collects in t may go, and nobody else needs it.           *)
CollectsSafely(w, t) ==
    /\ t.candidates \cup t.batch \cup t.deleted \subseteq Pruned(t, occurrences)
    /\ t.stage # "collect" => t.batch = {}
    /\ t.deleted \cup t.batch \subseteq contents
    /\ \A c \in t.deleted \ t.batch : \A r \in Runs \ {t.previous} : c \notin occurrences[r]
    /\ \A v \in Workers \ {w} : t.deleted \cap (tx[v].linked \cup tx[v].deleted) = {}

(* What the invariant says of a worker inside a switch. *)
LEMMA SwitchFacts ==
    ASSUME Inv, NEW w \in Workers, tx[w].stage \in Switching
    PROVE  /\ tx[w] \in Transactions
           /\ SwitchLocal(tx[w], status, occurrences)
           /\ CollectsSafely(w, tx[w])
<1>1. \A v \in Workers \ {w} : tx[w].deleted \cap (tx[v].linked \cup tx[v].deleted) = {}
  BY WorkerFacts DEF Apart
<1> QED  BY <1>1, WorkerFacts DEF Local, SwitchLocal, Stored, CollectsSafely

(* A step of a switch keeps the invariant when its flushes are those of    *)
(* its new stage and it still collects safely.                             *)
LEMMA SwitchContinues ==
    ASSUME Inv, NEW w \in Workers, NEW t \in Transactions,
           tx' = [tx EXCEPT ![w] = t],
           UNCHANGED <<committed, owner, crashes>>,
           tx[w].stage \in Switching, t.stage \in Archived \cup {"archive"},
           SameSwitch(t, tx[w]),
           t.stage = "archive" => t.previous # NoRun,
           t.writes = Flushed(t),
           CollectsSafely(w, t)
    PROVE  Inv'
<1>1. SwitchLocal(tx[w], status, occurrences) /\ Stored(tx[w], occurrences, contents)
  BY WorkerFacts DEF Local
<1>2. t.stage # "validate"
  BY DEF Archived, Demoted, Promoted
<1>3. SwitchLocal(t, status, occurrences)
  BY <1>1, <1>2 DEF SwitchLocal, SameSwitch, CollectsSafely
<1>4. Local(t, status, occurrences)
  BY <1>3 DEF Local, Building, Switching, Archived, Demoted, Promoted
<1>5. Stored(t, occurrences, contents)
  BY <1>1 DEF Stored, SameSwitch, CollectsSafely
<1>6. ASSUME NEW v \in Workers \ {w}  PROVE Apart(t, tx[v])
  <2>1. t.inserted = {} /\ t.linked = {}
    BY <1>3 DEF SwitchLocal
  <2> QED  BY <2>1 DEF Apart, CollectsSafely
<1>7. tx[w].stage \in Building \cup Switching /\ t.source = tx[w].source
  BY DEF SameSwitch
<1> QED  BY <1>4, <1>5, <1>6, <1>7, StepWithin

(* A step that collects nothing new collects as safely as before.          *)
LEMMA CollectionUnchanged ==
    ASSUME Inv, NEW w \in Workers, NEW t, tx[w].stage \in Switching \ {"collect"},
           t.kind = tx[w].kind, t.previous = tx[w].previous,
           t.candidates = tx[w].candidates \/ t.candidates = Pruned(tx[w], occurrences),
           t.batch = tx[w].batch, t.deleted = tx[w].deleted
    PROVE  CollectsSafely(w, t)
BY SwitchFacts DEF CollectsSafely, Pruned

LEMMA ValidateTargetStep ==
    ASSUME Inv, NEW w \in Workers, ValidateTarget(w)
    PROVE  Inv'
<1> DEFINE o == tx[w]
<1> DEFINE t == [o EXCEPT !.stage = "archive"]
<1>1. o.stage = "validate" /\ o.stage \in Switching
  BY DEF ValidateTarget, Switching
<1>2. o \in Transactions /\ SwitchLocal(o, status, occurrences)
  BY <1>1, SwitchFacts
<1>3. /\ t \in Transactions
      /\ t.stage = "archive"
      /\ SameSwitch(t, o)
      /\ t.writes = o.writes
      /\ t.candidates = o.candidates /\ t.batch = o.batch /\ t.deleted = o.deleted
  BY <1>2 DEF Transactions, Stages, SameSwitch
<1>4. tx' = [tx EXCEPT ![w] = t] /\ UNCHANGED <<committed, owner, crashes>>
  BY DEF ValidateTarget
<1> HIDE DEF t
<1>5. t.writes = Flushed(t)
  BY <1>1, <1>2, <1>3 DEF SwitchLocal, SameSwitch, Flushed, Promoted, Demoted, Archived
<1>6. t.previous # NoRun
  BY <1>1, <1>2, <1>3 DEF SwitchLocal, SameSwitch
<1>7. CollectsSafely(w, t)
  BY <1>1, <1>3, CollectionUnchanged DEF SameSwitch
<1> QED  BY <1>1, <1>3, <1>4, <1>5, <1>6, <1>7, SwitchContinues

LEMMA ArchivePreviousStep ==
    ASSUME Inv, NEW w \in Workers, ArchivePrevious(w)
    PROVE  Inv'
<1> DEFINE o == tx[w]
<1> DEFINE some == IF o.kind = "activate" THEN occurrences[o.previous] ELSE {}
<1> DEFINE t == [o EXCEPT !.stage = "demote", !.writes[o.previous] = "archived",
                          !.candidates = some]
<1>1. o.stage = "archive" /\ o.stage \in Switching
  BY DEF ArchivePrevious, Switching
<1>2. o \in Transactions /\ SwitchLocal(o, status, occurrences)
  BY <1>1, SwitchFacts
<1>3. o.previous \in Runs
  BY <1>1, <1>2 DEF SwitchLocal, Transactions
<1>4. some \in SUBSET Contents /\ some = Pruned(o, occurrences)
  BY <1>3, NullsAssumption DEF Inv, TypeOK, Pruned
<1>5. tx' = [tx EXCEPT ![w] = t] /\ UNCHANGED <<committed, owner, crashes>>
  BY DEF ArchivePrevious
<1> HIDE DEF some
<1>6. /\ t \in Transactions
      /\ t.stage = "demote"
      /\ SameSwitch(t, o)
      /\ t.writes = [o.writes EXCEPT ![o.previous] = "archived"]
      /\ t.candidates = some /\ t.batch = o.batch /\ t.deleted = o.deleted
  BY <1>2, <1>4 DEF Transactions, Stages, Statuses, Generations!Statuses, SameSwitch
<1> HIDE DEF t
<1>7. t.writes = Flushed(t)
  BY <1>1, <1>2, <1>3, <1>6 DEF SwitchLocal, SameSwitch, Flushed, Promoted, Demoted, Archived
<1>8. CollectsSafely(w, t)
  BY <1>1, <1>4, <1>6, CollectionUnchanged DEF SameSwitch
<1>9. t.stage \in Archived \cup {"archive"} /\ t.stage # "archive"
  BY <1>6 DEF Archived
<1> QED  BY <1>1, <1>5, <1>6, <1>7, <1>8, <1>9, SwitchContinues

LEMMA DemoteActiveStep ==
    ASSUME Inv, NEW w \in Workers, DemoteActive(w)
    PROVE  Inv'
<1> DEFINE o == tx[w]
<1> DEFINE t == [o EXCEPT !.stage = "promote", !.writes[o.active] = "previous"]
<1>1. o.stage = "demote" /\ o.stage \in Switching
  BY DEF DemoteActive, Switching, Archived
<1>2. o \in Transactions /\ SwitchLocal(o, status, occurrences)
  BY <1>1, SwitchFacts
<1>3. /\ t \in Transactions
      /\ t.stage = "promote"
      /\ SameSwitch(t, o)
      /\ t.writes = [o.writes EXCEPT ![o.active] = "previous"]
      /\ t.candidates = o.candidates /\ t.batch = o.batch /\ t.deleted = o.deleted
  BY <1>2 DEF Transactions, Stages, Statuses, Generations!Statuses, SameSwitch
<1>4. tx' = [tx EXCEPT ![w] = t] /\ UNCHANGED <<committed, owner, crashes>>
  BY DEF DemoteActive
<1> HIDE DEF t
<1>5. t.writes = Flushed(t)
  BY <1>1, <1>2, <1>3 DEF SwitchLocal, SameSwitch, Flushed, Promoted, Demoted, Archived
<1>6. CollectsSafely(w, t)
  BY <1>1, <1>3, CollectionUnchanged DEF SameSwitch
<1>7. t.stage \in Archived \cup {"archive"} /\ t.stage # "archive"
  BY <1>3 DEF Archived, Demoted
<1> QED  BY <1>1, <1>3, <1>4, <1>5, <1>6, <1>7, SwitchContinues

LEMMA PromoteTargetStep ==
    ASSUME Inv, NEW w \in Workers, PromoteTarget(w)
    PROVE  Inv'
<1> DEFINE o == tx[w]
<1> DEFINE next == IF o.kind = "activate" /\ o.previous # NoRun THEN "prune" ELSE "commit"
<1> DEFINE t == [o EXCEPT !.stage = next, !.writes[o.run] = "active"]
<1>1. o.stage = "promote" /\ o.stage \in Switching
  BY DEF PromoteTarget, Switching, Archived, Demoted
<1>2. o \in Transactions /\ SwitchLocal(o, status, occurrences)
  BY <1>1, SwitchFacts
<1>3. next \in Promoted /\ next \in Stages /\ next # "collect"
  BY DEF Promoted, Stages
<1>4. tx' = [tx EXCEPT ![w] = t] /\ UNCHANGED <<committed, owner, crashes>>
  BY DEF PromoteTarget
<1> HIDE DEF next
<1>5. /\ t \in Transactions
      /\ t.stage = next
      /\ SameSwitch(t, o)
      /\ t.writes = [o.writes EXCEPT ![o.run] = "active"]
      /\ t.candidates = o.candidates /\ t.batch = o.batch /\ t.deleted = o.deleted
  BY <1>2, <1>3 DEF Transactions, Statuses, Generations!Statuses, SameSwitch
<1> HIDE DEF t
<1>6. t.writes = Flushed(t)
  BY <1>1, <1>2, <1>3, <1>5
     DEF SwitchLocal, SameSwitch, Flushed, Promoted, Demoted, Archived
<1>7. CollectsSafely(w, t)
  BY <1>1, <1>5, CollectionUnchanged DEF SameSwitch
<1>8. t.stage \in Archived \cup {"archive"} /\ t.stage # "archive"
  BY <1>3, <1>5 DEF Archived, Demoted, Promoted
<1> QED  BY <1>1, <1>4, <1>5, <1>6, <1>7, <1>8, SwitchContinues

(* The steps of pruning change only what is collected. *)
LEMMA PruningContinues ==
    ASSUME Inv, NEW w \in Workers, NEW t \in Transactions,
           tx' = [tx EXCEPT ![w] = t],
           UNCHANGED <<committed, owner, crashes>>,
           tx[w].stage \in Promoted, t.stage \in Promoted,
           SameSwitch(t, tx[w]), t.writes = tx[w].writes,
           CollectsSafely(w, t)
    PROVE  Inv'
<1>1. tx[w].stage \in Switching
  BY DEF Switching, Archived, Demoted
<1>2. t.writes = Flushed(t)
  <2>1. tx[w].writes = Flushed(tx[w])
    BY <1>1, SwitchFacts DEF SwitchLocal
  <2> QED  BY <2>1 DEF Flushed, SameSwitch, Demoted, Archived
<1>3. t.stage \in Archived \cup {"archive"} /\ t.stage # "archive"
  BY DEF Archived, Demoted, Promoted
<1> QED  BY <1>1, <1>2, <1>3, SwitchContinues

LEMMA SelectBatchStep ==
    ASSUME Inv, NEW w \in Workers, NEW some \in SUBSET Contents, SelectBatch(w, some)
    PROVE  Inv'
<1> DEFINE o == tx[w]
<1> DEFINE rows == {c \in some \cap contents :
                       \A r \in Runs \ {o.previous} : c \notin occurrences[r]}
<1> DEFINE t == [o EXCEPT !.stage = "collect", !.candidates = o.candidates \ some,
                          !.batch = rows]
<1>1. o.stage = "prune" /\ o.stage \in Promoted /\ o.stage \in Switching
      /\ some \subseteq o.candidates
  BY DEF SelectBatch, Promoted, Switching, Archived, Demoted
<1>2. o \in Transactions /\ CollectsSafely(w, o)
  BY <1>1, SwitchFacts
<1>3. tx' = [tx EXCEPT ![w] = t] /\ UNCHANGED <<committed, owner, crashes>>
  BY DEF SelectBatch
<1>4. rows \subseteq contents /\ rows \subseteq some
  OBVIOUS
<1> HIDE DEF rows
<1>5. /\ t \in Transactions
      /\ t.stage = "collect" /\ SameSwitch(t, o) /\ t.writes = o.writes
      /\ t.candidates = o.candidates \ some /\ t.batch = rows /\ t.deleted = o.deleted
  BY <1>2, <1>4 DEF Transactions, Stages, SameSwitch
<1> HIDE DEF t
<1>6. CollectsSafely(w, t)
  <2>1. Pruned(t, occurrences) = Pruned(o, occurrences)
    BY <1>5 DEF Pruned, SameSwitch
  <2>2. o.batch = {}
    BY <1>1, <1>2 DEF CollectsSafely
  <2> QED  BY <1>1, <1>2, <1>4, <1>5, <2>1, <2>2 DEF CollectsSafely, SameSwitch
<1>7. t.stage \in Promoted
  BY <1>5 DEF Promoted
<1> QED  BY <1>1, <1>3, <1>5, <1>6, <1>7, PruningContinues

LEMMA DeleteContentStep ==
    ASSUME Inv, NEW w \in Workers, NEW c \in Contents, DeleteContent(w, c)
    PROVE  Inv'
<1> DEFINE o == tx[w]
<1> DEFINE t == [o EXCEPT !.deleted = o.deleted \cup {c}]
<1>1. o.stage = "collect" /\ o.stage \in Promoted /\ o.stage \in Switching /\ c \in o.batch
  BY DEF DeleteContent, Promoted, Switching, Archived, Demoted
<1>2. o \in Transactions /\ CollectsSafely(w, o)
  BY <1>1, SwitchFacts
<1>3. tx' = [tx EXCEPT ![w] = t] /\ UNCHANGED <<committed, owner, crashes>>
  BY DEF DeleteContent
<1>4. /\ t \in Transactions
      /\ t.stage = o.stage /\ SameSwitch(t, o) /\ t.writes = o.writes
      /\ t.candidates = o.candidates /\ t.batch = o.batch /\ t.deleted = o.deleted \cup {c}
  BY <1>2 DEF Transactions, SameSwitch
<1> HIDE DEF t
<1>5. CollectsSafely(w, t)
  <2>1. Pruned(t, occurrences) = Pruned(o, occurrences)
    BY <1>4 DEF Pruned, SameSwitch
  <2>2. \A v \in Workers \ {w} : c \notin tx[v].linked \cup tx[v].deleted
    BY DEF DeleteContent
  <2> QED  BY <1>1, <1>2, <1>4, <2>1, <2>2 DEF CollectsSafely, SameSwitch
<1> QED  BY <1>1, <1>3, <1>4, <1>5, PruningContinues

LEMMA EndBatchStep ==
    ASSUME Inv, NEW w \in Workers, EndBatch(w)
    PROVE  Inv'
<1> DEFINE o == tx[w]
<1> DEFINE t == [o EXCEPT !.stage = "prune", !.batch = {}]
<1>1. o.stage = "collect" /\ o.stage \in Promoted /\ o.stage \in Switching
  BY DEF EndBatch, Promoted, Switching, Archived, Demoted
<1>2. o \in Transactions /\ CollectsSafely(w, o)
  BY <1>1, SwitchFacts
<1>3. tx' = [tx EXCEPT ![w] = t] /\ UNCHANGED <<committed, owner, crashes>>
  BY DEF EndBatch
<1>4. /\ t \in Transactions
      /\ t.stage = "prune" /\ SameSwitch(t, o) /\ t.writes = o.writes
      /\ t.candidates = o.candidates /\ t.batch = {} /\ t.deleted = o.deleted
  BY <1>2 DEF Transactions, Stages, SameSwitch
<1> HIDE DEF t
<1>5. CollectsSafely(w, t)
  <2>1. Pruned(t, occurrences) = Pruned(o, occurrences)
    BY <1>4 DEF Pruned, SameSwitch
  <2>2. \A c \in o.batch : \A r \in Runs \ {o.previous} : c \notin occurrences[r]
    BY DEF EndBatch, DeletedReferenced
  <2> QED  BY <1>2, <1>4, <2>1, <2>2 DEF CollectsSafely, SameSwitch
<1>6. t.stage \in Promoted
  BY <1>4 DEF Promoted
<1> QED  BY <1>1, <1>3, <1>4, <1>5, <1>6, PruningContinues

LEMMA EndPruneStep ==
    ASSUME Inv, NEW w \in Workers, EndPrune(w)
    PROVE  Inv'
<1> DEFINE o == tx[w]
<1> DEFINE t == [o EXCEPT !.stage = "commit"]
<1>1. o.stage = "prune" /\ o.stage \in Promoted /\ o.stage \in Switching \ {"collect"}
  BY DEF EndPrune, Promoted, Switching, Archived, Demoted
<1>2. o \in Transactions
  BY <1>1, SwitchFacts
<1>3. tx' = [tx EXCEPT ![w] = t] /\ UNCHANGED <<committed, owner, crashes>>
  BY DEF EndPrune
<1>4. /\ t \in Transactions
      /\ t.stage = "commit" /\ SameSwitch(t, o) /\ t.writes = o.writes
      /\ t.candidates = o.candidates /\ t.batch = o.batch /\ t.deleted = o.deleted
  BY <1>2 DEF Transactions, Stages, SameSwitch
<1> HIDE DEF t
<1>5. CollectsSafely(w, t)
  BY <1>1, <1>4, CollectionUnchanged DEF SameSwitch
<1>6. t.stage \in Promoted
  BY <1>4 DEF Promoted
<1> QED  BY <1>1, <1>3, <1>4, <1>5, <1>6, PruningContinues

---------------------------------------------------------------------------
(* Commits. *)

(* u is the transaction t after another one has committed that deleted the *)
(* contents gone.                                                          *)
After(u, t, gone) ==
    /\ u \in Transactions
    /\ u.stage = t.stage /\ u.kind = t.kind /\ u.source = t.source /\ u.run = t.run
    /\ u.active = t.active /\ u.previous = t.previous /\ u.writes = t.writes
    /\ u.todo = t.todo /\ u.inserted = t.inserted /\ u.linked = t.linked
    /\ u.candidates = t.candidates /\ u.deleted = t.deleted
    /\ u.cursor = Resolve(t.cursor, gone)
    /\ u.batch = t.batch \ gone

LEMMA AfterIsWellDefined ==
    ASSUME NEW t \in Transactions, NEW gone \in SUBSET Contents
    PROVE  /\ After([t EXCEPT !.cursor = Resolve(t.cursor, gone), !.batch = t.batch \ gone],
                    t, gone)
           /\ After(t, t, {})
<1>1. Resolve(t.cursor, gone) \in Contents \cup {NoContent, Dangling}
  BY DEF Transactions, Resolve
<1>2. After([t EXCEPT !.cursor = Resolve(t.cursor, gone), !.batch = t.batch \ gone], t, gone)
  <2>1. ASSUME NEW cursor \in Contents \cup {NoContent, Dangling}, NEW batch \in SUBSET Contents
        PROVE  LET u == [t EXCEPT !.cursor = cursor, !.batch = batch] IN
               /\ u \in Transactions
               /\ u.stage = t.stage /\ u.kind = t.kind /\ u.source = t.source /\ u.run = t.run
               /\ u.active = t.active /\ u.previous = t.previous /\ u.writes = t.writes
               /\ u.todo = t.todo /\ u.inserted = t.inserted /\ u.linked = t.linked
               /\ u.candidates = t.candidates /\ u.deleted = t.deleted
               /\ u.cursor = cursor /\ u.batch = batch
    BY DEF Transactions
  <2>2. t.batch \ gone \in SUBSET Contents
    BY DEF Transactions
  <2> QED  BY <1>1, <2>1, <2>2 DEF After
<1>3. After(t, t, {})
  BY DEF After, Resolve
<1> QED  BY <1>2, <1>3

(* The commit of c adds and removes only rows c inserted and deleted, and  *)
(* lists only contents c linked.                                           *)
CommitOf(c, occ, occ2, added, gone) ==
    /\ gone \subseteq c.deleted /\ added \subseteq c.inserted
    /\ \A r \in Runs : occ2[r] \subseteq occ[r] \cup c.linked

(* The source that t holds is as it was. *)
SourceKept(t, st, st2, occ, occ2) ==
    t.stage \in Building \cup Switching =>
        \A r \in Runs : SourceOf[r] = t.source => st2[r] = st[r] /\ occ2[r] = occ[r]

(* What the transaction t knows and counts on survives the commit of c.    *)
LEMMA OthersSurvive ==
    ASSUME NEW t \in Transactions, NEW u, NEW c,
           NEW st, NEW st2, NEW occ, NEW occ2, NEW stored, NEW added, NEW gone,
           After(u, t, gone), Local(t, st, occ), Stored(t, occ, stored), Apart(t, c),
           CommitOf(c, occ, occ2, added, gone), SourceKept(t, st, st2, occ, occ2)
    PROVE  Local(u, st2, occ2) /\ Stored(u, occ2, (stored \cup added) \ gone)
<1> USE DEF CommitOf, SourceKept
<1>1. Local(t, st2, occ2)
  BY LocalIsAboutItsSource
<1>2. Local(u, st2, occ2)
  <2>1. CASE t.stage \in Building
    <3>1. BuildLocal(t, st2)
      BY <1>1, <2>1 DEF Local
    <3>2. BuildLocal(u, st2)
      BY <3>1, NullsAssumption DEF BuildLocal, After, Resolve
    <3> QED  BY <2>1, <3>2 DEF Local, After, Building, Switching, Archived, Demoted, Promoted
  <2>2. CASE t.stage \in Switching
    <3>1. SwitchLocal(t, st2, occ2)
      BY <1>1, <2>2 DEF Local
    <3>2. Flushed(u) = Flushed(t) /\ Pruned(u, occ2) = Pruned(t, occ2)
      BY DEF After, Flushed, Pruned
    <3>3. SwitchLocal(u, st2, occ2)
      BY <3>1, <3>2 DEF SwitchLocal, After
    <3> QED  BY <2>2, <3>3 DEF Local, After, Building, Switching, Archived, Demoted, Promoted
  <2>3. CASE t.stage \notin Building \cup Switching
    BY <1>1, <2>3 DEF Local, After, QuietLocal
  <2> QED  BY <2>1, <2>2, <2>3
<1>3. Stored(u, occ2, (stored \cup added) \ gone)
  <2> DEFINE new == (stored \cup added) \ gone
  <2>1. u.linked \subseteq new \cup u.inserted
    BY DEF Stored, After, Apart
  <2>2. u.cursor \in Contents => u.cursor \in new \cup u.inserted
    BY NullsAssumption DEF Stored, After, Resolve
  <2>3. u.inserted \cap new = {}
    BY DEF Stored, After, Apart
  <2>4. u.deleted \cup u.batch \subseteq new
    BY DEF Stored, After, Apart
  <2>5. \A x \in u.deleted \ u.batch : \A r \in Runs \ {u.previous} : x \notin occ2[r]
    BY DEF Stored, After, Apart
  <2> QED  BY <2>1, <2>2, <2>3, <2>4, <2>5 DEF Stored
<1> QED  BY <1>2, <1>3

(* Worker w commits: it becomes t, the contents added and gone are stored  *)
(* and deleted, and only the runs of its source change.                    *)
CommitsAs(w, t, added, gone) ==
    /\ tx'[w] = t
    /\ \A v \in Workers \ {w} : After(tx'[v], tx[v], gone)
    /\ tx' \in [Workers -> Transactions]
    /\ failure' \in [Runs -> {"none", "snapshot", "conflict"}]
    /\ crashes' = crashes
    /\ ReleaseLocks(w)
    /\ contents' = (contents \cup added) \ gone
    /\ CommitOf(tx[w], occurrences, occurrences', added, gone)
    /\ \A r \in Runs : SourceOf[r] # tx[w].source =>
           status'[r] = status[r] /\ occurrences'[r] = occurrences[r]

(* A commit that the lifecycle allows keeps the invariant. *)
LEMMA CommitStep ==
    ASSUME Inv, NEW w \in Workers, NEW t \in Transactions, Quiet(t),
           NEW added, NEW gone,
           tx[w].stage \in Building \cup Switching,
           CommitsAs(w, t, added, gone),
           Generations!Next
    PROVE  Inv'
<1> USE DEF CommitsAs
<1>1. Promises!Inv'
  BY GenerationsKeepPromises DEF Inv
<1>2. TypeOK /\ ReleaseLocks(w)
  BY DEF Inv
<1>3. tx'[w] = t
  OBVIOUS
<1>4. TypeOK'
  <2>1. Promises!TypeOK'
    BY <1>1 DEF Promises!Inv
  <2>2. tx' \in [Workers -> Transactions]
    OBVIOUS
  <2>3. owner' \in [Sources -> Workers \cup {NoWorker}] /\ crashes' \in 0..MaxCrashes
    BY <1>2, ReleaseKeepsOthers DEF TypeOK
  <2> QED
    BY <2>1, <2>2, <2>3 DEF TypeOK, Promises!TypeOK, Promises!Statuses, Generations!Statuses
<1>5. ASSUME NEW v \in Workers
      PROVE  /\ Holds(v, tx'[v], owner')
             /\ Local(tx'[v], status', occurrences')
             /\ Stored(tx'[v], occurrences', contents')
  <2>1. CASE v = w
    BY <1>3, <2>1, QuietIsSound
  <2>2. CASE v # w
    <3>1. After(tx'[v], tx[v], gone)
      BY <2>2
    <3>2. Holds(v, tx[v], owner) /\ Holds(w, tx[w], owner) /\ Apart(tx[v], tx[w])
          /\ tx[v] \in Transactions
      BY <2>2, WorkerFacts
    <3>3. tx[v].stage \in Building \cup Switching =>
              tx[v].source \in Sources /\ owner[tx[v].source] = v /\ tx[v].source # tx[w].source
      BY <2>2, <3>2 DEF Holds
    <3>4. Holds(v, tx'[v], owner')
      BY <1>2, <2>2, <3>1, <3>3, ReleaseKeepsOthers DEF Holds, After
    <3>5. Local(tx[v], status, occurrences) /\ Stored(tx[v], occurrences, contents)
      BY WorkerFacts
    <3>6. SourceKept(tx[v], status, status', occurrences, occurrences')
      BY <3>3 DEF SourceKept
    <3>7. CommitOf(tx[w], occurrences, occurrences', added, gone)
      OBVIOUS
    <3>8. /\ Local(tx'[v], status', occurrences')
          /\ Stored(tx'[v], occurrences', (contents \cup added) \ gone)
      BY <3>1, <3>2, <3>5, <3>6, <3>7, OthersSurvive
    <3> QED  BY <3>4, <3>8
  <2> QED  BY <2>1, <2>2
<1>6. ASSUME NEW v \in Workers, NEW z \in Workers, z # v
      PROVE  Apart(tx'[v], tx'[z])
  <2>1. CASE v = w \/ z = w
    BY <1>3, <2>1, QuietIsSound
  <2>2. CASE v # w /\ z # w
    <3>1. Apart(tx[v], tx[z])
      BY <1>6, WorkerFacts
    <3> QED  BY <2>2, <3>1 DEF Apart, After
  <2> QED  BY <2>1, <2>2
<1> QED  BY <1>1, <1>4, <1>5, <1>6 DEF Inv

(* What the invariant says of a worker inside a build. *)
LEMMA BuildFacts ==
    ASSUME Inv, NEW w \in Workers, tx[w].stage \in Building
    PROVE  /\ tx[w] \in Transactions
           /\ tx[w].source \in Sources
           /\ BuildLocal(tx[w], status)
           /\ Stored(tx[w], occurrences, contents)
BY WorkerFacts DEF Local, Holds

(* The other transactions are untouched by a commit that deletes nothing. *)
LEMMA OthersStay ==
    ASSUME Inv, NEW w \in Workers, NEW t \in Transactions, tx' = [tx EXCEPT ![w] = t]
    PROVE  /\ tx'[w] = t /\ \A v \in Workers \ {w} : After(tx'[v], tx[v], {})
           /\ tx' \in [Workers -> Transactions]
BY WorkerFacts, AfterIsWellDefined DEF Inv, TypeOK

(* A build that commits as READY publishes its run. *)
LEMMA CommitReadyStep ==
    ASSUME Inv, NEW w \in Workers, CommitReady(w)
    PROVE  Generations!Next /\ Inv'
<1> DEFINE o == tx[w]
<1> DEFINE t == [NoTransaction EXCEPT !.stage = "built", !.source = o.source, !.run = o.run]
<1>1. o.stage = "build" /\ o.stage \in Building /\ o.todo = {}
  BY DEF CommitReady, Building
<1>2. /\ o \in Transactions /\ o.source \in Sources
      /\ BuildLocal(o, status) /\ Stored(o, occurrences, contents)
  BY <1>1, BuildFacts
<1>3. o.run \in Runs /\ SourceOf[o.run] = o.source /\ status[o.run] = "absent"
  BY <1>2 DEF BuildLocal
<1>4. o.linked = Snapshot[o.run]
  BY <1>1, <1>2 DEF BuildLocal
<1>5. contents \cup o.inserted = contents \cup Snapshot[o.run]
  BY <1>2, <1>4 DEF BuildLocal, Stored
<1>6. Generations!Next
  <2>1. Generations!PublishReady(o.run)
    BY <1>3, <1>4, <1>5 DEF CommitReady, Generations!PublishReady
  <2> QED  BY <1>3, <2>1 DEF Generations!Next
<1>7. t \in Transactions /\ Quiet(t)
  <2>1. NoRun \in Runs \cup {NoRun}
    OBVIOUS
  <2> QED  BY <1>2, <1>3, <2>1, BegunIsQuiet
<1>8. tx' = [tx EXCEPT ![w] = t] /\ crashes' = crashes /\ ReleaseLocks(w)
  BY DEF CommitReady
<1> HIDE DEF t
<1>9. /\ tx'[w] = t
      /\ \A v \in Workers \ {w} : After(tx'[v], tx[v], {})
      /\ tx' \in [Workers -> Transactions]
  BY <1>7, <1>8, OthersStay
<1>10. TypeOK
  BY DEF Inv
<1>11. failure' \in [Runs -> {"none", "snapshot", "conflict"}]
  BY <1>10 DEF CommitReady, TypeOK
<1>12. contents' = (contents \cup o.inserted) \ {}
  BY DEF CommitReady
<1>13. \A r \in Runs : occurrences'[r] \subseteq occurrences[r] \cup o.linked
  BY <1>10 DEF CommitReady, TypeOK
<1>14. \A r \in Runs : SourceOf[r] # o.source =>
           status'[r] = status[r] /\ occurrences'[r] = occurrences[r]
  BY <1>3, <1>10 DEF CommitReady, TypeOK
<1>15. o.stage \in Building \cup Switching /\ {} \subseteq o.deleted /\ o.inserted \subseteq o.inserted
  BY <1>1
<1>16. CommitOf(o, occurrences, occurrences', o.inserted, {})
  BY <1>13, <1>15 DEF CommitOf
<1>17. crashes' = crashes /\ ReleaseLocks(w)
  BY <1>8
<1>18. CommitsAs(w, t, o.inserted, {})
  BY <1>9, <1>11, <1>12, <1>14, <1>16, <1>17 DEF CommitsAs
<1> QED  BY <1>6, <1>7, <1>15, <1>18, CommitStep

(* A build that commits as FAILED publishes its failure. *)
LEMMA CommitFailedStep ==
    ASSUME Inv, NEW w \in Workers, tx[w].stage \in Building,
           NEW cause \in {"snapshot", "conflict"}, CommitFailed(w, cause)
    PROVE  Generations!Next /\ Inv'
<1> DEFINE o == tx[w]
<1>1. o \in Transactions /\ o.source \in Sources /\ BuildLocal(o, status)
  BY BuildFacts
<1>2. o.run \in Runs /\ SourceOf[o.run] = o.source /\ status[o.run] = "absent"
  BY <1>1 DEF BuildLocal
<1>3. Generations!Next
  <2>1. Generations!PublishFailed(o.run)
    BY <1>2 DEF CommitFailed, Generations!PublishFailed
  <2> QED  BY <1>2, <2>1 DEF Generations!Next
<1>4. tx' = [tx EXCEPT ![w] = NoTransaction] /\ crashes' = crashes /\ ReleaseLocks(w)
  BY DEF CommitFailed
<1>5. /\ tx'[w] = NoTransaction
      /\ \A v \in Workers \ {w} : After(tx'[v], tx[v], {})
      /\ tx' \in [Workers -> Transactions]
  BY <1>4, NoTransactionIsQuiet, OthersStay
<1>6. TypeOK
  BY DEF Inv
<1>7. failure' \in [Runs -> {"none", "snapshot", "conflict"}]
  BY <1>6 DEF CommitFailed, TypeOK
<1>8. contents' = (contents \cup {}) \ {}
  BY DEF CommitFailed
<1>9. \A r \in Runs : occurrences'[r] \subseteq occurrences[r] \cup o.linked
  BY DEF CommitFailed
<1>10. \A r \in Runs : SourceOf[r] # o.source =>
           status'[r] = status[r] /\ occurrences'[r] = occurrences[r]
  BY <1>2, <1>6 DEF CommitFailed, TypeOK
<1>11. o.stage \in Building \cup Switching /\ {} \subseteq o.deleted /\ {} \subseteq o.inserted
  OBVIOUS
<1>12. CommitOf(o, occurrences, occurrences', {}, {})
  BY <1>9, <1>11 DEF CommitOf
<1>13. crashes' = crashes /\ ReleaseLocks(w)
  BY <1>4
<1>14. CommitsAs(w, NoTransaction, {}, {})
  BY <1>5, <1>7, <1>8, <1>10, <1>12, <1>13 DEF CommitsAs
<1> QED  BY <1>3, <1>11, <1>14, NoTransactionIsQuiet, CommitStep

(* What a switch has flushed when it commits is the succession of its run. *)
LEMMA FlushesAreTheSuccession ==
    ASSUME Inv, NEW w \in Workers, tx[w].stage = "commit"
    PROVE  View(w) = Generations!Succession(tx[w].run)
<1> DEFINE o == tx[w]
<1>1. o \in Transactions /\ SwitchLocal(o, status, occurrences)
  BY SwitchFacts DEF Switching, Archived, Demoted, Promoted
<1>2. \A r \in Runs : o.writes[r] = IF r = o.run THEN "active"
                                    ELSE IF r = o.active THEN "previous"
                                    ELSE IF r = o.previous THEN "archived"
                                    ELSE Unwritten
  BY <1>1 DEF SwitchLocal, Flushed, Promoted, Demoted, Archived
<1>3. /\ Only(status, o.source, "active", o.active)
      /\ Only(status, o.source, "previous", o.previous)
      /\ SourceOf[o.run] = o.source
  BY <1>1 DEF SwitchLocal
<1>4. ASSUME NEW r \in Runs
      PROVE  View(w)[r] = Generations!Succession(o.run)[r]
  <2>1. SourceOf[r] = o.source /\ status[r] = "active" <=> r = o.active
    BY <1>3 DEF Only
  <2>2. SourceOf[r] = o.source /\ status[r] = "previous" <=> r = o.previous
    BY <1>3 DEF Only
  <2>3. CASE r = o.run
    BY <1>2, <2>3 DEF View, Generations!Succession, Unwritten
  <2>4. CASE r # o.run /\ r = o.active
    BY <1>2, <1>3, <2>1, <2>4 DEF View, Generations!Succession, Unwritten
  <2>5. CASE r # o.run /\ r # o.active /\ r = o.previous
    BY <1>2, <1>3, <2>2, <2>5 DEF View, Generations!Succession, Unwritten
  <2>6. CASE r # o.run /\ r # o.active /\ r # o.previous
    BY <1>2, <1>3, <2>1, <2>2, <2>6 DEF View, Generations!Succession, Unwritten
  <2> QED  BY <2>3, <2>4, <2>5, <2>6
<1>5. View(w) = [r \in Runs |-> View(w)[r]]
  BY DEF View
<1>6. Generations!Succession(o.run) = [r \in Runs |-> Generations!Succession(o.run)[r]]
  BY DEF Generations!Succession
<1> QED  BY <1>4, <1>5, <1>6

(* A switch that commits is an activation or a rollback of the lifecycle.  *)
LEMMA CommitSwitchIsPromised ==
    ASSUME Inv, NEW w \in Workers, CommitSwitch(w)
    PROVE  Generations!Next
<1> DEFINE o == tx[w]
<1>1. o.stage = "commit" /\ o.stage \in Switching
  BY DEF CommitSwitch, Switching, Archived, Demoted, Promoted
<1>2. o \in Transactions /\ SwitchLocal(o, status, occurrences) /\ CollectsSafely(w, o)
  BY <1>1, SwitchFacts
<1>3. /\ o.run \in Runs /\ SourceOf[o.run] = o.source
      /\ \A q \in Runs : SourceOf[q] = o.source /\ status[q] = "previous" <=> q = o.previous
      /\ o.kind = "activate" => status[o.run] = "ready"
      /\ o.kind = "rollback" => o.run = o.previous
      /\ o.kind \in {"activate", "rollback"}
      /\ o.previous \in Runs \cup {NoRun}
      /\ o.deleted \subseteq Pruned(o, occurrences)
      /\ o.batch = {}
  BY <1>1, <1>2 DEF SwitchLocal, Only, Transactions
<1>4. status' = Generations!Succession(o.run)
  BY <1>1, FlushesAreTheSuccession DEF CommitSwitch
<1>5. pointer' = [pointer EXCEPT ![SourceOf[o.run]] = o.run]
  BY <1>3 DEF CommitSwitch
<1>6. contents' = contents \ o.deleted
  BY DEF CommitSwitch
<1>7. TypeOK
  BY DEF Inv
<1>8. CASE o.kind = "activate"
  <2>1. occurrences' = [q \in Runs |->
                           IF SourceOf[q] = SourceOf[o.run] /\ status[q] = "previous"
                           THEN {} ELSE occurrences[q]]
    <3>1. CASE o.previous = NoRun
      <4>1. occurrences' = occurrences
        BY <1>8, <3>1 DEF CommitSwitch
      <4> QED  BY <1>3, <1>7, <3>1, <4>1, NullsAssumption DEF TypeOK
    <3>2. CASE o.previous # NoRun
      <4>1. occurrences' = [occurrences EXCEPT ![o.previous] = {}]
        BY <1>8, <3>2 DEF CommitSwitch
      <4> QED  BY <1>3, <1>7, <4>1 DEF TypeOK
    <3> QED  BY <3>1, <3>2
  <2>2. o.deleted \in SUBSET Generations!Collectable(o.run)
    <3>1. ASSUME NEW c \in o.deleted
          PROVE  c \in Generations!Collectable(o.run)
      <4>1. o.previous \in Runs /\ c \in occurrences[o.previous]
        BY <1>3 DEF Pruned
      <4>2. c \in contents /\ \A r \in Runs \ {o.previous} : c \notin occurrences[r]
        BY <1>2, <1>3 DEF CollectsSafely
      <4> QED  BY <1>3, <4>1, <4>2 DEF Generations!Collectable, Generations!RunsOf
    <3> QED  BY <3>1
  <2>3. Generations!Activate(o.run)
    BY <1>3, <1>4, <1>5, <1>6, <1>8, <2>1, <2>2 DEF Generations!Activate
  <2> QED  BY <1>3, <2>3 DEF Generations!Next
<1>9. CASE o.kind = "rollback"
  <2>1. o.deleted = {}
    BY <1>3, <1>9 DEF Pruned
  <2>2. UNCHANGED <<occurrences, contents>>
    BY <1>6, <1>9, <2>1 DEF CommitSwitch
  <2>3. Generations!Rollback(o.run)
    BY <1>3, <1>4, <1>5, <1>9, <2>2 DEF Generations!Rollback
  <2> QED  BY <1>3, <2>3 DEF Generations!Next
<1> QED  BY <1>3, <1>8, <1>9

(* A switch that commits changes only its source and what it collected.    *)
LEMMA CommitSwitchStep ==
    ASSUME Inv, NEW w \in Workers, CommitSwitch(w)
    PROVE  Inv'
<1> DEFINE o == tx[w]
<1>1. o.stage = "commit" /\ o.stage \in Switching
  BY DEF CommitSwitch, Switching, Archived, Demoted, Promoted
<1>2. o \in Transactions /\ SwitchLocal(o, status, occurrences) /\ TypeOK
  BY <1>1, SwitchFacts DEF Inv
<1>3. o.deleted \in SUBSET Contents
  BY <1>2 DEF Transactions
<1>4. tx'[w] = NoTransaction
  BY DEF CommitSwitch
<1>5. \A v \in Workers \ {w} : After(tx'[v], tx[v], o.deleted)
  BY <1>3, WorkerFacts, AfterIsWellDefined DEF CommitSwitch
<1>6. tx' \in [Workers -> Transactions]
  <2>1. \A v \in Workers : tx'[v] \in Transactions
    BY <1>4, <1>5, NoTransactionIsQuiet DEF After
  <2>2. tx' = [v \in Workers |-> tx'[v]]
    BY DEF CommitSwitch
  <2> QED  BY <2>1, <2>2
<1>7. failure' \in [Runs -> {"none", "snapshot", "conflict"}] /\ crashes' = crashes
      /\ ReleaseLocks(w) /\ contents' = (contents \cup {}) \ o.deleted
  BY <1>2 DEF CommitSwitch, TypeOK
<1>8. CommitOf(o, occurrences, occurrences', {}, o.deleted)
  BY <1>2 DEF CommitSwitch, CommitOf, TypeOK
<1>9. ASSUME NEW r \in Runs, SourceOf[r] # o.source
      PROVE  status'[r] = status[r] /\ occurrences'[r] = occurrences[r]
  <2>1. status' = Generations!Succession(o.run)
    BY <1>1, FlushesAreTheSuccession DEF CommitSwitch
  <2>2. o.run \in Runs /\ SourceOf[o.run] = o.source /\ r # o.previous
    BY <1>2, <1>9 DEF SwitchLocal, Only
  <2>3. status'[r] = status[r]
    BY <1>9, <2>1, <2>2 DEF Generations!Succession
  <2>4. occurrences'[r] = occurrences[r]
    BY <1>2, <2>2 DEF CommitSwitch, TypeOK
  <2> QED  BY <2>3, <2>4
<1>10. CommitsAs(w, NoTransaction, {}, o.deleted)
  BY <1>4, <1>5, <1>6, <1>7, <1>8, <1>9 DEF CommitsAs
<1> QED
  BY <1>1, <1>10, CommitSwitchIsPromised, NoTransactionIsQuiet, CommitStep

---------------------------------------------------------------------------
(* Every step is a commit or leaves the database as it was. *)
Commit(w) ==
    \/ CommitReady(w)
    \/ /\ tx[w].stage \in Building
       /\ \E cause \in {"snapshot", "conflict"} : CommitFailed(w, cause)
    \/ CommitSwitch(w)

LEMMA CommitPreservesInv ==
    ASSUME Inv, NEW w \in Workers, Commit(w)
    PROVE  Generations!Next /\ Inv'
BY CommitReadyStep, CommitFailedStep, CommitSwitchStep, CommitSwitchIsPromised DEF Commit

LEMMA BuildStepPreservesInv ==
    ASSUME Inv, NEW w \in Workers, BuildStep(w)
    PROVE  Commit(w) \/ (UNCHANGED committed /\ Inv')
<1>1. ASSUME NEW c \in Contents, UpsertContent(w, c)  PROVE UNCHANGED committed /\ Inv'
  BY <1>1, UpsertContentStep DEF UpsertContent
<1>2. CASE CreateOccurrence(w)
  BY <1>2, CreateOccurrenceStep DEF CreateOccurrence
<1>3. CASE DanglingReference(w)
  BY <1>3 DEF DanglingReference, Commit, Building
<1>4. CASE CommitReady(w)
  BY <1>4 DEF Commit
<1>5. CASE tx[w].stage = "built" /\ BeginActivation(w, tx[w].source, tx[w].run)
  <2>1. tx[w].source \in Sources /\ tx[w].run \in Runs
    <3>1. QuietLocal(tx[w]) /\ tx[w] \in Transactions
      BY <1>5, WorkerFacts DEF Local, Building, Switching, Archived, Demoted, Promoted
    <3> QED  BY <1>5, <3>1 DEF QuietLocal
  <2> QED  BY <1>5, <2>1, BeginSwitchStep DEF BeginActivation
<1> QED  BY <1>1, <1>2, <1>3, <1>4, <1>5 DEF BuildStep

LEMMA RefusalPreservesInv ==
    ASSUME Inv, NEW w \in Workers, EndWithoutEffect(w), UNCHANGED crashes
    PROVE  UNCHANGED committed /\ Inv'
<1>1. crashes' \in 0..MaxCrashes
  BY DEF Inv, TypeOK
<1> QED  BY <1>1, EndStep DEF EndWithoutEffect

LEMMA SwitchStepPreservesInv ==
    ASSUME Inv, NEW w \in Workers, SwitchStep(w)
    PROVE  Commit(w) \/ (UNCHANGED committed /\ Inv')
<1>1. ASSUME NEW p \in Runs \cup {NoRun},
             \/ LockForActivation(w, tx[w].observed, p)
             \/ LockForRollback(w, tx[w].observed, p)
      PROVE  UNCHANGED committed /\ Inv'
  <2>1. tx[w].observed \in Runs \cup {NoRun}
    BY WorkerFacts DEF Transactions
  <2> QED  BY <1>1, <2>1, LockStep DEF LockForActivation, LockForRollback
<1>2. CASE RefuseLock(w) \/ RestrictedDelete(w)
  BY <1>2, RefusalPreservesInv DEF RefuseLock, RestrictedDelete
<1>3. CASE ValidateTarget(w)
  BY <1>3, ValidateTargetStep DEF ValidateTarget
<1>4. CASE ArchivePrevious(w)
  BY <1>4, ArchivePreviousStep DEF ArchivePrevious
<1>5. CASE DemoteActive(w)
  BY <1>5, DemoteActiveStep DEF DemoteActive
<1>6. CASE PromoteTarget(w)
  BY <1>6, PromoteTargetStep DEF PromoteTarget
<1>7. ASSUME NEW some \in SUBSET Contents, SelectBatch(w, some)
      PROVE  UNCHANGED committed /\ Inv'
  BY <1>7, SelectBatchStep DEF SelectBatch
<1>8. ASSUME NEW c \in Contents, DeleteContent(w, c)  PROVE UNCHANGED committed /\ Inv'
  BY <1>8, DeleteContentStep DEF DeleteContent
<1>9. CASE EndBatch(w)
  BY <1>9, EndBatchStep DEF EndBatch
<1>10. CASE EndPrune(w)
  BY <1>10, EndPruneStep DEF EndPrune
<1>11. CASE CommitSwitch(w)
  BY <1>11 DEF Commit
<1> QED
  BY <1>1, <1>2, <1>3, <1>4, <1>5, <1>6, <1>7, <1>8, <1>9, <1>10, <1>11 DEF SwitchStep

(* A build that PostgreSQL cancels is still inside its savepoint. *)
LEMMA CancelDeadlockPreservesInv ==
    ASSUME Inv, NEW w \in Workers, CancelDeadlock(w)
    PROVE  Commit(w) \/ (UNCHANGED committed /\ Inv')
<1>1. PICK v \in Workers : WaitsFor(w, v)
  BY DEF CancelDeadlock, Deadlocked, Stuck
<1>2. CASE tx[w].kind = "build"
  <2>1. tx[w].stage # "collect"
    <3>1. CASE tx[w].stage = "collect"
      <4>1. tx[w].stage \in Switching
        BY <3>1 DEF Switching, Archived, Demoted, Promoted
      <4>2. SwitchLocal(tx[w], status, occurrences)
        BY <4>1, WorkerFacts DEF Local
      <4> QED  BY <1>2, <4>2 DEF SwitchLocal
    <3> QED  BY <3>1
  <2>2. tx[w].stage \in Building
    BY <1>1, <2>1 DEF WaitsFor, Building
  <2> QED  BY <1>2, <2>2 DEF CancelDeadlock, Commit
<1>3. CASE tx[w].kind # "build"
  BY <1>3, RefusalPreservesInv DEF CancelDeadlock
<1> QED  BY <1>2, <1>3

LEMMA StepIsCommitOrNot ==
    ASSUME Inv, Next
    PROVE  (\E w \in Workers : Commit(w)) \/ (UNCHANGED committed /\ Inv')
<1>1. ASSUME NEW w \in Workers, Progress(w)
      PROVE  Commit(w) \/ (UNCHANGED committed /\ Inv')
  BY <1>1, BuildStepPreservesInv, SwitchStepPreservesInv, CancelDeadlockPreservesInv
     DEF Progress
<1>2. ASSUME NEW w \in Workers, Start(w)  PROVE UNCHANGED committed /\ Inv'
  <2>1. ASSUME NEW r \in Runs, BeginBuild(w, r)  PROVE UNCHANGED committed /\ Inv'
    BY <2>1, BeginBuildStep DEF BeginBuild
  <2>2. ASSUME NEW s \in Sources,
               (\E r \in Runs : BeginActivation(w, s, r)) \/ BeginRollback(w, s)
        PROVE  UNCHANGED committed /\ Inv'
    BY <2>2, BeginSwitchStep DEF BeginActivation, BeginRollback
  <2> QED  BY <1>2, <2>1, <2>2 DEF Start
<1>3. ASSUME NEW w \in Workers, SnapshotFault(w)  PROVE Commit(w)
  BY <1>3 DEF SnapshotFault, Commit, Building
<1>4. ASSUME NEW w \in Workers, RefuseRollback(w)  PROVE UNCHANGED committed /\ Inv'
  BY <1>4, RefusalPreservesInv DEF RefuseRollback
<1>5. ASSUME NEW w \in Workers, Crash(w)  PROVE UNCHANGED committed /\ Inv'
  <2>1. crashes' \in 0..MaxCrashes
    BY <1>5, MaxCrashesAssumption DEF Crash, Inv, TypeOK
  <2> QED  BY <1>5, <2>1, EndStep DEF Crash, EndWithoutEffect
<1> QED  BY <1>1, <1>2, <1>3, <1>4, <1>5 DEF Next

LEMMA StutterPreservesInv ==
    ASSUME Inv, UNCHANGED vars
    PROVE  Inv'
<1>1. Promises!Inv'
  BY GenerationsKeepPromises DEF Inv, vars, committed, Generations!vars
<1> QED  BY <1>1 DEF Inv, vars, committed, TypeOK

LEMMA NextPreservesInv == Inv /\ [Next]_vars => Inv' /\ [Generations!Next]_(Generations!vars)
<1> SUFFICES ASSUME Inv, [Next]_vars
             PROVE  Inv' /\ [Generations!Next]_(Generations!vars)
  OBVIOUS
<1>1. CASE Next
  BY <1>1, StepIsCommitOrNot, CommitPreservesInv DEF committed, Generations!vars
<1>2. CASE UNCHANGED vars
  BY <1>2, StutterPreservesInv DEF vars, committed, Generations!vars
<1> QED  BY <1>1, <1>2

LEMMA InvariantHolds == Spec => []Inv
<1>1. Inv /\ [Next]_vars => Inv'
  BY NextPreservesInv
<1> QED  BY <1>1, InitEstablishesInv, PTL DEF Spec

---------------------------------------------------------------------------
(* Every variable keeps its type, in every interleaving of any number of   *)
(* commands (IndexTransactions, all actions).                              *)
THEOREM TypeCorrect == Spec => []TypeOK
<1>1. Inv => TypeOK
  BY DEF Inv
<1> QED  BY <1>1, InvariantHolds, PTL

(* What other sessions can see of the statement-level program is an        *)
(* execution of the lifecycle: builds publish whole runs, switches take    *)
(* effect at once (pipeline.py, index; activation.py, activate and         *)
(* rollback; repository_activation.py).  Every promise of IndexGenerations *)
(* holds of the code's database because of it.                             *)
THEOREM Refinement == Spec => ImplementsGenerations
<1>1. Init => Generations!Init
  BY DEF Init
<1>2. Inv /\ [Next]_vars => [Generations!Next]_(Generations!vars)
  BY NextPreservesInv
<1> QED
  BY <1>1, <1>2, InvariantHolds, PTL DEF Spec, ImplementsGenerations, Generations!Spec

(* The statuses a transaction has not written are the committed ones. *)
LEMMA UniqueInView ==
    ASSUME Inv, NEW w \in Workers, NEW r \in Runs, NEW q \in Runs,
           SourceOf[r] = SourceOf[q], View(w)[r] = View(w)[q],
           View(w)[r] \in {"active", "previous"}
    PROVE  r = q
<1> DEFINE o == tx[w]
<1>1. /\ status[r] = "active" /\ status[q] = "active" => r = q
      /\ status[r] = "previous" /\ status[q] = "previous" => r = q
  <2>1. Promises!PointerNamesActive /\ Promises!FallbackIsUnambiguous
    BY DEF Inv, Promises!Inv
  <2>2. CASE status[r] = "active" /\ status[q] = "active"
    BY <2>1, <2>2, SourceOfAssumption DEF Promises!PointerNamesActive
  <2>3. CASE status[r] = "previous" /\ status[q] = "previous"
    BY <2>1, <2>3 DEF Promises!FallbackIsUnambiguous
  <2> QED  BY <2>2, <2>3
<1>2. \A x \in Runs : View(w)[x] = IF o.writes[x] = Unwritten THEN status[x] ELSE o.writes[x]
  BY DEF View
<1>3. o \in Transactions /\ Local(o, status, occurrences)
  BY WorkerFacts
<1>4. CASE o.stage \in Building
  <2>1. o.writes = [NothingWritten EXCEPT ![o.run] = "building"]
    BY <1>3, <1>4 DEF Local, BuildLocal
  <2>2. \A x \in Runs : View(w)[x] \in {"active", "previous"} => View(w)[x] = status[x]
    BY <1>2, <2>1 DEF NothingWritten, Unwritten
  <2> QED  BY <1>1, <2>2
<1>5. CASE o.stage \in Switching
  <2>1. /\ o.writes = Flushed(o)
        /\ Only(status, o.source, "active", o.active)
        /\ Only(status, o.source, "previous", o.previous)
        /\ o.run \in Runs /\ SourceOf[o.run] = o.source
        /\ o.kind = "activate" => status[o.run] = "ready"
        /\ o.kind = "rollback" => o.run = o.previous
        /\ o.kind \in {"activate", "rollback"}
    BY <1>3, <1>5 DEF Local, SwitchLocal
  <2>2. ASSUME NEW x \in Runs, SourceOf[x] # o.source  PROVE View(w)[x] = status[x]
    BY <1>2, <2>1, <2>2 DEF Flushed, Only, Unwritten
  <2>3. CASE SourceOf[r] # o.source
    BY <1>1, <2>2, <2>3
  <2>4. CASE SourceOf[r] = o.source
    <3> DEFINE live == IF o.stage \in Promoted THEN o.run ELSE o.active
    <3> DEFINE fallback == IF o.stage \in Demoted THEN o.active ELSE o.previous
    <3>1. ASSUME NEW x \in Runs, SourceOf[x] = o.source, View(w)[x] = "active"
          PROVE  x = live
      BY <1>2, <2>1, <3>1 DEF Flushed, Only, Unwritten, Promoted, Demoted, Archived
    <3>2. ASSUME NEW x \in Runs, SourceOf[x] = o.source, View(w)[x] = "previous"
          PROVE  x = fallback
      BY <1>2, <2>1, <3>2 DEF Flushed, Only, Unwritten, Promoted, Demoted, Archived
    <3> HIDE DEF live, fallback, o
    <3>3. CASE View(w)[r] = "active"
      BY <2>4, <3>1, <3>3
    <3>4. CASE View(w)[r] = "previous"
      BY <2>4, <3>2, <3>4
    <3> QED  BY <3>3, <3>4
  <2> QED  BY <2>3, <2>4
<1>6. CASE o.stage \notin Building \cup Switching
  <2>1. o.writes = NothingWritten
    BY <1>3, <1>6 DEF Local, QuietLocal
  <2> QED  BY <1>1, <1>2, <2>1 DEF NothingWritten
<1> QED  BY <1>4, <1>5, <1>6

(* In whatever order the flushes come, no transaction ever sees two ACTIVE *)
(* or two PREVIOUS runs of a source: the partial unique indexes never      *)
(* refuse a flush (repository_activation.py, activate and rollback).       *)
THEOREM FlushesAreAccepted == Spec => []FlushesRespectUniqueIndexes
<1>1. Inv => FlushesRespectUniqueIndexes
  BY UniqueInView DEF FlushesRespectUniqueIndexes
<1> QED  BY <1>1, InvariantHolds, PTL

(* A source whose advisory lock stays with one transaction does not change *)
(* under it (repository_activation.py, _lock_source; pipeline.py,          *)
(* acquire_lock): only its holder commits to it, and lets go by that.      *)
THEOREM LockProtectsSource == Spec => LockedSourceIsStable
<1> DEFINE Stable ==
        \A s \in Sources :
           owner[s] # NoWorker /\ owner'[s] = owner[s] =>
               /\ pointer'[s] = pointer[s]
               /\ \A r \in Runs : SourceOf[r] = s =>
                      status'[r] = status[r] /\ occurrences'[r] = occurrences[r]
<1>1. ASSUME Inv, NEW w \in Workers, Commit(w)  PROVE Stable
  <2>1. TypeOK
    BY <1>1 DEF Inv
  <2>2. tx[w].stage \in Building \cup Switching
    BY <1>1 DEF Commit, CommitReady, CommitSwitch, Building, Switching, Archived,
                Demoted, Promoted
  <2>3. tx[w].source \in Sources /\ owner[tx[w].source] = w
    BY <1>1, <2>2, WorkerFacts DEF Holds
  <2>4. ReleaseLocks(w)
    BY <1>1 DEF Commit, CommitReady, CommitFailed, CommitSwitch
  <2>5. ASSUME NEW s \in Sources, owner[s] # NoWorker, owner'[s] = owner[s]
        PROVE  s # tx[w].source
    BY <2>1, <2>3, <2>4, <2>5, ReleaseKeepsOthers
  <2>6. ASSUME NEW s \in Sources, s # tx[w].source
        PROVE  /\ pointer'[s] = pointer[s]
               /\ \A r \in Runs : SourceOf[r] = s =>
                      status'[r] = status[r] /\ occurrences'[r] = occurrences[r]
    <3>1. CASE \/ CommitReady(w)
               \/ /\ tx[w].stage \in Building
                  /\ \E cause \in {"snapshot", "conflict"} : CommitFailed(w, cause)
      <4>1. tx[w].stage \in Building
        BY <3>1 DEF CommitReady, Building
      <4>2. tx[w].run \in Runs /\ SourceOf[tx[w].run] = tx[w].source
        BY <1>1, <4>1, BuildFacts DEF BuildLocal
      <4> QED  BY <2>1, <2>6, <3>1, <4>2 DEF CommitReady, CommitFailed, TypeOK
    <3>2. CASE CommitSwitch(w)
      <4>1. tx[w].stage = "commit" /\ tx[w].stage \in Switching
        BY <3>2 DEF CommitSwitch, Switching, Archived, Demoted, Promoted
      <4>2. SwitchLocal(tx[w], status, occurrences)
        BY <1>1, <4>1, SwitchFacts
      <4>3. status' = Generations!Succession(tx[w].run)
        BY <1>1, <3>2, <4>1, FlushesAreTheSuccession DEF CommitSwitch
      <4>4. pointer'[s] = pointer[s]
        BY <2>1, <2>6, <3>2 DEF CommitSwitch, TypeOK
      <4>5. ASSUME NEW r \in Runs, SourceOf[r] = s
            PROVE  status'[r] = status[r] /\ occurrences'[r] = occurrences[r]
        <5>1. SourceOf[tx[w].run] = tx[w].source /\ r # tx[w].run /\ r # tx[w].previous
          BY <2>6, <4>2, <4>5 DEF SwitchLocal, Only
        <5>2. status'[r] = status[r]
          BY <2>6, <4>3, <4>5, <5>1 DEF Generations!Succession
        <5>3. occurrences'[r] = occurrences[r]
          BY <2>1, <3>2, <5>1 DEF CommitSwitch, TypeOK
        <5> QED  BY <5>2, <5>3
      <4> QED  BY <4>4, <4>5
    <3> QED  BY <1>1, <3>1, <3>2 DEF Commit
  <2> QED  BY <2>5, <2>6
<1>2. ASSUME UNCHANGED committed  PROVE Stable
  BY <1>2 DEF committed
<1>3. Inv /\ [Next]_vars => Stable
  BY <1>1, <1>2, StepIsCommitOrNot DEF vars
<1> QED  BY <1>3, InvariantHolds, PTL DEF Spec, LockedSourceIsStable

---------------------------------------------------------------------------
(* What races leave behind.  A switch visits every content of the run it   *)
(* retires: it starts from all of them and commits when none is left.      *)
Visiting(t, occ) ==
    t.kind = "activate" /\ t.previous # NoRun =>
        /\ t.stage \in {"demote", "promote"} => t.candidates = occ[t.previous]
        /\ t.stage = "commit" => t.candidates = {}

Visits == \A w \in Workers : Visiting(tx[w], occurrences)

Races ==
    /\ Orphans' \subseteq Orphans \cup Forsaken
    /\ \A c \in Forsaken' \ Forsaken :
           \E w, v \in Workers : w # v /\ c \in PassedOver(w) \cap PassedOver(v)

(* The uncommitted steps of a worker: what it passes over now and alone    *)
(* links, it had passed over before.                                       *)
LEMMA UncommittedRaces ==
    ASSUME Inv, Visits, NEW w \in Workers, NEW t, tx' = [tx EXCEPT ![w] = t],
           UNCHANGED <<occurrences, contents>>,
           Visiting(t, occurrences),
           \A c \in contents : c \in PassedOver(w)' /\ LinksOf(c) = {t.previous} =>
               c \in PassedOver(w) /\ t.previous = tx[w].previous
    PROVE  Visits' /\ Races
<1>1. TypeOK
  BY DEF Inv
<1>2. tx'[w] = t /\ \A v \in Workers \ {w} : tx'[v] = tx[v]
  BY <1>1 DEF TypeOK
<1>3. Visits'
  BY <1>2 DEF Visits
<1>4. Orphans' = Orphans /\ \A c : LinksOf(c)' = LinksOf(c)
  BY DEF Orphans, LinksOf
<1>5. \A v \in Workers \ {w} : PassedOver(v)' = PassedOver(v)
  BY <1>2 DEF PassedOver
<1>6. ASSUME NEW c \in Forsaken'  PROVE c \in Forsaken
  <2>1. c \in contents
    BY <1>6 DEF Forsaken
  <2>2. PICK v \in Workers : c \in PassedOver(v)' /\ LinksOf(c) = {tx'[v].previous}
    BY <1>4, <1>6 DEF Forsaken
  <2>3. c \in PassedOver(v) /\ LinksOf(c) = {tx[v].previous}
    BY <1>2, <1>5, <2>1, <2>2
  <2> QED  BY <2>1, <2>3 DEF Forsaken
<1> QED  BY <1>3, <1>4, <1>6 DEF Races

(* A step outside of pruning passes over nothing. *)
LEMMA OutsidePruning ==
    ASSUME Inv, Visits, NEW w \in Workers, NEW t, tx' = [tx EXCEPT ![w] = t],
           UNCHANGED <<occurrences, contents>>,
           t.stage \notin Promoted,
           t.stage \in {"demote", "promote"} /\ t.kind = "activate" /\ t.previous # NoRun =>
               t.candidates = occurrences[t.previous]
    PROVE  Visits' /\ Races
<1>1. tx'[w] = t
  BY DEF Inv, TypeOK
<1>2. PassedOver(w)' = {}
  BY <1>1 DEF PassedOver, Promoted
<1>3. Visiting(t, occurrences)
  BY DEF Visiting, Promoted
<1> QED  BY <1>2, <1>3, UncommittedRaces

(* A refusal, a failed build, a cancelled or dead transaction.             *)
LEMMA EndRaces ==
    ASSUME Inv, Visits, NEW w \in Workers, tx' = [tx EXCEPT ![w] = NoTransaction],
           UNCHANGED <<occurrences, contents>>
    PROVE  Visits' /\ Races
<1>1. NoTransaction.stage = "idle"
  BY DEF NoTransaction
<1> QED  BY <1>1, OutsidePruning DEF Promoted

LEMMA StartRaces ==
    ASSUME Inv, Visits, NEW w \in Workers,
           \/ \E r \in Runs : BeginBuild(w, r)
           \/ \E s \in Sources, r \in Runs : BeginActivation(w, s, r)
           \/ \E s \in Sources : BeginRollback(w, s)
    PROVE  Visits' /\ Races
<1>1. UNCHANGED <<occurrences, contents>>
  BY DEF BeginBuild, BeginActivation, BeginRollback, committed
<1>2. PICK t : tx' = [tx EXCEPT ![w] = t] /\ t.stage \in {"build", "lock"}
  <2>1. CASE \E r \in Runs : BeginBuild(w, r)
    <3>1. PICK r \in Runs : BeginBuild(w, r)
      BY <2>1
    <3> DEFINE t == [NoTransaction EXCEPT !.stage = "build", !.kind = "build",
                         !.source = SourceOf[r], !.run = r, !.writes[r] = "building",
                         !.todo = Snapshot[r]]
    <3>2. tx' = [tx EXCEPT ![w] = t]
      BY <3>1 DEF BeginBuild
    <3>3. t.stage = "build"
      BY DEF NoTransaction
    <3> QED  BY <3>2, <3>3
  <2>2. CASE \E s \in Sources, r \in Runs : BeginActivation(w, s, r)
    <3>1. PICK s \in Sources, r \in Runs : BeginActivation(w, s, r)
      BY <2>2
    <3> DEFINE t == [NoTransaction EXCEPT !.stage = "lock", !.kind = "activate",
                         !.source = s, !.run = r, !.observed = pointer[s]]
    <3>2. tx' = [tx EXCEPT ![w] = t]
      BY <3>1 DEF BeginActivation
    <3>3. t.stage = "lock"
      BY DEF NoTransaction
    <3> QED  BY <3>2, <3>3
  <2>3. CASE \E s \in Sources : BeginRollback(w, s)
    <3>1. PICK s \in Sources : BeginRollback(w, s)
      BY <2>3
    <3> DEFINE t == [NoTransaction EXCEPT !.stage = "lock", !.kind = "rollback",
                         !.source = s, !.observed = pointer[s]]
    <3>2. tx' = [tx EXCEPT ![w] = t]
      BY <3>1 DEF BeginRollback
    <3>3. t.stage = "lock"
      BY DEF NoTransaction
    <3> QED  BY <3>2, <3>3
  <2> QED  BY <2>1, <2>2, <2>3
<1> QED  BY <1>1, <1>2, OutsidePruning DEF Promoted

LEMMA FileRaces ==
    ASSUME Inv, Visits, NEW w \in Workers,
           (\E c \in Contents : UpsertContent(w, c)) \/ CreateOccurrence(w)
    PROVE  Visits' /\ Races
<1>1. UNCHANGED <<occurrences, contents>> /\ tx[w] \in Transactions
  BY WorkerFacts DEF UpsertContent, CreateOccurrence, committed
<1>2. CASE \E c \in Contents : UpsertContent(w, c)
  <2>1. PICK c \in Contents : UpsertContent(w, c)
    BY <1>2
  <2> DEFINE rows == IF c \in contents THEN tx[w].inserted ELSE tx[w].inserted \cup {c}
  <2> DEFINE t == [tx[w] EXCEPT !.stage = "link", !.cursor = c,
                       !.todo = tx[w].todo \ {c}, !.inserted = rows]
  <2>2. tx' = [tx EXCEPT ![w] = t]
    BY <2>1 DEF UpsertContent
  <2> HIDE DEF rows
  <2>3. t.stage = "link"
    BY <1>1 DEF Transactions
  <2> QED  BY <1>1, <2>2, <2>3, OutsidePruning DEF Promoted
<1>3. CASE CreateOccurrence(w)
  <2> DEFINE t == [tx[w] EXCEPT !.stage = "build", !.linked = tx[w].linked \cup {tx[w].cursor},
                       !.cursor = NoContent]
  <2>1. tx' = [tx EXCEPT ![w] = t]
    BY <1>3 DEF CreateOccurrence
  <2>2. t.stage = "build"
    BY <1>1 DEF Transactions
  <2> QED  BY <1>1, <2>1, <2>2, OutsidePruning DEF Promoted
<1> QED  BY <1>2, <1>3

(* Up to its third flush a switch has yet to visit all the contents.       *)
LEMMA FlushRaces ==
    ASSUME Inv, Visits, NEW w \in Workers,
           \/ \E a, p \in Runs \cup {NoRun} : LockForActivation(w, a, p) \/ LockForRollback(w, a, p)
           \/ ValidateTarget(w) \/ ArchivePrevious(w) \/ DemoteActive(w)
    PROVE  Visits' /\ Races
<1>1. UNCHANGED <<occurrences, contents>> /\ tx[w] \in Transactions
  BY WorkerFacts
     DEF LockForActivation, LockForRollback, ValidateTarget, ArchivePrevious, DemoteActive,
         committed
<1>2. CASE \E a, p \in Runs \cup {NoRun} : LockForActivation(w, a, p)
  <2>1. PICK a \in Runs \cup {NoRun}, p \in Runs \cup {NoRun} : LockForActivation(w, a, p)
    BY <1>2
  <2> DEFINE next == CASE p # NoRun -> "archive"
                       [] p = NoRun /\ a # NoRun -> "demote"
                       [] OTHER -> "promote"
  <2> DEFINE t == [tx[w] EXCEPT !.stage = next, !.active = a, !.previous = p]
  <2>2. tx' = [tx EXCEPT ![w] = t]
    BY <2>1 DEF LockForActivation
  <2>3. next \in {"archive", "demote", "promote"} /\ (next # "archive" => p = NoRun)
    OBVIOUS
  <2> HIDE DEF next
  <2>4. t.stage = next /\ t.previous = p
    BY <1>1 DEF Transactions
  <2> HIDE DEF t
  <2> QED  BY <1>1, <2>2, <2>3, <2>4, OutsidePruning DEF Promoted
<1>3. CASE \E a, p \in Runs \cup {NoRun} : LockForRollback(w, a, p)
  <2>1. PICK a \in Runs \cup {NoRun}, p \in Runs \cup {NoRun} : LockForRollback(w, a, p)
    BY <1>3
  <2> DEFINE t == [tx[w] EXCEPT !.stage = "validate", !.active = a, !.previous = p, !.run = p]
  <2>2. tx' = [tx EXCEPT ![w] = t]
    BY <2>1 DEF LockForRollback
  <2>3. t.stage = "validate"
    BY <1>1 DEF Transactions
  <2> QED  BY <1>1, <2>2, <2>3, OutsidePruning DEF Promoted
<1>4. CASE ValidateTarget(w)
  <2> DEFINE t == [tx[w] EXCEPT !.stage = "archive"]
  <2>1. tx' = [tx EXCEPT ![w] = t]
    BY <1>4 DEF ValidateTarget
  <2>2. t.stage = "archive"
    BY <1>1 DEF Transactions
  <2> QED  BY <1>1, <2>1, <2>2, OutsidePruning DEF Promoted
<1>5. CASE ArchivePrevious(w)
  <2> DEFINE some == IF tx[w].kind = "activate" THEN occurrences[tx[w].previous] ELSE {}
  <2> DEFINE t == [tx[w] EXCEPT !.stage = "demote", !.writes[tx[w].previous] = "archived",
                                !.candidates = some]
  <2>1. tx' = [tx EXCEPT ![w] = t]
    BY <1>5 DEF ArchivePrevious
  <2>2. t.kind = "activate" => some = occurrences[tx[w].previous]
    BY <1>1 DEF Transactions
  <2> HIDE DEF some
  <2>3. t.stage = "demote" /\ t.candidates = some /\ t.previous = tx[w].previous
    BY <1>1 DEF Transactions
  <2> HIDE DEF t
  <2> QED  BY <1>1, <2>1, <2>2, <2>3, OutsidePruning DEF Promoted
<1>6. CASE DemoteActive(w)
  <2> DEFINE t == [tx[w] EXCEPT !.stage = "promote", !.writes[tx[w].active] = "previous"]
  <2>1. tx' = [tx EXCEPT ![w] = t] /\ tx[w].stage = "demote"
    BY <1>6 DEF DemoteActive
  <2>2. /\ t.stage = "promote" /\ t.candidates = tx[w].candidates
        /\ t.previous = tx[w].previous /\ t.kind = tx[w].kind
    BY <1>1 DEF Transactions
  <2>3. Visiting(tx[w], occurrences)
    BY DEF Visits
  <2> HIDE DEF t
  <2> QED  BY <1>1, <2>1, <2>2, <2>3, OutsidePruning DEF Promoted, Visiting
<1> QED  BY <1>2, <1>3, <1>4, <1>5, <1>6

(* Pruning passes over a content only if another committed run links it.   *)
LEMMA PruningRaces ==
    ASSUME Inv, Visits, NEW w \in Workers,
           \/ PromoteTarget(w)
           \/ \E some \in SUBSET Contents : SelectBatch(w, some)
           \/ \E c \in Contents : DeleteContent(w, c)
           \/ EndBatch(w) \/ EndPrune(w)
    PROVE  Visits' /\ Races
<1> DEFINE o == tx[w]
<1>1. UNCHANGED <<occurrences, contents>> /\ o \in Transactions /\ TypeOK
  BY WorkerFacts
     DEF Inv, PromoteTarget, SelectBatch, DeleteContent, EndBatch, EndPrune, committed
<1>2. CASE PromoteTarget(w)
  <2> DEFINE next == IF o.kind = "activate" /\ o.previous # NoRun THEN "prune" ELSE "commit"
  <2> DEFINE t == [o EXCEPT !.stage = next, !.writes[o.run] = "active"]
  <2>1. tx' = [tx EXCEPT ![w] = t] /\ o.stage = "promote"
    BY <1>2 DEF PromoteTarget
  <2>2. o.kind = "activate" /\ o.previous # NoRun => next = "prune"
    OBVIOUS
  <2> HIDE DEF next
  <2>3. /\ t.stage = next /\ t.candidates = o.candidates
        /\ t.previous = o.previous /\ t.kind = o.kind
    BY <1>1 DEF Transactions
  <2> HIDE DEF t
  <2>4. Visiting(o, occurrences)
    BY DEF Visits
  <2>5. Visiting(t, occurrences)
    BY <2>2, <2>3 DEF Visiting
  <2>6. tx'[w] = t
    BY <1>1, <2>1 DEF TypeOK
  <2>7. PassedOver(w)' = {}
    BY <1>1, <2>1, <2>3, <2>4, <2>6 DEF PassedOver, Visiting
  <2> QED  BY <1>1, <2>1, <2>5, <2>7, UncommittedRaces
<1>3. ASSUME NEW some \in SUBSET Contents, SelectBatch(w, some)  PROVE Visits' /\ Races
  <2> DEFINE rows == {c \in some \cap contents :
                         \A r \in Runs \ {o.previous} : c \notin occurrences[r]}
  <2> DEFINE t == [o EXCEPT !.stage = "collect", !.candidates = o.candidates \ some,
                            !.batch = rows]
  <2>1. tx' = [tx EXCEPT ![w] = t] /\ o.stage = "prune"
    BY <1>3 DEF SelectBatch
  <2>2. \A c \in contents : LinksOf(c) = {o.previous} /\ c \in some => c \in rows
    BY DEF LinksOf
  <2> HIDE DEF rows
  <2>3. /\ t.stage = "collect" /\ t.candidates = o.candidates \ some /\ t.batch = rows
        /\ t.previous = o.previous /\ t.kind = o.kind /\ t.deleted = o.deleted
    BY <1>1 DEF Transactions
  <2> HIDE DEF t
  <2>4. Visiting(t, occurrences)
    BY <2>3 DEF Visiting
  <2>5. tx'[w] = t
    BY <1>1, <2>1 DEF TypeOK
  <2>6. o.batch = {}
    <3>1. o.stage \in Switching
      BY <2>1 DEF Switching, Archived, Demoted, Promoted
    <3> QED  BY <2>1, <3>1, SwitchFacts DEF SwitchLocal
  <2>7. ASSUME NEW c \in contents, c \in PassedOver(w)', LinksOf(c) = {t.previous}
        PROVE  c \in PassedOver(w)
    BY <1>1, <2>1, <2>2, <2>3, <2>5, <2>6, <2>7 DEF PassedOver
  <2> QED  BY <1>1, <2>1, <2>3, <2>4, <2>7, UncommittedRaces
<1>4. ASSUME NEW x \in Contents, DeleteContent(w, x)  PROVE Visits' /\ Races
  <2> DEFINE t == [o EXCEPT !.deleted = o.deleted \cup {x}]
  <2>1. tx' = [tx EXCEPT ![w] = t] /\ o.stage = "collect"
    BY <1>4 DEF DeleteContent
  <2>2. /\ t.stage = "collect" /\ t.candidates = o.candidates /\ t.batch = o.batch
        /\ t.previous = o.previous /\ t.kind = o.kind /\ t.deleted = o.deleted \cup {x}
    BY <1>1, <2>1 DEF Transactions
  <2> HIDE DEF t
  <2>3. Visiting(t, occurrences) /\ tx'[w] = t
    BY <1>1, <2>1, <2>2 DEF Visiting, TypeOK
  <2>4. PassedOver(w)' \subseteq PassedOver(w)
    BY <1>1, <2>1, <2>2, <2>3 DEF PassedOver
  <2> QED  BY <1>1, <2>1, <2>2, <2>3, <2>4, UncommittedRaces
<1>5. CASE EndBatch(w)
  <2> DEFINE t == [o EXCEPT !.stage = "prune", !.batch = {}]
  <2>1. tx' = [tx EXCEPT ![w] = t] /\ o.stage = "collect" /\ o.batch \subseteq o.deleted
    BY <1>5 DEF EndBatch
  <2>2. /\ t.stage = "prune" /\ t.candidates = o.candidates /\ t.batch = {}
        /\ t.previous = o.previous /\ t.kind = o.kind /\ t.deleted = o.deleted
    BY <1>1, <2>1 DEF Transactions
  <2> HIDE DEF t
  <2>3. Visiting(t, occurrences) /\ tx'[w] = t
    BY <1>1, <2>1, <2>2 DEF Visiting, TypeOK
  <2>4. PassedOver(w)' \subseteq PassedOver(w)
    BY <1>1, <2>1, <2>2, <2>3 DEF PassedOver
  <2> QED  BY <1>1, <2>1, <2>2, <2>3, <2>4, UncommittedRaces
<1>6. CASE EndPrune(w)
  <2> DEFINE t == [o EXCEPT !.stage = "commit"]
  <2>1. tx' = [tx EXCEPT ![w] = t] /\ o.stage = "prune" /\ o.candidates = {}
    BY <1>6 DEF EndPrune
  <2>2. /\ t.stage = "commit" /\ t.candidates = {} /\ t.batch = o.batch
        /\ t.previous = o.previous /\ t.kind = o.kind /\ t.deleted = o.deleted
    BY <1>1, <2>1 DEF Transactions
  <2> HIDE DEF t
  <2>3. Visiting(t, occurrences) /\ tx'[w] = t
    BY <1>1, <2>1, <2>2 DEF Visiting, TypeOK
  <2>4. PassedOver(w)' \subseteq PassedOver(w)
    BY <1>1, <2>1, <2>2, <2>3 DEF PassedOver
  <2> QED  BY <1>1, <2>1, <2>2, <2>3, <2>4, UncommittedRaces
<1> QED  BY <1>2, <1>3, <1>4, <1>5, <1>6

(* What a commit does to the other transactions.                           *)
LEMMA OthersAfterCommit ==
    ASSUME Inv, NEW w \in Workers, CommitReady(w) \/ CommitSwitch(w), NEW v \in Workers \ {w}
    PROVE  /\ tx'[v].stage = tx[v].stage /\ tx'[v].kind = tx[v].kind
           /\ tx'[v].previous = tx[v].previous /\ tx'[v].candidates = tx[v].candidates
           /\ tx'[v].deleted = tx[v].deleted
           /\ tx[v].batch \subseteq tx'[v].batch \cup (contents \ contents')
           /\ tx[v].stage \in Switching /\ tx[v].previous # NoRun =>
                  /\ tx[v].previous \in Runs
                  /\ SourceOf[tx[v].previous] # tx[w].source
                  /\ occurrences'[tx[v].previous] = occurrences[tx[v].previous]
<1>1. tx[v] \in Transactions /\ tx[w] \in Transactions /\ TypeOK
  BY WorkerFacts DEF Inv
<1>2. /\ tx'[v].stage = tx[v].stage /\ tx'[v].kind = tx[v].kind
      /\ tx'[v].previous = tx[v].previous /\ tx'[v].candidates = tx[v].candidates
      /\ tx'[v].deleted = tx[v].deleted
      /\ tx[v].batch \subseteq tx'[v].batch \cup (contents \ contents')
  <2>1. CASE CommitReady(w)
    <3>1. tx'[v] = tx[v]
      BY <1>1, <2>1 DEF CommitReady, TypeOK
    <3> QED  BY <3>1
  <2>2. CASE CommitSwitch(w)
    <3> DEFINE gone == tx[w].deleted
    <3>1. gone \in SUBSET Contents /\ contents' = contents \ gone
      BY <1>1, <2>2 DEF CommitSwitch, Transactions
    <3>2. tx'[v] = [tx[v] EXCEPT !.cursor = Resolve(tx[v].cursor, gone),
                                 !.batch = tx[v].batch \ gone]
      BY <2>2 DEF CommitSwitch
    <3>3. After(tx'[v], tx[v], gone)
      BY <1>1, <3>1, <3>2, AfterIsWellDefined
    <3>4. tx[v].batch \subseteq contents
      BY WorkerFacts DEF Stored
    <3> QED  BY <3>1, <3>3, <3>4 DEF After
  <2> QED  BY <2>1, <2>2
<1>3. ASSUME tx[v].stage \in Switching, tx[v].previous # NoRun
      PROVE  /\ tx[v].previous \in Runs
             /\ SourceOf[tx[v].previous] # tx[w].source
             /\ occurrences'[tx[v].previous] = occurrences[tx[v].previous]
  <2>1. tx[v].previous \in Runs /\ SourceOf[tx[v].previous] = tx[v].source
    BY <1>1, <1>3, SwitchFacts DEF SwitchLocal, Only, Transactions
  <2>2. tx[w].stage \in Building \cup Switching
    BY DEF CommitReady, CommitSwitch, Building, Switching, Archived, Demoted, Promoted
  <2>3. tx[v].source # tx[w].source
    BY <1>3, <2>2, WorkerFacts DEF Holds
  <2>4. CASE CommitReady(w)
    <3>1. tx[w].run \in Runs /\ SourceOf[tx[w].run] = tx[w].source
      BY <2>4, BuildFacts DEF CommitReady, Building, BuildLocal
    <3> QED  BY <1>1, <2>1, <2>3, <2>4, <3>1 DEF CommitReady, TypeOK
  <2>5. CASE CommitSwitch(w)
    <3>1. tx[w].previous # NoRun => SourceOf[tx[w].previous] = tx[w].source
      <4>1. tx[w].stage \in Switching
        BY <2>5 DEF CommitSwitch, Switching, Archived, Demoted, Promoted
      <4> QED  BY <1>1, <4>1, SwitchFacts DEF SwitchLocal, Only, Transactions
    <3> QED  BY <1>1, <2>1, <2>3, <2>5, <3>1 DEF CommitSwitch, TypeOK
  <2> QED  BY <2>1, <2>3, <2>4, <2>5
<1> QED  BY <1>2, <1>3

LEMMA VisitsAfterCommit ==
    ASSUME Inv, Visits, NEW w \in Workers, CommitReady(w) \/ CommitSwitch(w)
    PROVE  /\ Visits'
           /\ tx'[w].stage \notin Promoted
           /\ \A v \in Workers \ {w} : PassedOver(v)' \cap contents' \subseteq PassedOver(v)
<1>1. tx'[w].stage \in {"built", "idle"}
  <2>1. CASE CommitReady(w)
    <3> DEFINE t == [NoTransaction EXCEPT !.stage = "built", !.source = tx[w].source,
                                          !.run = tx[w].run]
    <3>1. tx' = [tx EXCEPT ![w] = t] /\ t.stage = "built"
      BY <2>1 DEF CommitReady, NoTransaction
    <3> HIDE DEF t
    <3> QED  BY <3>1 DEF Inv, TypeOK
  <2>2. CASE CommitSwitch(w)
    <3>1. tx'[w] = NoTransaction
      BY <2>2 DEF CommitSwitch
    <3> QED  BY <3>1 DEF NoTransaction
  <2> QED  BY <2>1, <2>2
<1>2. ASSUME NEW v \in Workers \ {w}  PROVE Visiting(tx'[v], occurrences')
  <2>1. Visiting(tx[v], occurrences)
    BY DEF Visits
  <2> QED  BY <2>1, OthersAfterCommit DEF Visiting, Switching, Archived, Demoted
<1>3. ASSUME NEW v \in Workers \ {w}  PROVE PassedOver(v)' \cap contents' \subseteq PassedOver(v)
  BY OthersAfterCommit DEF PassedOver, Switching, Archived, Demoted, Promoted
<1>4. Visiting(tx'[w], occurrences')
  BY <1>1 DEF Visiting
<1>5. Visits'
  BY <1>2, <1>4 DEF Visits
<1> QED  BY <1>1, <1>3, <1>5 DEF Promoted

(* A content loses its last link, or its last but one, only to a switch    *)
(* that has passed over it.                                                *)
LEMMA LinkIsLost ==
    ASSUME Inv, Visits, NEW w \in Workers, CommitSwitch(w),
           NEW c \in contents', NEW r \in Runs, c \in occurrences[r], c \notin occurrences'[r]
    PROVE  r = tx[w].previous /\ c \in PassedOver(w)
<1> DEFINE o == tx[w]
<1>1. o \in Transactions /\ TypeOK
  BY WorkerFacts DEF Inv
<1>2. o.stage = "commit" /\ contents' = contents \ o.deleted
  BY DEF CommitSwitch
<1>3. o.kind = "activate" /\ o.previous # NoRun /\ r = o.previous
  BY <1>1 DEF CommitSwitch, TypeOK
<1>4. o.batch = {}
  <2>1. o.stage \in Switching
    BY <1>2 DEF Switching, Archived, Demoted, Promoted
  <2> QED  BY <1>2, <2>1, SwitchFacts DEF SwitchLocal
<1>5. o.candidates = {}
  BY <1>2, <1>3 DEF Visits, Visiting
<1> QED  BY <1>2, <1>3, <1>4, <1>5 DEF PassedOver

LEMMA CommitSwitchRaces ==
    ASSUME Inv, Visits, NEW w \in Workers, CommitSwitch(w)
    PROVE  Visits' /\ Races
<1>1. contents' \subseteq contents
  BY DEF CommitSwitch
<1>2. \A r \in Runs : occurrences'[r] \subseteq occurrences[r]
  BY DEF CommitSwitch, Inv, TypeOK
<1>3. ASSUME NEW c \in Orphans'  PROVE c \in Orphans \cup Forsaken
  <2>1. c \in contents' /\ \A r \in Runs : c \notin occurrences'[r]
    BY <1>3 DEF Orphans, LinksOf
  <2>2. CASE \E r \in Runs : c \in occurrences[r]
    <3>1. PICK r \in Runs : c \in occurrences[r]
      BY <2>2
    <3>2. c \in PassedOver(w)
      BY <2>1, <3>1, LinkIsLost
    <3>3. \A q \in Runs : c \in occurrences[q] <=> q = tx[w].previous
      BY <2>1, <3>1, LinkIsLost
    <3>4. LinksOf(c) = {tx[w].previous}
      BY <2>1, <3>1, <3>3, LinkIsLost DEF LinksOf
    <3> QED  BY <1>1, <2>1, <3>2, <3>4 DEF Forsaken
  <2>3. CASE \A r \in Runs : c \notin occurrences[r]
    BY <1>1, <2>1, <2>3 DEF Orphans, LinksOf
  <2> QED  BY <2>2, <2>3
<1>4. ASSUME NEW c \in Forsaken' \ Forsaken
      PROVE  \E y, z \in Workers : y # z /\ c \in PassedOver(y) \cap PassedOver(z)
  <2>1. PICK v \in Workers : c \in PassedOver(v)' /\ LinksOf(c)' = {tx'[v].previous}
    BY <1>4 DEF Forsaken
  <2>2. c \in contents'
    BY <1>4 DEF Forsaken
  <2>3. v # w
    BY <2>1, VisitsAfterCommit DEF PassedOver, Promoted
  <2>4. c \in PassedOver(v) /\ tx'[v].previous = tx[v].previous
    BY <2>1, <2>2, <2>3, VisitsAfterCommit, OthersAfterCommit
  <2>5. LinksOf(c) # {tx[v].previous}
    BY <1>1, <1>4, <2>2, <2>4 DEF Forsaken
  <2>6. LinksOf(c)' \subseteq LinksOf(c) /\ LinksOf(c)' # LinksOf(c)
    BY <1>2, <2>1, <2>4, <2>5 DEF LinksOf
  <2>7. PICK r \in Runs : c \in occurrences[r] /\ c \notin occurrences'[r]
    BY <2>6 DEF LinksOf
  <2>8. c \in PassedOver(w)
    BY <2>2, <2>7, LinkIsLost
  <2> QED  BY <2>3, <2>4, <2>8
<1> QED  BY <1>3, <1>4, VisitsAfterCommit DEF Races

LEMMA CommitReadyRaces ==
    ASSUME Inv, Visits, NEW w \in Workers, CommitReady(w)
    PROVE  Visits' /\ Races
<1> DEFINE o == tx[w]
<1>1. o.stage = "build" /\ o.stage \in Building /\ o.todo = {} /\ TypeOK
  BY DEF CommitReady, Building, Inv
<1>2. BuildLocal(o, status)
  BY <1>1, BuildFacts
<1>3. o.run \in Runs /\ SourceOf[o.run] = o.source /\ o.inserted \subseteq o.linked
  BY <1>1, <1>2 DEF BuildLocal
<1>4. occurrences[o.run] = {}
  BY <1>2, <1>3
     DEF Inv, Promises!Inv, BuildLocal, Promises!DiscardedRunsHoldNothing, Promises!Retained
<1>5. /\ contents' = contents \cup o.inserted
      /\ occurrences' = [occurrences EXCEPT ![o.run] = o.linked]
  BY DEF CommitReady
<1>6. ASSUME NEW c \in contents', c \notin occurrences'[o.run]
      PROVE  c \in contents /\ LinksOf(c)' = LinksOf(c)
  <2>1. c \notin o.linked
    BY <1>1, <1>3, <1>5, <1>6 DEF TypeOK
  <2>2. \A r \in Runs : c \in occurrences'[r] <=> c \in occurrences[r]
    BY <1>1, <1>3, <1>4, <1>5, <2>1 DEF TypeOK
  <2> QED  BY <1>3, <1>5, <2>1, <2>2 DEF LinksOf
<1>7. ASSUME NEW c \in Orphans'  PROVE c \in Orphans
  <2>1. c \in contents' /\ c \notin occurrences'[o.run]
    BY <1>3, <1>7 DEF Orphans, LinksOf
  <2> QED  BY <1>6, <1>7, <2>1 DEF Orphans
<1>8. ASSUME NEW c \in Forsaken'  PROVE c \in Forsaken
  <2>1. PICK v \in Workers : c \in PassedOver(v)' /\ LinksOf(c)' = {tx'[v].previous}
    BY <1>8 DEF Forsaken
  <2>2. c \in contents'
    BY <1>8 DEF Forsaken
  <2>3. v # w
    BY <2>1, VisitsAfterCommit DEF PassedOver, Promoted
  <2>4. c \in PassedOver(v) /\ tx'[v].previous = tx[v].previous
    BY <2>1, <2>2, <2>3, VisitsAfterCommit, OthersAfterCommit
  <2>5. tx[v].stage \in Switching /\ tx[v].previous # NoRun
    BY <2>4 DEF PassedOver, Switching, Archived, Demoted, Promoted
  <2>6. tx[v].previous # o.run
    BY <1>3, <2>3, <2>5, OthersAfterCommit
  <2>7. c \notin occurrences'[o.run]
    BY <1>3, <2>1, <2>4, <2>6 DEF LinksOf
  <2>8. c \in contents /\ LinksOf(c) = {tx[v].previous}
    BY <1>6, <2>1, <2>2, <2>4, <2>7
  <2> QED  BY <2>4, <2>8 DEF Forsaken
<1> QED  BY <1>7, <1>8, VisitsAfterCommit DEF Races

LEMMA NextRaces == Inv /\ Visits /\ [Next]_vars => Visits' /\ Races
<1> SUFFICES ASSUME Inv, Visits, [Next]_vars  PROVE Visits' /\ Races
  OBVIOUS
<1>1. ASSUME NEW w \in Workers, EndWithoutEffect(w)  PROVE Visits' /\ Races
  BY <1>1, EndRaces DEF EndWithoutEffect, committed
<1>2. ASSUME NEW w \in Workers, \E cause \in {"snapshot", "conflict"} : CommitFailed(w, cause)
      PROVE  Visits' /\ Races
  BY <1>2, EndRaces DEF CommitFailed
<1>3. ASSUME NEW w \in Workers, BuildStep(w)  PROVE Visits' /\ Races
  <2>1. CASE tx[w].stage = "built" /\ BeginActivation(w, tx[w].source, tx[w].run)
    <3>1. QuietLocal(tx[w])
      BY <2>1, WorkerFacts DEF Local, Building, Switching, Archived, Demoted, Promoted
    <3> QED  BY <2>1, <3>1, StartRaces DEF QuietLocal
  <2>2. CASE DanglingReference(w)
    BY <1>2, <2>2 DEF DanglingReference
  <2> QED  BY <1>3, <2>1, <2>2, FileRaces, CommitReadyRaces DEF BuildStep
<1>4. ASSUME NEW w \in Workers, SwitchStep(w)  PROVE Visits' /\ Races
  <2>1. tx[w].observed \in Runs \cup {NoRun}
    BY WorkerFacts DEF Transactions
  <2>2. CASE RefuseLock(w) \/ RestrictedDelete(w)
    BY <1>1, <2>2 DEF RefuseLock, RestrictedDelete
  <2>3. CASE \E p \in Runs \cup {NoRun} : \/ LockForActivation(w, tx[w].observed, p)
                                         \/ LockForRollback(w, tx[w].observed, p)
    BY <2>1, <2>3, FlushRaces
  <2> QED
    BY <1>4, <2>2, <2>3, FlushRaces, PruningRaces, CommitSwitchRaces DEF SwitchStep
<1>5. ASSUME NEW w \in Workers, CancelDeadlock(w)  PROVE Visits' /\ Races
  BY <1>1, <1>2, <1>5 DEF CancelDeadlock
<1>6. ASSUME NEW w \in Workers, Start(w)  PROVE Visits' /\ Races
  BY <1>6, StartRaces DEF Start
<1>7. ASSUME NEW w \in Workers, SnapshotFault(w) \/ RefuseRollback(w) \/ Crash(w)
      PROVE  Visits' /\ Races
  BY <1>1, <1>2, <1>7 DEF SnapshotFault, RefuseRollback, Crash
<1>8. CASE UNCHANGED vars
  <2>1. Visits' /\ Orphans' = Orphans /\ Forsaken' = Forsaken
    BY <1>8 DEF vars, committed, Visits, Orphans, Forsaken, LinksOf, PassedOver
  <2> QED  BY <2>1 DEF Races
<1> QED  BY <1>3, <1>4, <1>5, <1>6, <1>7, <1>8 DEF Next, Progress

(* Contents are left behind by races of switches only: a content that      *)
(* loses its last link was passed over by two open switches, each of which *)
(* saw the link that the other removed (repository_activation.py,          *)
(* _prune_archived_run).  Whatever a switch alone no longer links, it      *)
(* deletes.                                                                *)
THEOREM OnlyRacesLeaveOrphans == Spec => OrphansComeFromRaces
<1>1. Init => Visits
  <2>1. NoTransaction.kind = "none"
    BY DEF NoTransaction
  <2> QED  BY <2>1 DEF Init, Visits, Visiting
<1>2. Inv /\ Inv' /\ Visits /\ [Next]_vars => Visits' /\ Races
  BY NextRaces
<1>3. Spec => []Visits
  BY <1>1, <1>2, InvariantHolds, PTL DEF Spec
<1> QED  BY <1>2, <1>3, InvariantHolds, PTL DEF Spec, OrphansComeFromRaces, Races
===========================================================================
