------------------------- MODULE IndexGenerations -------------------------
(***************************************************************************)
(* What the index lifecycle promises, one committed database transaction  *)
(* per step: a source keeps at most one ACTIVE run, named by its pointer,  *)
(* and at most one PREVIOUS run to roll back to; everything a READY,       *)
(* ACTIVE or PREVIOUS run was built from stays stored; everything else may *)
(* be collected.  IndexTransactions is the transaction-level program that  *)
(* implements this specification.                                          *)
(*                                                                         *)
(* A run is the name of one build: SourceOf gives the source profile it    *)
(* belongs to and Snapshot the distinct document contents of its commit.   *)
(* Every execution of the code is an execution for some choice of these    *)
(* constants.  "absent" is a run whose row does not exist.                 *)
(***************************************************************************)

CONSTANTS
    Sources,    \* source profiles
    Runs,       \* index runs that may ever be built
    Contents,   \* distinct document contents, by content hash
    SourceOf,   \* the source profile of each run
    Snapshot,   \* the contents found in the commit of each run
    NoRun       \* the null active_index_run_id

ASSUME SourceOfAssumption == SourceOf \in [Runs -> Sources]
ASSUME SnapshotAssumption == Snapshot \in [Runs -> SUBSET Contents]
ASSUME NoRunAssumption == NoRun \notin Runs

VARIABLES
    status,         \* index_runs.status
    pointer,        \* source_profiles.active_index_run_id
    occurrences,    \* document_occurrences: the contents linked to each run
    contents        \* document_contents: the contents stored

vars == <<status, pointer, occurrences, contents>>

Statuses == {"absent", "ready", "failed", "active", "previous", "archived"}

(* The runs a search or a rollback may still need. *)
Retained == {"ready", "active", "previous"}

RunsOf(s) == {r \in Runs : SourceOf[r] = s}

(* The database type: one status per run, a nullable pointer per source. *)
TypeOK ==
    /\ status \in [Runs -> Statuses]
    /\ pointer \in [Sources -> Runs \cup {NoRun}]
    /\ occurrences \in [Runs -> SUBSET Contents]
    /\ contents \in SUBSET Contents

Init ==
    /\ status = [r \in Runs |-> "absent"]
    /\ pointer = [s \in Sources |-> NoRun]
    /\ occurrences = [r \in Runs |-> {}]
    /\ contents = {}

---------------------------------------------------------------------------
(* Mutant: the status written is that of a run still being built. *)
PublishBuilding(r) ==
    /\ status[r] = "absent"
    /\ status' = [status EXCEPT ![r] = "building"]
    /\ occurrences' = [occurrences EXCEPT ![r] = Snapshot[r]]
    /\ contents' = contents \cup Snapshot[r]
    /\ UNCHANGED pointer

(* A build commits as READY with every document of its snapshot stored. *)
PublishReady(r) ==
    /\ status[r] = "absent"
    /\ status' = [status EXCEPT ![r] = "ready"]
    /\ occurrences' = [occurrences EXCEPT ![r] = Snapshot[r]]
    /\ contents' = contents \cup Snapshot[r]
    /\ UNCHANGED pointer

(* A build commits as FAILED, keeping only its run row. *)
PublishFailed(r) ==
    /\ status[r] = "absent"
    /\ status' = [status EXCEPT ![r] = "failed"]
    /\ UNCHANGED <<pointer, occurrences, contents>>

(* Mutant: the old fallback keeps its status. *)
SuccessionWithoutArchive(r) ==
    [q \in Runs |->
        CASE q = r -> "active"
          [] q # r /\ SourceOf[q] = SourceOf[r] /\ status[q] = "active" -> "previous"
          [] OTHER -> status[q]]

(* Mutant: the old active run retires at once. *)
SuccessionWithoutFallback(r) ==
    [q \in Runs |->
        CASE q = r -> "active"
          [] q # r /\ SourceOf[q] = SourceOf[r]
                 /\ status[q] \in {"active", "previous"} -> "archived"
          [] OTHER -> status[q]]

(* The statuses of a source's runs when r takes over: the old active run   *)
(* becomes the fallback, the old fallback retires.                         *)
Succession(r) ==
    [q \in Runs |->
        CASE q = r -> "active"
          [] q # r /\ SourceOf[q] = SourceOf[r] /\ status[q] = "active" -> "previous"
          [] q # r /\ SourceOf[q] = SourceOf[r] /\ status[q] = "previous" -> "archived"
          [] OTHER -> status[q]]

(* Mutant: only the source's own runs are asked who links a content. *)
CollectableInSource(r) ==
    {c \in contents :
        /\ \E q \in RunsOf(SourceOf[r]) : status[q] = "previous" /\ c \in occurrences[q]
        /\ \A q \in RunsOf(SourceOf[r]) : c \in occurrences[q] => status[q] = "previous"}

(* Contents of the source's retiring fallback that no other run links. *)
Collectable(r) ==
    {c \in contents :
        /\ \E q \in RunsOf(SourceOf[r]) : status[q] = "previous" /\ c \in occurrences[q]
        /\ \A q \in Runs : c \in occurrences[q] =>
                           SourceOf[q] = SourceOf[r] /\ status[q] = "previous"}

(* A READY run goes live; some of what only the retiring run used is       *)
(* collected.                                                              *)
Activate(r) ==
    /\ status[r] = "ready"
    /\ status' = Succession(r)
    /\ pointer' = [pointer EXCEPT ![SourceOf[r]] = r]
    /\ occurrences' = [q \in Runs |->
                          IF SourceOf[q] = SourceOf[r] /\ status[q] = "previous"
                          THEN {} ELSE occurrences[q]]
    /\ \E garbage \in SUBSET Collectable(r) : contents' = contents \ garbage

(* The fallback and the active run change places; nothing is collected. *)
Rollback(r) ==
    /\ status[r] = "previous"
    /\ status' = Succession(r)
    /\ pointer' = [pointer EXCEPT ![SourceOf[r]] = r]
    /\ UNCHANGED <<occurrences, contents>>

Next ==
    \E r \in Runs : \/ PublishReady(r)
                    \/ PublishFailed(r)
                    \/ Activate(r)
                    \/ Rollback(r)

Spec == Init /\ [][Next]_vars

---------------------------------------------------------------------------
(* The pointer of a source names exactly its ACTIVE run, and never a run   *)
(* of another source: search joins the two, activate and rollback refuse   *)
(* to work when they disagree.                                             *)
PointerNamesActive ==
    \A s \in Sources, r \in Runs :
        pointer[s] = r <=> SourceOf[r] = s /\ status[r] = "active"

(* A source has at most one run to roll back to, and only next to a live   *)
(* one: otherwise every later activation of the source is refused.         *)
FallbackIsUnambiguous ==
    \A r, q \in Runs :
        SourceOf[r] = SourceOf[q] /\ status[r] = "previous" =>
            /\ pointer[SourceOf[r]] # NoRun
            /\ status[q] = "previous" => q = r

(* Whatever may still be searched, activated or rolled back to is complete: *)
(* all its documents are linked and stored, whoever else's garbage was     *)
(* collected meanwhile.                                                    *)
RetainedRunsIntact ==
    \A r \in Runs : status[r] \in Retained =>
        occurrences[r] = Snapshot[r] /\ Snapshot[r] \subseteq contents

(* A failed or archived run, and one that was never committed, holds no    *)
(* document alive.                                                         *)
DiscardedRunsHoldNothing ==
    \A r \in Runs : status[r] \notin Retained => occurrences[r] = {}

(* The pointer, the status and the fallback of a source agree, so that no  *)
(* activation, rollback or search finds it inconsistent, and every run has *)
(* exactly the documents its status calls for, as long as it calls for     *)
(* them (repository_activation.py).                                        *)
SourcesAreConsistent == PointerNamesActive /\ FallbackIsUnambiguous
ContentsAreConsistent == RetainedRunsIntact /\ DiscardedRunsHoldNothing

(* A source that served a run never stops serving: the pointer only moves  *)
(* to another run of the source, and the run it leaves is the one a        *)
(* rollback would bring back.                                              *)
SwitchKeepsFallback ==
    [][\A s \in Sources :
           pointer[s] # NoRun /\ pointer'[s] # pointer[s] =>
               /\ pointer'[s] # NoRun
               /\ status'[pointer[s]] = "previous"]_vars
===========================================================================
