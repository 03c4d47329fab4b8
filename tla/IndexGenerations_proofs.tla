---------------------- MODULE IndexGenerations_proofs ---------------------
(***************************************************************************)
(* The promises of IndexGenerations hold for any number of sources, runs   *)
(* and contents.  Their conjunction is inductive as it stands: uniqueness  *)
(* of the fallback is what keeps a switch from archiving two runs, and the *)
(* pointer's agreement with ACTIVE is what makes the run a switch leaves   *)
(* the one it demotes.                                                     *)
(***************************************************************************)
EXTENDS IndexGenerations, TLAPS

Inv ==
    /\ TypeOK
    /\ PointerNamesActive
    /\ FallbackIsUnambiguous
    /\ RetainedRunsIntact
    /\ DiscardedRunsHoldNothing

(* The empty database satisfies every promise. *)
LEMMA InitEstablishesInv == Init => Inv
BY SourceOfAssumption, SnapshotAssumption, NoRunAssumption
   DEF Init, Inv, TypeOK, Statuses, Retained, PointerNamesActive,
       FallbackIsUnambiguous, RetainedRunsIntact, DiscardedRunsHoldNothing

(* The statuses after a switch, run by run. *)
LEMMA SuccessionStatus ==
    ASSUME TypeOK, NEW r \in Runs
    PROVE  /\ Succession(r) \in [Runs -> Statuses]
           /\ Succession(r)[r] = "active"
           /\ \A q \in Runs \ {r} : SourceOf[q] = SourceOf[r] =>
                 /\ status[q] = "active" => Succession(r)[q] = "previous"
                 /\ status[q] = "previous" => Succession(r)[q] = "archived"
                 /\ status[q] \notin {"active", "previous"} => Succession(r)[q] = status[q]
           /\ \A q \in Runs : SourceOf[q] # SourceOf[r] => Succession(r)[q] = status[q]
BY DEF TypeOK, Statuses, Succession

(* Storing a READY build keeps the promises. *)
LEMMA PublishReadyPreservesInv ==
    ASSUME Inv, NEW r \in Runs, PublishReady(r)
    PROVE  Inv'
<1> USE SourceOfAssumption, SnapshotAssumption, NoRunAssumption
<1>1. TypeOK'
  BY DEF Inv, TypeOK, PublishReady, Statuses
<1>2. PointerNamesActive' /\ FallbackIsUnambiguous'
  BY DEF Inv, TypeOK, PublishReady, PointerNamesActive, FallbackIsUnambiguous
<1>3. RetainedRunsIntact' /\ DiscardedRunsHoldNothing'
  BY DEF Inv, TypeOK, PublishReady, RetainedRunsIntact, DiscardedRunsHoldNothing, Retained
<1> QED  BY <1>1, <1>2, <1>3 DEF Inv

(* Recording a FAILED build keeps the promises. *)
LEMMA PublishFailedPreservesInv ==
    ASSUME Inv, NEW r \in Runs, PublishFailed(r)
    PROVE  Inv'
<1> USE SourceOfAssumption, SnapshotAssumption, NoRunAssumption
<1>1. TypeOK'
  BY DEF Inv, TypeOK, PublishFailed, Statuses
<1>2. PointerNamesActive' /\ FallbackIsUnambiguous'
  BY DEF Inv, TypeOK, PublishFailed, PointerNamesActive, FallbackIsUnambiguous
<1>3. RetainedRunsIntact' /\ DiscardedRunsHoldNothing'
  BY DEF Inv, TypeOK, PublishFailed, RetainedRunsIntact, DiscardedRunsHoldNothing, Retained
<1> QED  BY <1>1, <1>2, <1>3 DEF Inv

(* A switch to a READY or PREVIOUS run keeps the pointer and the statuses  *)
(* in agreement, whatever it does to the stored documents.                 *)
LEMMA SuccessionKeepsPointer ==
    ASSUME Inv, TypeOK', NEW r \in Runs,
           status[r] \in {"ready", "previous"},
           status' = Succession(r),
           pointer' = [pointer EXCEPT ![SourceOf[r]] = r]
    PROVE  PointerNamesActive' /\ FallbackIsUnambiguous'
<1> USE SourceOfAssumption, NoRunAssumption
<1> DEFINE home == SourceOf[r]
<1>1. home \in Sources /\ pointer'[home] = r
  BY DEF Inv, TypeOK
<1>2. \A s \in Sources \ {home} : pointer'[s] = pointer[s]
  BY DEF Inv, TypeOK
<1>3. ASSUME NEW s \in Sources, NEW q \in Runs
      PROVE  pointer'[s] = q <=> SourceOf[q] = s /\ status'[q] = "active"
  <2>1. CASE s = home
    BY <1>1, <2>1, SuccessionStatus DEF Inv, TypeOK, Statuses
  <2>2. CASE s # home
    BY <1>2, <2>2, SuccessionStatus DEF Inv, TypeOK, PointerNamesActive
  <2> QED  BY <2>1, <2>2
<1>4. ASSUME NEW p \in Runs, NEW q \in Runs, SourceOf[p] = SourceOf[q],
             status'[p] = "previous"
      PROVE  pointer'[SourceOf[p]] # NoRun /\ (status'[q] = "previous" => q = p)
  <2>1. CASE SourceOf[p] = home
    <3>1. \A o \in Runs : SourceOf[o] = home /\ status'[o] = "previous" => status[o] = "active"
      BY SuccessionStatus DEF Inv, TypeOK, Statuses
    <3>2. status[p] = "active" /\ (status'[q] = "previous" => status[q] = "active")
      BY <1>4, <2>1, <3>1
    <3>3. \A o \in Runs : SourceOf[o] = home /\ status[o] = "active" => pointer[home] = o
      BY <1>1 DEF Inv, PointerNamesActive
    <3>4. SourceOf[q] = home
      BY <1>4, <2>1
    <3>5. pointer'[SourceOf[p]] # NoRun
      BY <1>1, <2>1
    <3> QED  BY <2>1, <3>2, <3>3, <3>4, <3>5
  <2>2. CASE SourceOf[p] # home
    BY <1>2, <1>4, <2>2, SuccessionStatus DEF Inv, TypeOK, FallbackIsUnambiguous
  <2> QED  BY <2>1, <2>2
<1> QED  BY <1>3, <1>4 DEF PointerNamesActive, FallbackIsUnambiguous

(* Activation keeps the promises: what it collects was linked by the       *)
(* retiring run alone.                                                     *)
LEMMA ActivatePreservesInv ==
    ASSUME Inv, NEW r \in Runs, Activate(r)
    PROVE  Inv'
<1> USE SourceOfAssumption, SnapshotAssumption, NoRunAssumption
<1>1. PICK garbage \in SUBSET Collectable(r) : contents' = contents \ garbage
  BY DEF Activate
<1>2. TypeOK'
  BY <1>1, SuccessionStatus DEF Inv, TypeOK, Activate
<1>3. PointerNamesActive' /\ FallbackIsUnambiguous'
  BY <1>2, SuccessionKeepsPointer DEF Activate
<1>4. ASSUME NEW q \in Runs
      PROVE  /\ status'[q] \in Retained =>
                   occurrences'[q] = Snapshot[q] /\ Snapshot[q] \subseteq contents'
             /\ status'[q] \notin Retained => occurrences'[q] = {}
  <2>1. CASE SourceOf[q] = SourceOf[r] /\ status[q] = "previous"
    <3>1. q # r /\ status'[q] = "archived"
      BY <2>1, SuccessionStatus DEF Activate, Inv
    <3> QED  BY <2>1, <3>1 DEF Activate, Retained
  <2>2. CASE ~ (SourceOf[q] = SourceOf[r] /\ status[q] = "previous")
    <3>1. occurrences'[q] = occurrences[q]
      BY <2>2 DEF Activate
    <3>2. status'[q] \in Retained <=> status[q] \in Retained
      BY <2>2, SuccessionStatus DEF Activate, Inv, TypeOK, Statuses, Retained
    <3>3. \A c \in garbage : c \notin occurrences[q]
      BY <1>1, <2>2 DEF Collectable
    <3> QED  BY <1>1, <3>1, <3>2, <3>3
             DEF Inv, TypeOK, RetainedRunsIntact, DiscardedRunsHoldNothing
  <2> QED  BY <2>1, <2>2
<1>5. RetainedRunsIntact' /\ DiscardedRunsHoldNothing'
  BY <1>4 DEF RetainedRunsIntact, DiscardedRunsHoldNothing
<1> QED  BY <1>2, <1>3, <1>5 DEF Inv

(* Rollback keeps the promises: there is no second fallback to archive. *)
LEMMA RollbackPreservesInv ==
    ASSUME Inv, NEW r \in Runs, Rollback(r)
    PROVE  Inv'
<1> USE SourceOfAssumption, SnapshotAssumption, NoRunAssumption
<1>1. TypeOK'
  BY SuccessionStatus DEF Inv, TypeOK, Rollback
<1>2. PointerNamesActive' /\ FallbackIsUnambiguous'
  BY <1>1, SuccessionKeepsPointer DEF Rollback
<1>3. \A q \in Runs : status'[q] \in Retained <=> status[q] \in Retained
  <2> TAKE q \in Runs
  <2>1. CASE SourceOf[q] = SourceOf[r] /\ status[q] = "previous"
    BY <2>1, SuccessionStatus DEF Rollback, Inv, FallbackIsUnambiguous, Retained
  <2>2. CASE ~ (SourceOf[q] = SourceOf[r] /\ status[q] = "previous")
    BY <2>2, SuccessionStatus DEF Rollback, Inv, TypeOK, Statuses, Retained
  <2> QED  BY <2>1, <2>2
<1>4. RetainedRunsIntact' /\ DiscardedRunsHoldNothing'
  BY <1>3 DEF Inv, Rollback, RetainedRunsIntact, DiscardedRunsHoldNothing
<1> QED  BY <1>1, <1>2, <1>4 DEF Inv

LEMMA NextPreservesInv == Inv /\ [Next]_vars => Inv'
<1> SUFFICES ASSUME Inv, [Next]_vars  PROVE Inv'
  OBVIOUS
<1>1. ASSUME NEW r \in Runs, PublishReady(r)  PROVE Inv'
  BY <1>1, PublishReadyPreservesInv
<1>2. ASSUME NEW r \in Runs, PublishFailed(r)  PROVE Inv'
  BY <1>2, PublishFailedPreservesInv
<1>3. ASSUME NEW r \in Runs, Activate(r)  PROVE Inv'
  BY <1>3, ActivatePreservesInv
<1>4. ASSUME NEW r \in Runs, Rollback(r)  PROVE Inv'
  BY <1>4, RollbackPreservesInv
<1>5. CASE UNCHANGED vars
  BY <1>5 DEF Inv, vars, TypeOK, PointerNamesActive, FallbackIsUnambiguous,
              RetainedRunsIntact, DiscardedRunsHoldNothing
<1> QED  BY <1>1, <1>2, <1>3, <1>4, <1>5 DEF Next

(* All five promises hold of every reachable database. *)
THEOREM InvariantHolds == Spec => []Inv
<1> QED  BY InitEstablishesInv, NextPreservesInv, PTL DEF Spec

(* The pointer, the ACTIVE status and the fallback of every source always  *)
(* agree, so an activation or a rollback never finds the source            *)
(* inconsistent (repository_activation.py, activate and prepare_rollback). *)
THEOREM LifecycleIsConsistent ==
    Spec => [](TypeOK /\ SourcesAreConsistent)
<1>1. Inv => TypeOK /\ SourcesAreConsistent
  BY DEF Inv, SourcesAreConsistent
<1> QED  BY <1>1, InvariantHolds, PTL

(* Garbage collection never takes a document a READY, ACTIVE or PREVIOUS   *)
(* run of any source needs, and retired runs keep nothing alive            *)
(* (repository_activation.py, _prune_archived_run).                        *)
THEOREM CollectionIsSafe == Spec => []ContentsAreConsistent
<1>1. Inv => ContentsAreConsistent
  BY DEF Inv, ContentsAreConsistent
<1> QED  BY <1>1, InvariantHolds, PTL

(* A source that serves keeps serving, and can go back to what it served   *)
(* before (repository_activation.py, activate and rollback).               *)
THEOREM FallbackIsKept == Spec => SwitchKeepsFallback
<1> DEFINE Kept == \A s \in Sources :
                       pointer[s] # NoRun /\ pointer'[s] # pointer[s] =>
                           /\ pointer'[s] # NoRun
                           /\ status'[pointer[s]] = "previous"
<1>1. ASSUME Inv, [Next]_vars  PROVE Kept
  <2>1. ASSUME NEW r \in Runs, Activate(r) \/ Rollback(r)  PROVE Kept
    <3>1. /\ status' = Succession(r)
          /\ pointer' = [pointer EXCEPT ![SourceOf[r]] = r]
          /\ status[r] \in {"ready", "previous"}
      BY <2>1 DEF Activate, Rollback
    <3> QED  BY <1>1, <3>1, SuccessionStatus, SourceOfAssumption, NoRunAssumption
             DEF Inv, TypeOK, PointerNamesActive
  <2>2. ASSUME NEW r \in Runs, PublishReady(r) \/ PublishFailed(r)  PROVE Kept
    BY <2>2 DEF PublishReady, PublishFailed
  <2>3. CASE UNCHANGED vars
    BY <2>3 DEF vars
  <2> QED  BY <1>1, <2>1, <2>2, <2>3 DEF Next
<1> QED  BY <1>1, InvariantHolds, PTL DEF Spec, SwitchKeepsFallback
===========================================================================
