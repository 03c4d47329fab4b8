------------------------- MODULE Embeddings_proofs -------------------------
(***************************************************************************)
(* What is proved of the calculation of embeddings: of the runtime of the  *)
(* model first, then of the builds that share what it has calculated.      *)
(***************************************************************************)
EXTENDS EmbeddingRuntime, ArtifactReuse, FiniteSetTheorems, TLAPS

---------------------------------------------------------------------------
(***************************************************************************)
(* The loading protocol and the inference lane are right for any number of *)
(* threads.  The counter of the cohort is what has to be strengthened: it  *)
(* is the cardinality of a set of threads, and each critical section adds  *)
(* one thread to that set, removes one, or dissolves it.                   *)
(***************************************************************************)

InferenceStands == {"lane", "acquire", "own", "operate", "release"}

(* The threads that load or wait for the current load. *)
Members == {t \in Threads : (Loads(t) \/ Waits(t)) /\ joined[t] = generation}

(* A nested call is refused before it waits for anything. *)
Nesting ==
    \A t \in Threads :
        /\ caller[t] = "load" => pc[t] = "enter"
        /\ caller[t] = "operate" => pc[t] \in {"enter", "lane"} /\ state = "ready"
        /\ pc[t] \in InferenceStands => state = "ready"

(* No thread is ahead of the generation, and the loader is not behind. *)
Generation ==
    /\ \A t \in Threads : joined[t] <= generation
    /\ \A t \in Threads : Loads(t) => joined[t] = generation
    /\ state = "failed" => failedGeneration = generation

Inv ==
    /\ TypeOK
    /\ OneLoader
    /\ NoSleeperIsForgotten
    /\ CohortIsCounted
    /\ OwnerHoldsLane
    /\ Nesting
    /\ Generation

(* Every part of the invariant but the count. *)
Shape ==
    /\ TypeOK
    /\ OneLoader
    /\ NoSleeperIsForgotten
    /\ OwnerHoldsLane
    /\ Nesting
    /\ Generation

LEMMA InitEstablishesInv == Init => Inv
<1> SUFFICES ASSUME Init  PROVE Inv
  OBVIOUS
<1> USE ThreadsAssumption, BoundsAssumption
<1>1. TypeOK /\ CohortIsCounted /\ Generation
  BY DEF Init, TypeOK, Stands, CohortIsCounted, Generation, Loads
<1>2. OneLoader /\ NoSleeperIsForgotten /\ OwnerHoldsLane /\ Nesting
  BY DEF Init, OneLoader, NoSleeperIsForgotten, OwnerHoldsLane, Nesting, Loads, Waits,
         Operates, InferenceStands
<1> QED  BY <1>1, <1>2 DEF Inv

(* Calls, and the looks at the runtime that do not join it. *)
LEMMA CallsKeepShape ==
    ASSUME Shape, NEW t \in Threads,
           Call(t) \/ Reenter(t) \/ UseBackend(t) \/ FailFast(t) \/ RefuseLoader(t)
    PROVE  Shape'
BY ThreadsAssumption, BoundsAssumption
   DEF Shape, TypeOK, Stands, OneLoader, NoSleeperIsForgotten, OwnerHoldsLane, Nesting,
       Generation, Loads, Waits, Operates, InferenceStands, runtime, inference, bounds,
       Call, Reenter, UseBackend, FailFast, RefuseLoader, Raise, Outer, Looks, OwnLoadFailed

(* The steps through the inference lane. *)
LEMMA InferenceKeepsShape ==
    ASSUME Shape, NEW t \in Threads, Infer(t) \/ InterruptAcquire(t)
    PROVE  Shape'
BY ThreadsAssumption, BoundsAssumption
   DEF Shape, TypeOK, Stands, OneLoader, NoSleeperIsForgotten, OwnerHoldsLane, Nesting,
       Generation, Loads, Waits, Operates, InferenceStands, runtime, inference, bounds,
       Infer, CheckOwner, RefuseOwner, Acquire, TakeOwnership, EndOperation, Release,
       InterruptAcquire, Interrupt, Raise, Outer

(* A thread begins to load, or to wait for the one that does. *)
LEMMA JoiningKeepsShape ==
    ASSUME Shape, NEW t \in Threads, StartLoad(t) \/ Join(t)
    PROVE  Shape'
BY ThreadsAssumption, BoundsAssumption
   DEF Shape, TypeOK, Stands, OneLoader, NoSleeperIsForgotten, OwnerHoldsLane, Nesting,
       Generation, Loads, Waits, Operates, InferenceStands, runtime, inference, bounds,
       StartLoad, Join, Looks, OwnLoadFailed

(* A load ends without a cohort. *)
LEMMA DissolvingKeepsShape ==
    ASSUME Shape, NEW t \in Threads, InterruptLoad(t) \/ FinishLoad(t)
    PROVE  Shape'
BY ThreadsAssumption, BoundsAssumption
   DEF Shape, TypeOK, Stands, OneLoader, NoSleeperIsForgotten, OwnerHoldsLane, Nesting,
       Generation, Loads, Waits, Operates, InferenceStands, runtime, inference, bounds,
       InterruptLoad, FinishLoad, Interrupt, NotifyAll

(* A member leaves the cohort of its load. *)
LEMMA LeavingKeepsShape ==
    ASSUME Shape, NEW t \in Threads, LeaveFailed(t) \/ FailLoad(t) \/ InterruptWait(t)
    PROVE  Shape'
<1> USE DEF Shape, TypeOK, Stands, OneLoader, NoSleeperIsForgotten, OwnerHoldsLane, Nesting,
        Generation, Loads, Waits, Operates, InferenceStands, inference, bounds
<1>1. MembersWithout(t) \in Nat
  BY DEF MembersWithout
<1>2. caller[t] = "outside" /\ Outer(t) = "idle"
  BY DEF Outer, LeaveFailed, FailLoad, InterruptWait
<1>3. CASE FailLoad(t)
  <2>1. joined[t] = generation
    BY <1>3 DEF FailLoad
  <2>2. pc' = [u \in Threads |-> IF u = t THEN "idle"
                                ELSE IF pc[u] = "asleep" THEN "awake" ELSE pc[u]]
    <3>1. \/ pc' = [NotifyAll(pc) EXCEPT ![t] = "idle"]
          \/ pc' = NotifyAll([NotifyAll(pc) EXCEPT ![t] = "idle"])
      BY <1>2, <1>3 DEF FailLoad, LeaveCohort
    <3>2. [NotifyAll(pc) EXCEPT ![t] = "idle"]
            = [u \in Threads |-> IF u = t THEN "idle"
                                 ELSE IF pc[u] = "asleep" THEN "awake" ELSE pc[u]]
      BY DEF NotifyAll
    <3>3. NotifyAll([NotifyAll(pc) EXCEPT ![t] = "idle"]) = [NotifyAll(pc) EXCEPT ![t] = "idle"]
      BY <3>2 DEF NotifyAll
    <3> QED  BY <3>1, <3>2, <3>3
  <2>3. /\ state' \in {"unloaded", "failed"} /\ loader' = NoThread
        /\ cohort' = MembersWithout(t) /\ failedGeneration' \in {0, generation}
        /\ state' = "failed" => failedGeneration' = generation
        /\ caller' = [caller EXCEPT ![t] = "outside"]
        /\ UNCHANGED <<generation, inference, joined, bounds>>
    BY <1>3, <2>1 DEF FailLoad, LeaveCohort
  <2>4. pc[t] = "load" /\ state = "loading" /\ loader = t
    BY <1>3 DEF FailLoad
  <2>5. TypeOK' /\ OneLoader'
    BY <1>1, <1>2, <2>2, <2>3, <2>4, ThreadsAssumption
  <2>6. NoSleeperIsForgotten' /\ OwnerHoldsLane'
    BY <1>2, <2>2, <2>3, <2>4
  <2>7. Nesting' /\ Generation'
    BY <1>2, <2>2, <2>3, <2>4
  <2> QED  BY <2>5, <2>6, <2>7
<1>4. CASE LeaveFailed(t)
  <2>1. CASE LastOfCohort(t)
    BY <1>1, <1>2, <1>4, <2>1, ThreadsAssumption
       DEF LeaveFailed, LeaveCohort, NotifyAll, OwnLoadFailed
  <2>2. CASE ~ LastOfCohort(t)
    BY <1>1, <1>2, <1>4, <2>2, ThreadsAssumption
       DEF LeaveFailed, LeaveCohort, NotifyAll, OwnLoadFailed
  <2> QED  BY <2>1, <2>2
<1>5. CASE InterruptWait(t)
  <2>1. CASE OwnLoadFailed(t) /\ LastOfCohort(t)
    BY <1>1, <1>2, <1>5, <2>1, ThreadsAssumption, BoundsAssumption
       DEF InterruptWait, LeaveCohort, NotifyAll, OwnLoadFailed, Interrupt
  <2>2. CASE ~ (OwnLoadFailed(t) /\ LastOfCohort(t))
    BY <1>1, <1>2, <1>5, <2>2, ThreadsAssumption, BoundsAssumption
       DEF InterruptWait, LeaveCohort, OwnLoadFailed, Interrupt
  <2> QED  BY <2>1, <2>2
<1> QED  BY <1>3, <1>4, <1>5

---------------------------------------------------------------------------
LEMMA MembersAreFinite == IsFiniteSet(Members)
<1>1. Members \in SUBSET Threads
  BY DEF Members
<1> QED  BY <1>1, FS_Subset, ThreadsAssumption

(* What the counter says, in terms of Members. *)
LEMMA CountOfMembers ==
    /\ CohortIsCounted <=>
           cohort = IF state \in {"loading", "failed"} THEN Cardinality(Members) ELSE 0
    /\ CohortIsCounted' <=>
           cohort' = IF state' \in {"loading", "failed"} THEN Cardinality(Members') ELSE 0
BY DEF CohortIsCounted, Members

(* The steps that leave the cohort alone. *)
LEMMA OthersKeepCount ==
    ASSUME Shape, CohortIsCounted, NEW t \in Threads,
           \/ Call(t) \/ Reenter(t) \/ UseBackend(t) \/ FailFast(t) \/ RefuseLoader(t)
           \/ Infer(t) \/ InterruptAcquire(t)
    PROVE  CohortIsCounted'
<1>1. state' = state /\ cohort' = cohort
  BY DEF Call, Reenter, UseBackend, FailFast, RefuseLoader, Infer, CheckOwner, RefuseOwner,
         Acquire, TakeOwnership, EndOperation, Release, InterruptAcquire, runtime
<1>2. CASE state = "ready"
  BY <1>1, <1>2, CountOfMembers
<1>3. CASE state # "ready"
  <2>1. ASSUME NEW u \in Threads  PROVE u \in Members' <=> u \in Members
    <3>1. CASE Call(t) \/ Reenter(t) \/ FailFast(t) \/ RefuseLoader(t)
      BY <1>3, <3>1 DEF Shape, TypeOK, OneLoader, Nesting, Generation, InferenceStands,
         Members, Loads, Waits, Call, Reenter, FailFast, RefuseLoader, Raise, Outer,
         Looks, OwnLoadFailed, runtime
    <3>2. CASE UseBackend(t) \/ Infer(t) \/ InterruptAcquire(t)
      BY <1>3, <3>2 DEF Shape, Nesting, InferenceStands, UseBackend, Infer, CheckOwner,
         RefuseOwner, Acquire, TakeOwnership, EndOperation, Release, InterruptAcquire
    <3> QED  BY <3>1, <3>2
  <2>2. Members' = Members
    BY <2>1 DEF Members
  <2> QED  BY <1>1, <2>2, CountOfMembers
<1> QED  BY <1>2, <1>3

(* A cohort begins with its loader, and every thread that joins counts.    *)
LEMMA JoiningKeepsCount ==
    ASSUME Shape, CohortIsCounted, NEW t \in Threads, StartLoad(t) \/ Join(t)
    PROVE  CohortIsCounted'
<1>1. CASE StartLoad(t)
  <2>1. \A u \in Threads : u \in Members' <=> u = t
    BY <1>1 DEF Shape, TypeOK, Generation, Members, Loads, Waits, StartLoad, Looks
  <2>2. Members' = {t}
    BY <2>1 DEF Members
  <2>3. Cardinality(Members') = 1
    BY <2>2, FS_Singleton
  <2> QED  BY <1>1, <2>3, CountOfMembers DEF StartLoad
<1>2. CASE Join(t)
  <2>1. t \notin Members
    <3>1. ~ Loads(t)
      BY <1>2 DEF Shape, OneLoader, Join
    <3>2. Waits(t) => joined[t] # generation
      BY <1>2 DEF Shape, NoSleeperIsForgotten, Waits, Join, Looks
    <3> QED  BY <3>1, <3>2 DEF Members
  <2>2. \A u \in Threads : u \in Members' <=> u \in Members \/ u = t
    BY <1>2 DEF Shape, TypeOK, Members, Loads, Waits, Join
  <2>3. Members' = Members \cup {t}
    BY <2>2 DEF Members
  <2>4. Cardinality(Members') = Cardinality(Members) + 1
    BY <2>1, <2>3, MembersAreFinite, FS_AddElement
  <2> QED  BY <1>2, <2>4, CountOfMembers DEF Join
<1> QED  BY <1>1, <1>2

LEMMA DissolvingKeepsCount ==
    ASSUME NEW t \in Threads, InterruptLoad(t) \/ FinishLoad(t)
    PROVE  CohortIsCounted'
BY CountOfMembers DEF InterruptLoad, FinishLoad

(* Who leaves is a member if the cohort is still that of its load. *)
LEMMA LeavingKeepsCount ==
    ASSUME Shape, CohortIsCounted, NEW t \in Threads,
           LeaveFailed(t) \/ FailLoad(t) \/ InterruptWait(t)
    PROVE  CohortIsCounted'
<1>1. /\ (Loads(t) \/ Waits(t)) /\ caller[t] = "outside" /\ Outer(t) = "idle"
      /\ generation' = generation /\ joined' = joined /\ cohort' = MembersWithout(t)
  BY DEF Shape, TypeOK, Nesting, Outer, Loads, Waits, LeaveFailed, FailLoad, InterruptWait,
         LeaveCohort
<1>2. \A u \in Threads : u \in Members' <=> u \in Members /\ u # t
  <2>1. \A u \in Threads : u # t => (pc'[u] = pc[u] \/ {pc'[u], pc[u]} \subseteq {"asleep", "awake"})
    BY DEF Shape, TypeOK, LeaveFailed, FailLoad, InterruptWait, LeaveCohort, NotifyAll
  <2>2. pc'[t] = "idle" /\ caller' = [caller EXCEPT ![t] = "outside"]
    BY <1>1 DEF Shape, TypeOK, LeaveFailed, FailLoad, InterruptWait, LeaveCohort, NotifyAll
  <2> QED  BY <1>1, <2>1, <2>2 DEF Shape, TypeOK, Members, Loads, Waits
<1>3. Members' = Members \ {t}
  BY <1>2 DEF Members
<1>4. Cardinality(Members') = IF t \in Members THEN Cardinality(Members) - 1
                                               ELSE Cardinality(Members)
  BY <1>3, MembersAreFinite, FS_RemoveElement
<1>5. t \in Members <=> joined[t] = generation
  BY <1>1 DEF Members
<1>6. CASE state \in {"unloaded", "ready"}
  <2>1. cohort = 0 /\ state' = state
    BY <1>6, CountOfMembers DEF Shape, OneLoader, Loads, LeaveFailed, FailLoad,
       InterruptWait, LeaveCohort, OwnLoadFailed
  <2> QED  BY <1>1, <1>6, <2>1, CountOfMembers DEF MembersWithout
<1>7. CASE state \in {"loading", "failed"}
  <2>1. cohort = Cardinality(Members) /\ cohort \in Nat
    BY <1>7, CountOfMembers, MembersAreFinite, FS_CardinalityType
  <2>2. t \in Members => cohort # 0
    BY <2>1, MembersAreFinite, FS_EmptySet
  <2>3. MembersWithout(t) = Cardinality(Members')
    BY <1>4, <1>5, <2>1, <2>2 DEF MembersWithout
  <2>4. state' = "unloaded" => cohort' = 0
    BY <1>1, <1>7 DEF LeaveFailed, FailLoad, InterruptWait, LeaveCohort, LastOfCohort,
       MembersWithout
  <2>5. state' \in {"unloaded", "loading", "failed"}
    BY <1>7 DEF LeaveFailed, FailLoad, InterruptWait, LeaveCohort
  <2> QED  BY <1>1, <2>3, <2>4, <2>5, CountOfMembers
<1> QED  BY <1>6, <1>7 DEF Shape, TypeOK

LEMMA NextPreservesInv == Inv /\ [Next]_vars => Inv'
<1> SUFFICES ASSUME Inv, [Next]_vars  PROVE Inv'
  OBVIOUS
<1>1. Shape /\ CohortIsCounted
  BY DEF Inv, Shape
<1>2. CASE UNCHANGED vars
  <2>1. Shape'
    BY <1>1, <1>2 DEF Shape, TypeOK, OneLoader, NoSleeperIsForgotten, OwnerHoldsLane, Nesting,
       Generation, Loads, Waits, Operates, vars, runtime, inference, bounds
  <2>2. CohortIsCounted'
    BY <1>1, <1>2 DEF CohortIsCounted, Loads, Waits, vars, runtime, inference, bounds
  <2> QED  BY <2>1, <2>2 DEF Inv, Shape
<1>3. CASE Next
  <2>1. PICK t \in Threads :
          \/ Progress(t) \/ Call(t) \/ Reenter(t)
          \/ InterruptWait(t) \/ InterruptLoad(t) \/ InterruptAcquire(t)
    BY <1>3 DEF Next
  <2>2. CASE \/ Call(t) \/ Reenter(t) \/ UseBackend(t) \/ FailFast(t) \/ RefuseLoader(t)
    BY <1>1, <2>2, CallsKeepShape, OthersKeepCount DEF Inv, Shape
  <2>3. CASE Infer(t) \/ InterruptAcquire(t)
    BY <1>1, <2>3, InferenceKeepsShape, OthersKeepCount DEF Inv, Shape
  <2>4. CASE StartLoad(t) \/ Join(t)
    BY <1>1, <2>4, JoiningKeepsShape, JoiningKeepsCount DEF Inv, Shape
  <2>5. CASE InterruptLoad(t) \/ FinishLoad(t)
    BY <1>1, <2>5, DissolvingKeepsShape, DissolvingKeepsCount DEF Inv, Shape
  <2>6. CASE LeaveFailed(t) \/ FailLoad(t) \/ InterruptWait(t)
    BY <1>1, <2>6, LeavingKeepsShape, LeavingKeepsCount DEF Inv, Shape
  <2> QED  BY <2>1, <2>2, <2>3, <2>4, <2>5, <2>6 DEF Progress, Look
<1> QED  BY <1>2, <1>3

LEMMA InvariantHolds == Spec => []Inv
<1> QED  BY InitEstablishesInv, NextPreservesInv, PTL DEF Spec

(* The runtime and its threads keep their types. *)
THEOREM TypeCorrect == Spec => []TypeOK
<1>1. Inv => TypeOK
  BY DEF Inv
<1> QED  BY <1>1, InvariantHolds, PTL

(* Whatever the number of threads, calls and control-flow exceptions: one  *)
(* thread loads the model at a time, every end of a load wakes all who     *)
(* wait for it, and the counter that reopens a failed runtime is the       *)
(* number of threads still to leave.                                       *)
THEOREM LoadingIsOrderly == Spec => []LoadIsOrderly
<1>1. Inv => LoadIsOrderly
  BY DEF Inv, LoadIsOrderly
<1> QED  BY <1>1, InvariantHolds, PTL

(* The model works for one thread at a time, and the owner of the lane is  *)
(* that thread: no nested call waits for the semaphore its own thread has. *)
THEOREM LaneIsExclusive == Spec => []OwnerHoldsLane
<1>1. Inv => OwnerHoldsLane
  BY DEF Inv
<1> QED  BY <1>1, InvariantHolds, PTL

(* The last of a failed cohort leaves nobody behind. *)
LEMMA LastLeavesNobody ==
    ASSUME Shape, CohortIsCounted, NEW t \in Threads, state \in {"loading", "failed"},
           Loads(t) \/ Waits(t), LastOfCohort(t)
    PROVE  \A u \in Threads : Waits(u) /\ joined[u] = generation => u = t
<1>1. t \in Members
  BY DEF Members, LastOfCohort
<1>2. Cardinality(Members) = 1
  BY CountOfMembers DEF LastOfCohort
<1>3. Cardinality(Members \ {t}) = 0
  BY <1>1, <1>2, MembersAreFinite, FS_RemoveElement
<1>4. Members \ {t} = {}
  BY <1>3, MembersAreFinite, FS_RemoveElement, FS_EmptySet
<1> QED  BY <1>4 DEF Members

(* A failed runtime is opened again only by the last of those who waited   *)
(* for the failed load: none of them can take part in a retry.             *)
THEOREM RetriesAwaitCohort == Spec => RetryAwaitsCohort
<1>1. ASSUME Inv, [Next]_vars, Reopens, NEW u \in Threads, Waits(u)'
      PROVE  joined'[u] # generation
  <2>1. Shape /\ CohortIsCounted
    BY <1>1 DEF Inv, Shape
  <2>2. PICK t \in Threads :
          \/ LeaveFailed(t) /\ state = "failed" /\ state' # "failed"
          \/ InterruptWait(t) /\ state = "failed" /\ state' # "failed"
          \/ FailLoad(t) /\ state' = "unloaded"
    <3>1. CASE \E t \in Threads : FailLoad(t) /\ state' = "unloaded"
      BY <3>1
    <3>2. CASE state = "failed" /\ state' # "failed"
      <4>1. PICK t \in Threads :
              \/ Progress(t) \/ Call(t) \/ Reenter(t)
              \/ InterruptWait(t) \/ InterruptLoad(t) \/ InterruptAcquire(t)
        BY <1>1, <3>2 DEF Next, vars, runtime
      <4>2. ~ Loads(t)
        BY <1>1, <3>2 DEF Inv, OneLoader
      <4>3. LeaveFailed(t) \/ InterruptWait(t)
        BY <3>2, <4>1, <4>2 DEF Progress, Look, Infer, Call, Reenter, UseBackend, FailFast,
           StartLoad, RefuseLoader, Join, FailLoad, FinishLoad, CheckOwner, RefuseOwner,
           Acquire, TakeOwnership, EndOperation, Release, InterruptLoad, InterruptAcquire,
           Loads, runtime
      <4> QED  BY <3>2, <4>3
    <3> QED  BY <1>1, <3>1, <3>2 DEF Reopens
  <2>3. state \in {"loading", "failed"} /\ (Loads(t) \/ Waits(t)) /\ joined' = joined
    BY <2>1, <2>2 DEF Shape, OneLoader, LeaveFailed, InterruptWait, FailLoad, Loads, Waits
  <2>4. LastOfCohort(t)
    BY <2>2 DEF LeaveFailed, InterruptWait, FailLoad, LeaveCohort
  <2>5. caller[t] = "outside"
    BY <2>1, <2>2 DEF Shape, TypeOK, Nesting, LeaveFailed, InterruptWait, FailLoad
  <2>6. pc'[t] = "idle" /\ (Waits(u)' /\ u # t => Waits(u))
    BY <2>1, <2>2, <2>5 DEF Shape, TypeOK, LeaveFailed, InterruptWait, FailLoad, LeaveCohort,
       NotifyAll, Outer, Waits
  <2>7. u # t /\ Waits(u)
    BY <1>1, <2>6 DEF Waits
  <2> QED  BY <2>1, <2>3, <2>4, <2>7, LastLeavesNobody
<1>2. Inv /\ [Next]_vars =>
        [Reopens => \A t \in Threads : Waits(t)' => joined'[t] # generation]_vars
  BY <1>1
<1> QED  BY <1>2, InvariantHolds, PTL DEF Spec, RetryAwaitsCohort

---------------------------------------------------------------------------
(***************************************************************************)
(* Sharing is safe for any number of builds, contents, chunks and failures.*)
(* A build knows of the file at hand that its content and parse are there, *)
(* and that each chunk it has passed has a vector or is missing, and of    *)
(* the files before it that they are complete (Working).  Others do not    *)
(* take that away: they only add to what is committed, and what a build    *)
(* has linked is not collected.                                            *)
(***************************************************************************)

OnFile == {"parse", "store", "chunks", "embed", "embed_done", "save", "insert"}
OnChunks == {"chunks", "embed", "embed_done", "save", "insert"}

(* The chunks are looked for, or the missing ones are being saved. *)
LooksUp(t) == t.step = "chunks" \/ (t.step \in {"save", "insert"} /\ t.after = "chunks")
Saves(t) == t.step = "embed_done" \/ (t.step \in {"save", "insert"} /\ t.after = "embed_done")
Looking(b) == LooksUp(tx[b])
Saving(b) == Saves(tx[b])

Complete(b, c) ==
    /\ HasContent(b, c)
    /\ ChunksOf[c] # <<>> => HasParse(b, c)
    /\ \A i \in DOMAIN ChunksOf[c] : Vector(b, <<c, i>>) # NoVector

Got(b, i) ==
    \/ Vector(b, <<Content(b), i>>) # NoVector
    \/ <<Content(b), i>> \in tx[b].missing

(* A build is at one of its files. *)
Placed(b) ==
    /\ tx[b].file \in DOMAIN Files[b] \cup {1}
    /\ tx[b].step \in OnFile \cup {"upsert", "link"} => tx[b].file \in DOMAIN Files[b]
    /\ tx[b].step \in OnFile => Content(b) \in tx[b].linked
    /\ tx[b].step \in {"failed", "committed"} => tx[b].linked = {}
    /\ tx[b].step \in {"upsert", "link", "parse", "store"} => tx[b].chunk = 1
    /\ tx[b].missing # {} => tx[b].step \in OnChunks
    /\ \A k \in tx[b].missing : k[1] = Content(b)
    /\ tx[b].step \in {"save", "insert"} => tx[b].chunk \in DOMAIN ChunksOf[Content(b)]

(* What it has of that file, and of those before. *)
Working(b) ==
    /\ tx[b].step \in OnFile => HasContent(b, Content(b))
    /\ tx[b].step \in OnChunks => HasParse(b, Content(b))
    /\ \A i \in DOMAIN ChunksOf[Content(b)] :
         /\ Looking(b) /\ i < tx[b].chunk => Got(b, i)
         /\ Saving(b) /\ (tx[b].step = "embed_done" \/ i # tx[b].chunk) => Got(b, i)
         /\ tx[b].step = "embed" => Got(b, i)
    /\ \A c \in tx[b].linked : (tx[b].step \in OnFile /\ c = Content(b)) \/ Complete(b, c)

(* A vector at hand is one of its text. *)
Genuine(b) ==
    /\ \A k \in Chunks : tx[b].vectors[k] # NoVector => tx[b].vectors[k] \in Vectors[Hash(k)]
    /\ Saving(b) => \A k \in tx[b].missing : tx[b].answer[Hash(k)] \in Vectors[Hash(k)]
    /\ tx[b].step \in {"save", "insert"} => Given(b) \in Vectors[Hash(Chunk(b))]

---------------------------------------------------------------------------
(* Chunks are the places of contents, and each has a text.                 *)
LEMMA ChunkFacts ==
    ASSUME ReuseAssumption
    PROVE  /\ \A c \in Contents : /\ ChunksOf[c] \in Seq(Hashes)
                                  /\ DOMAIN ChunksOf[c] = 1..Len(ChunksOf[c])
                                  /\ Len(ChunksOf[c]) \in Nat
           /\ \A c \in Contents : \A i \in DOMAIN ChunksOf[c] : <<c, i>> \in Chunks
           /\ \A k \in Chunks : /\ k[1] \in Contents /\ k[2] \in DOMAIN ChunksOf[k[1]]
                                /\ k = <<k[1], k[2]>> /\ k[2] \in Nat \ {0} /\ Hash(k) \in Hashes
           /\ \A b \in Builds : Files[b] \in Seq(Contents) /\ Len(Files[b]) \in Nat
           /\ NoVector \in Stored /\ \A h \in Hashes : Vectors[h] \subseteq Stored \ {NoVector}
<1>1. \A c \in Contents : /\ ChunksOf[c] \in Seq(Hashes)
                          /\ DOMAIN ChunksOf[c] = 1..Len(ChunksOf[c])
                          /\ Len(ChunksOf[c]) \in Nat
  BY DEF ReuseAssumption
<1>2. \A c \in Contents : \A i \in DOMAIN ChunksOf[c] : <<c, i>> \in Chunks
  BY DEF Chunks
<1>3. ASSUME NEW k \in Chunks
      PROVE  /\ k[1] \in Contents /\ k[2] \in DOMAIN ChunksOf[k[1]]
             /\ k = <<k[1], k[2]>> /\ k[2] \in Nat \ {0} /\ Hash(k) \in Hashes
  <2>1. PICK c \in Contents : \E i \in DOMAIN ChunksOf[c] : k = <<c, i>>
    BY DEF Chunks
  <2> QED  BY <1>1, <2>1 DEF Hash
<1>4. \A b \in Builds : Files[b] \in Seq(Contents) /\ Len(Files[b]) \in Nat
  BY DEF ReuseAssumption
<1>5. NoVector \in Stored /\ \A h \in Hashes : Vectors[h] \subseteq Stored \ {NoVector}
  BY DEF ReuseAssumption, Stored
<1> QED  BY <1>1, <1>2, <1>3, <1>4, <1>5

(* A step of a build changes its own transaction.                          *)
LEMMA ChangeOfOne ==
    ASSUME ReuseTypeOK, NEW b \in Builds, NEW t, Change(b, t)
    PROVE  tx'[b] = t /\ \A o \in Builds \ {b} : tx'[o] = tx[o]
BY DEF ReuseTypeOK, Change

LEMMA ChangeIsTyped ==
    ASSUME ReuseTypeOK, NEW b \in Builds, NEW t \in Transactions, Change(b, t)
    PROVE  tx' \in [Builds -> Transactions]
BY DEF ReuseTypeOK, Change

LEMMA BegunIsTyped ==
    ASSUME ReuseAssumption, NEW b \in Builds
    PROVE  /\ Begun(b) \in Transactions
           /\ \A s \in Steps : [Begun(b) EXCEPT !.step = s] \in Transactions
           /\ \A s \in Steps, w \in Reasons :
                [Begun(b) EXCEPT !.step = s, !.why = w] \in Transactions
<1>1. None \in [Chunks -> Stored] /\ [h \in Hashes |-> NoVector] \in [Hashes -> Stored]
  BY ChunkFacts DEF None
<1>2. Begun(b) \in Transactions
  BY <1>1 DEF Begun, Transactions, Steps, Reasons
<1> QED  BY <1>2 DEF Transactions

(* What a build has does not vanish, as far as it has linked it.           *)
Grown(b) ==
    /\ \A c \in tx[b].linked : /\ HasContent(b, c) => HasContent(b, c)'
                               /\ HasParse(b, c) => HasParse(b, c)'
    /\ \A k \in Chunks :
         k[1] \in tx[b].linked /\ Vector(b, k) # NoVector => Vector(b, k)' # NoVector

LEMMA CompleteStays ==
    ASSUME ReuseAssumption, ReuseTypeOK, NEW b \in Builds, Grown(b), NEW c \in tx[b].linked,
           Complete(b, c)
    PROVE  Complete(b, c)'
<1>1. c \in Contents
  BY DEF ReuseTypeOK, Transactions
<1>2. \A i \in DOMAIN ChunksOf[c] : Vector(b, <<c, i>>)' # NoVector
  BY <1>1, ChunkFacts DEF Grown, Complete
<1> QED  BY <1>2 DEF Grown, Complete

(* So what a build knows stays true while others take their steps.         *)
LEMMA OthersKeepWorking ==
    ASSUME ReuseAssumption, ReuseTypeOK, NEW b \in Builds, tx'[b] = tx[b], Grown(b),
           Placed(b), Working(b), Genuine(b)
    PROVE  Placed(b)' /\ Working(b)' /\ Genuine(b)'
<1>1. Content(b)' = Content(b) /\ Chunk(b)' = Chunk(b) /\ (Looking(b)' <=> Looking(b))
      /\ (Saving(b)' <=> Saving(b)) /\ Given(b)' = Given(b)
  BY DEF Content, Chunk, Looking, Saving, LooksUp, Saves, Given
<1>2. Placed(b)' /\ Genuine(b)'
  BY <1>1 DEF Placed, Genuine
<1>3. \A c \in tx[b].linked : Complete(b, c) => Complete(b, c)'
  BY CompleteStays
<1>4. ASSUME tx[b].step \in OnFile
      PROVE  /\ Content(b) \in tx[b].linked
             /\ HasContent(b, Content(b)) => HasContent(b, Content(b))'
             /\ HasParse(b, Content(b)) => HasParse(b, Content(b))'
             /\ \A i \in DOMAIN ChunksOf[Content(b)] : Got(b, i) => Got(b, i)'
  <2>1. Content(b) \in tx[b].linked /\ Content(b) \in Contents
    BY <1>4 DEF Placed, ReuseTypeOK, Transactions
  <2>2. \A i \in DOMAIN ChunksOf[Content(b)] : <<Content(b), i>> \in Chunks
    BY <2>1, ChunkFacts
  <2>3. \A i \in DOMAIN ChunksOf[Content(b)] : Got(b, i) => Got(b, i)'
    BY <1>1, <2>1, <2>2 DEF Got, Grown
  <2> QED  BY <1>1, <2>1, <2>3 DEF Grown
<1>5. \A c \in tx[b].linked : (tx[b].step \in OnFile /\ c = Content(b))' \/ Complete(b, c)'
  BY <1>1, <1>3 DEF Working
<1>6. (tx[b].step \in OnFile => HasContent(b, Content(b)))'
      /\ (tx[b].step \in OnChunks => HasParse(b, Content(b)))'
  BY <1>1, <1>4 DEF Working, OnFile, OnChunks, HasContent, HasParse
<1>7. tx[b].step \notin OnFile => ~Looking(b) /\ ~Saving(b) /\ tx[b].step # "embed"
  BY DEF OnFile, Looking, Saving, LooksUp, Saves
<1>8. ASSUME NEW i \in DOMAIN ChunksOf[Content(b)]
      PROVE  /\ Looking(b) /\ i < tx[b].chunk => Got(b, i)'
             /\ Saving(b) /\ (tx[b].step = "embed_done" \/ i # tx[b].chunk) => Got(b, i)'
             /\ tx[b].step = "embed" => Got(b, i)'
  BY <1>4, <1>7, <1>8 DEF Working
<1>9. Working(b)'
  BY <1>1, <1>5, <1>6, <1>8 DEF Working
<1> QED  BY <1>2, <1>9

---------------------------------------------------------------------------
(* The steps of a build.                                                   *)
Sound(b) == Placed(b) /\ Working(b) /\ Genuine(b)

LEMMA FailIsSound ==
    ASSUME ReuseAssumption, ReuseTypeOK, NEW b \in Builds, NEW why \in Reasons, Fail(b, why)
    PROVE  tx' \in [Builds -> Transactions] /\ Sound(b)'
<1> DEFINE t == [Begun(b) EXCEPT !.step = "failed", !.why = why]
<1>1. t \in Transactions /\ Begun(b) \in Transactions
  BY BegunIsTyped DEF Steps
<1>2. tx' \in [Builds -> Transactions] /\ tx'[b] = t
  BY <1>1, ChangeOfOne, ChangeIsTyped DEF Fail
<1>3. t.step = "failed" /\ t.linked = {} /\ t.missing = {} /\ t.vectors = None /\ t.file = 1
  BY <1>1 DEF Begun, Transactions
<1>4. Placed(b)'
  BY <1>2, <1>3 DEF Placed, OnFile, OnChunks
<1>5. Working(b)'
  BY <1>2, <1>3 DEF Working, OnFile, OnChunks, Looking, Saving, LooksUp, Saves
<1>6. Genuine(b)'
  BY <1>2, <1>3 DEF Genuine, None, Saving, Saves
<1> QED  BY <1>2, <1>4, <1>5, <1>6 DEF Sound

LEMMA PlaceIsTyped ==
    ASSUME NEW t \in Transactions, NEW s \in Steps, NEW f \in Nat \ {0}, NEW i \in Nat \ {0}
    PROVE  [t EXCEPT !.step = s, !.file = f, !.chunk = i] \in Transactions
BY DEF Transactions

(* The file at hand is complete.                                           *)
LEMMA NextFileIsSound ==
    ASSUME ReuseAssumption, ReuseTypeOK, NEW b \in Builds, NEW t \in Transactions,
           t.file \in DOMAIN Files[b], t.missing = {},
           t.contents = tx[b].contents, t.parses = tx[b].parses, t.vectors = tx[b].vectors,
           \A c \in t.linked : Complete(b, c), Genuine(b),
           Change(b, NextFile(t, b)), UNCHANGED committed
    PROVE  tx' \in [Builds -> Transactions] /\ Sound(b)'
<1> DEFINE n == NextFile(t, b)
<1>1. Len(Files[b]) \in Nat /\ DOMAIN Files[b] = 1..Len(Files[b])
  BY ChunkFacts
<1>2. /\ n \in Transactions
      /\ n.step \in {"ready", "upsert"} /\ n.file \in DOMAIN Files[b]
      /\ n.linked = t.linked /\ n.missing = {} /\ n.contents = tx[b].contents
      /\ n.parses = tx[b].parses /\ n.vectors = tx[b].vectors /\ n.chunk = 1
  <2>1. n.step \in {"ready", "upsert"} /\ n.file \in Nat \ {0}
        /\ n.file \in DOMAIN Files[b]
    BY <1>1 DEF NextFile, Transactions
  <2>2. n.linked = t.linked /\ n.missing = {} /\ n.chunk = 1 /\ n.contents = tx[b].contents
        /\ n.parses = tx[b].parses /\ n.vectors = tx[b].vectors
    BY DEF NextFile, Transactions
  <2>3. t.file \in Nat \ {0} /\ t.file + 1 \in Nat \ {0} /\ 1 \in Nat \ {0}
        /\ "ready" \in Steps /\ "upsert" \in Steps
    BY DEF Transactions, Steps
  <2>4. n \in Transactions
    <3>1. [t EXCEPT !.step = "ready", !.file = t.file, !.chunk = 1] \in Transactions
      BY <2>3, PlaceIsTyped
    <3>2. [t EXCEPT !.step = "upsert", !.file = t.file + 1, !.chunk = 1] \in Transactions
      BY <2>3, PlaceIsTyped
    <3> QED  BY <3>1, <3>2 DEF NextFile
  <2> QED  BY <2>1, <2>2, <2>4
<1>3. tx' \in [Builds -> Transactions] /\ tx'[b] = n
  BY <1>2, ChangeOfOne, ChangeIsTyped
<1> HIDE DEF n
<1>4. Placed(b)'
  BY <1>2, <1>3 DEF Placed, OnFile, OnChunks
<1>5. \A c \in t.linked : Complete(b, c)'
  BY <1>2, <1>3 DEF Complete, HasContent, HasParse, Vector, committed
<1>6. Working(b)'
  BY <1>2, <1>3, <1>5 DEF Working, OnFile, OnChunks, Looking, Saving, LooksUp, Saves
<1>7. Genuine(b)'
  BY <1>2, <1>3 DEF Genuine, Saving, Saves
<1> QED  BY <1>3, <1>4, <1>6, <1>7 DEF Sound

LEMMA UpsertIsSound ==
    ASSUME ReuseAssumption, ReuseTypeOK, NEW b \in Builds, Sound(b), UpsertContent(b)
    PROVE  tx' \in [Builds -> Transactions] /\ Sound(b)'
<1> DEFINE t == [tx[b] EXCEPT !.step = "link",
                              !.contents = IF HasContent(b, Content(b)) THEN @
                                           ELSE @ \cup {Content(b)}]
<1>1. tx[b] \in Transactions /\ tx[b].step = "upsert" /\ tx[b].file \in DOMAIN Files[b]
  BY DEF ReuseTypeOK, UpsertContent, At, Sound, Placed
<1>2. Content(b) \in Contents
  BY <1>1, ChunkFacts DEF Content
<1>3. /\ t \in Transactions /\ t.step = "link" /\ tx[b].contents \subseteq t.contents
      /\ t.file = tx[b].file /\ t.linked = tx[b].linked /\ t.missing = tx[b].missing
      /\ t.parses = tx[b].parses /\ t.vectors = tx[b].vectors /\ t.chunk = tx[b].chunk
  BY <1>1, <1>2 DEF Transactions, Steps
<1>4. tx' \in [Builds -> Transactions] /\ tx'[b] = t
  BY <1>3, ChangeOfOne, ChangeIsTyped DEF UpsertContent
<1> HIDE DEF t
<1>5. UNCHANGED committed
  BY DEF UpsertContent
<1>6. Placed(b)'
  BY <1>1, <1>3, <1>4 DEF Sound, Placed, OnFile, OnChunks, Content
<1>7. \A c \in tx[b].linked : Complete(b, c)
  BY <1>1 DEF Sound, Working, OnFile
<1>8. \A c \in tx[b].linked : Complete(b, c)'
  BY <1>3, <1>4, <1>5, <1>7 DEF Complete, HasContent, HasParse, Vector, committed
<1>9. Working(b)'
  BY <1>3, <1>4, <1>8 DEF Working, OnFile, OnChunks, Looking, Saving, LooksUp, Saves
<1>10. Genuine(b)'
  BY <1>3, <1>4 DEF Sound, Genuine, Saving, Saves
<1> QED  BY <1>4, <1>6, <1>9, <1>10 DEF Sound

LEMMA LinkIsSound ==
    ASSUME ReuseAssumption, ReuseTypeOK, NEW b \in Builds, Sound(b), Link(b)
    PROVE  tx' \in [Builds -> Transactions] /\ Sound(b)'
<1> DEFINE t == [tx[b] EXCEPT !.linked = @ \cup {Content(b)}]
<1>1. tx[b] \in Transactions /\ tx[b].step = "link" /\ tx[b].file \in DOMAIN Files[b]
  BY DEF ReuseTypeOK, Link, At, Sound, Placed
<1>2. Content(b) \in Contents
  BY <1>1, ChunkFacts DEF Content
<1>3. UNCHANGED committed
  BY DEF Link
<1>4. CASE ~HasContent(b, Content(b))
  BY <1>4, FailIsSound DEF Link, Reasons
<1>5. /\ t \in Transactions /\ t.step = "link" /\ t.contents = tx[b].contents
      /\ t.file = tx[b].file /\ t.linked = tx[b].linked \cup {Content(b)}
      /\ t.missing = tx[b].missing /\ t.parses = tx[b].parses /\ t.vectors = tx[b].vectors
      /\ t.chunk = tx[b].chunk
  BY <1>1, <1>2 DEF Transactions, Steps
<1>6. tx[b].missing = {} /\ \A c \in tx[b].linked : Complete(b, c)
  BY <1>1 DEF Sound, Placed, Working, OnFile, OnChunks
<1>7. CASE HasContent(b, Content(b)) /\ ChunksOf[Content(b)] = <<>>
  <2>1. Complete(b, Content(b))
    BY <1>7 DEF Complete
  <2>2. Change(b, NextFile(t, b))
    BY <1>7 DEF Link
  <2>3. \A c \in t.linked : Complete(b, c)
    BY <1>5, <1>6, <2>1
  <2> HIDE DEF t
  <2> QED  BY <1>1, <1>3, <1>5, <1>6, <2>2, <2>3, NextFileIsSound DEF Sound
<1>8. CASE HasContent(b, Content(b)) /\ ChunksOf[Content(b)] # <<>>
  <2> DEFINE u == [t EXCEPT !.step = "parse"]
  <2>1. Change(b, u)
    BY <1>8 DEF Link
  <2>2. /\ u \in Transactions /\ u.step = "parse" /\ u.contents = tx[b].contents
        /\ u.file = tx[b].file /\ u.linked = tx[b].linked \cup {Content(b)}
        /\ u.missing = {} /\ u.parses = tx[b].parses /\ u.vectors = tx[b].vectors
        /\ u.chunk = tx[b].chunk
    BY <1>1, <1>5, <1>6 DEF Transactions, Steps
  <2>3. tx' \in [Builds -> Transactions] /\ tx'[b] = u
    BY <2>1, <2>2, ChangeOfOne, ChangeIsTyped
  <2> HIDE DEF u
  <2>4. Content(b)' = Content(b)
    BY <2>2, <2>3 DEF Content
  <2>5. Placed(b)'
    BY <1>1, <2>2, <2>3, <2>4 DEF Sound, Placed, OnFile, OnChunks
  <2>6. \A c \in tx[b].linked : Complete(b, c)'
    BY <1>3, <1>6, <2>2, <2>3 DEF Complete, HasContent, HasParse, Vector, committed
  <2>7. HasContent(b, Content(b))'
    BY <1>3, <1>8, <2>2, <2>3, <2>4 DEF HasContent, committed
  <2>8. Working(b)'
    BY <2>2, <2>3, <2>4, <2>6, <2>7 DEF Working, OnFile, OnChunks, Looking, Saving, LooksUp, Saves
  <2>9. Genuine(b)'
    BY <2>2, <2>3 DEF Sound, Genuine, Saving, Saves
  <2> QED  BY <2>3, <2>5, <2>8, <2>9 DEF Sound
<1> QED  BY <1>4, <1>7, <1>8

(* A step that stays at its file only adds to what it has.                 *)
LEMMA StaysOnFile ==
    ASSUME ReuseAssumption, ReuseTypeOK, NEW b \in Builds, Sound(b), tx[b].step \in OnFile,
           NEW t \in Transactions, Change(b, t), UNCHANGED committed,
           t.file = tx[b].file, t.linked = tx[b].linked, t.contents = tx[b].contents,
           tx[b].parses \subseteq t.parses,
           \A k \in Chunks : tx[b].vectors[k] # NoVector => t.vectors[k] = tx[b].vectors[k]
    PROVE  /\ tx' \in [Builds -> Transactions] /\ tx'[b] = t
           /\ Content(b)' = Content(b) /\ HasContent(b, Content(b))'
           /\ HasParse(b, Content(b)) => HasParse(b, Content(b))'
           /\ \A i \in DOMAIN ChunksOf[Content(b)] :
                /\ <<Content(b), i>> \in Chunks
                /\ Vector(b, <<Content(b), i>>) # NoVector => Vector(b, <<Content(b), i>>)' # NoVector
           /\ \A c \in t.linked : c = Content(b) \/ Complete(b, c)'
           /\ Content(b) \in t.linked /\ Content(b) \in Contents /\ t.file \in DOMAIN Files[b]
<1>1. tx' \in [Builds -> Transactions] /\ tx'[b] = t
  BY ChangeOfOne, ChangeIsTyped
<1>2. Content(b)' = Content(b) /\ Content(b) \in t.linked /\ Content(b) \in Contents
      /\ t.file \in DOMAIN Files[b]
  BY <1>1 DEF Content, Sound, Placed, Transactions
<1>3. \A k \in Chunks : Vector(b, k) # NoVector => Vector(b, k)' # NoVector
  BY <1>1 DEF Vector, committed
<1>4. Grown(b)
  BY <1>1, <1>3 DEF Grown, HasContent, HasParse, committed
<1>5. \A c \in tx[b].linked : Complete(b, c) => Complete(b, c)'
  BY <1>4, CompleteStays
<1>6. \A c \in t.linked : c = Content(b) \/ Complete(b, c)'
  BY <1>5 DEF Sound, Working
<1>7. HasContent(b, Content(b))' /\ (HasParse(b, Content(b)) => HasParse(b, Content(b))')
  BY <1>1, <1>2 DEF Sound, Working, HasContent, HasParse, committed
<1>8. \A i \in DOMAIN ChunksOf[Content(b)] : <<Content(b), i>> \in Chunks
  BY <1>2, ChunkFacts
<1>9. \A i \in DOMAIN ChunksOf[Content(b)] :
        Vector(b, <<Content(b), i>>) # NoVector => Vector(b, <<Content(b), i>>)' # NoVector
  BY <1>2, <1>3, <1>8
<1> QED  BY <1>1, <1>2, <1>6, <1>7, <1>8, <1>9

(* From there to the first chunk, or to the storing of the parse.          *)
LEMMA ParseIsSound ==
    ASSUME ReuseAssumption, ReuseTypeOK, NEW b \in Builds, Sound(b), FindParse(b) \/ SaveParse(b)
    PROVE  tx' \in [Builds -> Transactions] /\ Sound(b)'
<1>1. tx[b] \in Transactions /\ tx[b].step \in {"parse", "store"} /\ tx[b].chunk = 1
      /\ tx[b].missing = {} /\ Content(b) \in Contents /\ UNCHANGED committed
  <2>1. tx[b] \in Transactions /\ tx[b].step \in {"parse", "store"} /\ UNCHANGED committed
    BY DEF ReuseTypeOK, FindParse, SaveParse, At
  <2>2. tx[b].chunk = 1 /\ tx[b].missing = {} /\ Content(b) \in tx[b].linked
    BY <2>1 DEF Sound, Placed, OnFile, OnChunks
  <2> QED  BY <2>1, <2>2 DEF Transactions
<1>2. ASSUME NEW t \in Transactions, Change(b, t), t.step \in {"chunks", "store"},
             t.file = tx[b].file, t.linked = tx[b].linked, t.contents = tx[b].contents,
             tx[b].parses \subseteq t.parses, t.vectors = tx[b].vectors, t.chunk = 1,
             t.missing = {},
             t.step = "chunks" => HasParse(b, Content(b)) \/ Content(b) \in t.parses
      PROVE  tx' \in [Builds -> Transactions] /\ Sound(b)'
    <2>1. /\ tx' \in [Builds -> Transactions] /\ tx'[b] = t
          /\ Content(b)' = Content(b) /\ HasContent(b, Content(b))'
          /\ HasParse(b, Content(b)) => HasParse(b, Content(b))'
          /\ \A c \in t.linked : c = Content(b) \/ Complete(b, c)'
          /\ Content(b) \in t.linked /\ Content(b) \in Contents /\ t.file \in DOMAIN Files[b]
      BY <1>1, <1>2, StaysOnFile DEF OnFile
    <2>2. Placed(b)'
      BY <1>2, <2>1 DEF Placed, OnFile, OnChunks
    <2>3. t.step = "chunks" => HasParse(b, Content(b))'
      BY <1>2, <2>1 DEF HasParse
    <2>4. \A i \in DOMAIN ChunksOf[Content(b)] : ~(i < 1)
      BY <2>1, ChunkFacts
    <2>5. Working(b)'
      BY <1>2, <2>1, <2>3, <2>4 DEF Working, OnFile, OnChunks, Looking, Saving, LooksUp, Saves
    <2>6. Genuine(b)'
      BY <1>2, <2>1 DEF Sound, Genuine, Saving, Saves
    <2> QED  BY <2>1, <2>2, <2>5, <2>6 DEF Sound
<1>3. CASE FindParse(b)
  <2>1. CASE Fail(b, "parse_failure")
    BY <2>1, FailIsSound DEF Reasons
  <2>2. CASE Go(b, IF HasParse(b, Content(b)) THEN "chunks" ELSE "store")
    <3> DEFINE t == [tx[b] EXCEPT !.step = IF HasParse(b, Content(b)) THEN "chunks" ELSE "store"]
    <3>1. t \in Transactions
      BY <1>1 DEF Transactions, Steps
    <3>2. /\ t.step \in {"chunks", "store"} /\ t.file = tx[b].file /\ t.linked = tx[b].linked
          /\ t.contents = tx[b].contents /\ tx[b].parses \subseteq t.parses
          /\ t.vectors = tx[b].vectors /\ t.chunk = 1 /\ t.missing = {}
          /\ t.step = "chunks" => HasParse(b, Content(b))
      BY <1>1 DEF Transactions
    <3>3. Change(b, t)
      BY <2>2 DEF Go
    <3> HIDE DEF t
    <3> QED  BY <1>2, <3>1, <3>2, <3>3
  <2> QED  BY <1>3, <2>1, <2>2 DEF FindParse
<1>4. CASE SaveParse(b)
  <2> DEFINE t == [tx[b] EXCEPT !.step = "chunks",
                                !.parses = IF HasParse(b, Content(b)) THEN @
                                           ELSE @ \cup {Content(b)}]
  <2>1. t \in Transactions
    BY <1>1 DEF Transactions, Steps
  <2>2. /\ t.step \in {"chunks", "store"} /\ t.file = tx[b].file /\ t.linked = tx[b].linked
        /\ t.contents = tx[b].contents /\ tx[b].parses \subseteq t.parses
        /\ t.vectors = tx[b].vectors /\ t.chunk = 1 /\ t.missing = {}
        /\ HasParse(b, Content(b)) \/ Content(b) \in t.parses
    BY <1>1 DEF Transactions
  <2>3. Change(b, t)
    BY <1>4 DEF SaveParse
  <2> HIDE DEF t
  <2> QED  BY <1>2, <2>1, <2>2, <2>3
<1> QED  BY <1>3, <1>4

---------------------------------------------------------------------------
(* The steps from chunk to chunk.  A chunk that a build has no vector for  *)
(* is missing, is still ahead, or is the one at hand.                      *)
Ahead(t, i) ==
    \/ LooksUp(t) /\ ~(i < t.chunk)
    \/ t.step \in {"save", "insert"} /\ t.after = "embed_done" /\ i = t.chunk

LEMMA PassedAreGot ==
    ASSUME ReuseAssumption, ReuseTypeOK, NEW b \in Builds, Sound(b), tx[b].step \in OnChunks,
           NEW i \in DOMAIN ChunksOf[Content(b)]
    PROVE  Got(b, i) \/ Ahead(tx[b], i)
<1>1. tx[b].after \in {"chunks", "embed_done"}
  BY DEF ReuseTypeOK, Transactions
<1> QED  BY <1>1 DEF Sound, Working, Ahead, LooksUp, Saves, Looking, Saving, OnChunks

LEMMA ChunkStepIsSound ==
    ASSUME ReuseAssumption, ReuseTypeOK, NEW b \in Builds, Sound(b), tx[b].step \in OnChunks,
           NEW t \in Transactions, Change(b, t), UNCHANGED committed, t.step \in OnChunks,
           t.file = tx[b].file, t.linked = tx[b].linked, t.contents = tx[b].contents,
           t.parses = tx[b].parses,
           \A k \in Chunks : tx[b].vectors[k] # NoVector => t.vectors[k] = tx[b].vectors[k],
           \A k \in t.missing : k[1] = Content(b),
           \A i \in DOMAIN ChunksOf[Content(b)] :
              \/ Vector(b, <<Content(b), i>>) # NoVector
              \/ t.vectors[<<Content(b), i>>] # NoVector
              \/ <<Content(b), i>> \in t.missing
              \/ Ahead(t, i),
           \A k \in Chunks : t.vectors[k] # NoVector => t.vectors[k] \in Vectors[Hash(k)],
           Saves(t) => \A k \in t.missing : t.answer[Hash(k)] \in Vectors[Hash(k)],
           t.step \in {"save", "insert"} =>
              /\ t.chunk \in DOMAIN ChunksOf[Content(b)]
              /\ t.answer[Hash(<<Content(b), t.chunk>>)] \in Vectors[Hash(<<Content(b), t.chunk>>)]
    PROVE  tx' \in [Builds -> Transactions] /\ Sound(b)'
<1>1. tx[b].step \in OnFile
  BY DEF OnFile, OnChunks
<1>2. /\ tx' \in [Builds -> Transactions] /\ tx'[b] = t
      /\ Content(b)' = Content(b) /\ HasContent(b, Content(b))'
      /\ HasParse(b, Content(b)) => HasParse(b, Content(b))'
      /\ \A i \in DOMAIN ChunksOf[Content(b)] :
           /\ <<Content(b), i>> \in Chunks
           /\ Vector(b, <<Content(b), i>>) # NoVector => Vector(b, <<Content(b), i>>)' # NoVector
      /\ \A c \in t.linked : c = Content(b) \/ Complete(b, c)'
      /\ Content(b) \in t.linked /\ Content(b) \in Contents /\ t.file \in DOMAIN Files[b]
  BY <1>1, StaysOnFile
<1>3. Placed(b)'
  BY <1>2 DEF Placed, OnFile, OnChunks
<1>4. HasParse(b, Content(b))'
  BY <1>2 DEF Sound, Working
<1>5. ASSUME NEW i \in DOMAIN ChunksOf[Content(b)]
      PROVE  Got(b, i)' \/ Ahead(t, i)
  BY <1>2, <1>5 DEF Got, Vector
<1>6. Working(b)'
  BY <1>2, <1>4, <1>5 DEF Working, Ahead, LooksUp, Saves, Looking, Saving, OnFile, OnChunks
<1>7. Genuine(b)'
  BY <1>2 DEF Genuine, Saving, Given, Chunk
<1> QED  BY <1>2, <1>3, <1>6, <1>7 DEF Sound

(* What can be reused was given for the text.                              *)
LEMMA ReusableIsGenuine ==
    ASSUME VectorsAreOfTheirText, NEW b \in Builds, Genuine(b)
    PROVE  /\ \A k \in Chunks : Vector(b, k) # NoVector => Vector(b, k) \in Vectors[Hash(k)]
           /\ \A h : Reusable(b, h) \subseteq Vectors[h]
<1>1. \A k \in Chunks : Vector(b, k) # NoVector => Vector(b, k) \in Vectors[Hash(k)]
  BY DEF VectorsAreOfTheirText, Genuine, Vector
<1> QED  BY <1>1 DEF Reusable

LEMMA FindVectorIsSound ==
    ASSUME ReuseAssumption, ReuseTypeOK, VectorsAreOfTheirText, NEW b \in Builds, Sound(b),
           FindVector(b)
    PROVE  tx' \in [Builds -> Transactions] /\ Sound(b)'
<1> DEFINE t == tx[b]
           k == Chunk(b)
           next == [t EXCEPT !.chunk = @ + 1]
           more == [next EXCEPT !.missing = @ \cup {k}]
           reusable == Reusable(b, Hash(k))
           use(v) == [t EXCEPT !.step = "save", !.after = "chunks", !.answer[Hash(k)] = v]
<1>1. t \in Transactions /\ t.step = "chunks" /\ t.chunk <= Len(ChunksOf[Content(b)])
      /\ UNCHANGED committed
  BY DEF ReuseTypeOK, FindVector, At
<1>2. Content(b) \in Contents /\ t.step \in OnChunks
  BY <1>1 DEF Sound, Placed, OnFile, OnChunks, Transactions
<1>3. k \in Chunks /\ k = <<Content(b), t.chunk>> /\ Hash(k) \in Hashes /\ t.chunk \in Nat \ {0}
      /\ t.chunk \in DOMAIN ChunksOf[Content(b)]
  <2>1. t.chunk \in Nat \ {0}
    BY <1>1 DEF Transactions
  <2>2. t.chunk \in DOMAIN ChunksOf[Content(b)]
    BY <1>1, <1>2, <2>1, ChunkFacts
  <2> QED  BY <1>2, <2>1, <2>2, ChunkFacts DEF Chunk
<1>4. \A i \in DOMAIN ChunksOf[Content(b)] :
        \/ Vector(b, <<Content(b), i>>) # NoVector
        \/ <<Content(b), i>> \in t.missing
        \/ i \in Nat /\ ~(i < t.chunk)
  <2>1. \A i \in DOMAIN ChunksOf[Content(b)] : i \in Nat
    BY <1>2, ChunkFacts
  <2> QED  BY <1>1, <1>2, <2>1, PassedAreGot DEF Got, Ahead, LooksUp
<1>5. \A l \in Chunks : t.vectors[l] # NoVector => t.vectors[l] \in Vectors[Hash(l)]
  BY DEF Sound, Genuine
<1>6. \A l \in t.missing : l[1] = Content(b)
  BY DEF Sound, Placed
<1>7. next \in Transactions /\ next.step = "chunks" /\ next.chunk = t.chunk + 1
      /\ next.file = t.file /\ next.linked = t.linked /\ next.contents = t.contents
      /\ next.parses = t.parses /\ next.vectors = t.vectors /\ next.missing = t.missing
  BY <1>1, <1>3 DEF Transactions
<1>8. CASE Vector(b, k) # NoVector
  <2>1. Change(b, next)
    BY <1>8 DEF FindVector
  <2>2. \A i \in DOMAIN ChunksOf[Content(b)] :
          \/ Vector(b, <<Content(b), i>>) # NoVector
          \/ <<Content(b), i>> \in next.missing
          \/ Ahead(next, i)
    BY <1>3, <1>4, <1>7, <1>8 DEF Ahead, LooksUp
  <2> HIDE DEF next
  <2> QED  BY <1>1, <1>2, <1>5, <1>6, <1>7, <2>1, <2>2, ChunkStepIsSound DEF OnChunks, Saves
<1>9. CASE Vector(b, k) = NoVector /\ reusable = {}
  <2>1. Change(b, more)
    BY <1>9 DEF FindVector
  <2>2. more \in Transactions /\ more.step = "chunks" /\ more.chunk = t.chunk + 1
        /\ more.file = t.file /\ more.linked = t.linked /\ more.contents = t.contents
        /\ more.parses = t.parses /\ more.vectors = t.vectors /\ more.missing = t.missing \cup {k}
    BY <1>3, <1>7 DEF Transactions
  <2>3. \A i \in DOMAIN ChunksOf[Content(b)] :
          \/ Vector(b, <<Content(b), i>>) # NoVector
          \/ <<Content(b), i>> \in more.missing
          \/ Ahead(more, i)
    BY <1>3, <1>4, <2>2 DEF Ahead, LooksUp
  <2>4. \A l \in more.missing : l[1] = Content(b)
    BY <1>3, <1>6, <2>2
  <2> HIDE DEF more
  <2> QED  BY <1>1, <1>2, <1>5, <2>1, <2>2, <2>3, <2>4, ChunkStepIsSound DEF OnChunks, Saves
<1>10. CASE Vector(b, k) = NoVector /\ reusable # {}
  <2>1. CASE Fail(b, "conflict")
    BY <2>1, FailIsSound DEF Reasons
  <2>2. ASSUME NEW v \in reusable, Change(b, use(v))
        PROVE  tx' \in [Builds -> Transactions] /\ Sound(b)'
    <3>1. v \in Vectors[Hash(k)] /\ v \in Stored
      BY <1>3, ChunkFacts, ReusableIsGenuine DEF Sound
    <3>2. use(v) \in Transactions /\ use(v).step = "save" /\ use(v).chunk = t.chunk
          /\ use(v).file = t.file /\ use(v).linked = t.linked /\ use(v).contents = t.contents
          /\ use(v).parses = t.parses /\ use(v).vectors = t.vectors
          /\ use(v).missing = t.missing /\ use(v).after = "chunks" /\ use(v).answer[Hash(k)] = v
      BY <1>1, <1>3, <3>1 DEF Transactions, Steps
    <3>3. \A i \in DOMAIN ChunksOf[Content(b)] :
            \/ Vector(b, <<Content(b), i>>) # NoVector
            \/ <<Content(b), i>> \in use(v).missing
            \/ Ahead(use(v), i)
      BY <1>4, <3>2 DEF Ahead, LooksUp
    <3> HIDE DEF use
    <3> QED  BY <1>1, <1>2, <1>3, <1>5, <1>6, <2>2, <3>1, <3>2, <3>3, ChunkStepIsSound
             DEF OnChunks, Saves
  <2>3. Fail(b, "conflict") \/ Change(b, use(CHOOSE v \in reusable : TRUE))
    BY <1>10 DEF FindVector
  <2> QED  BY <1>10, <2>1, <2>2, <2>3
<1> QED  BY <1>8, <1>9, <1>10

(* The last chunk is passed; nothing missing, or the model is asked.       *)
LEMMA AllFoundIsSound ==
    ASSUME ReuseAssumption, ReuseTypeOK, NEW b \in Builds, Sound(b), AllFound(b)
    PROVE  tx' \in [Builds -> Transactions] /\ Sound(b)'
<1>1. tx[b] \in Transactions /\ tx[b].step = "chunks" /\ tx[b].chunk > Len(ChunksOf[Content(b)])
      /\ UNCHANGED committed
  BY DEF ReuseTypeOK, AllFound, At
<1>2. Content(b) \in Contents /\ tx[b].step \in OnChunks /\ tx[b].step \in OnFile
  BY <1>1 DEF Sound, Placed, OnFile, OnChunks, Transactions
<1>3. \A i \in DOMAIN ChunksOf[Content(b)] : Got(b, i)
  <2>1. \A i \in DOMAIN ChunksOf[Content(b)] : i < tx[b].chunk
    BY <1>1, <1>2, ChunkFacts DEF Transactions
  <2> QED  BY <1>1, <1>2, <2>1, PassedAreGot DEF Ahead, LooksUp
<1>4. CASE tx[b].missing = {}
  <2>1. Complete(b, Content(b))
    BY <1>2, <1>3, <1>4 DEF Sound, Working, Complete, Got
  <2>2. \A c \in tx[b].linked : Complete(b, c)
    BY <2>1 DEF Sound, Working
  <2>3. Change(b, NextFile(tx[b], b)) /\ tx[b].file \in DOMAIN Files[b]
    BY <1>2, <1>4 DEF AllFound, Sound, Placed
  <2> QED  BY <1>1, <1>4, <2>2, <2>3, NextFileIsSound DEF Sound
<1>5. CASE tx[b].missing # {}
  <2> DEFINE t == [tx[b] EXCEPT !.step = "embed"]
  <2>1. Change(b, t)
    BY <1>5 DEF AllFound
  <2>2. t \in Transactions /\ t.step = "embed"
        /\ t.file = tx[b].file /\ t.linked = tx[b].linked /\ t.contents = tx[b].contents
        /\ t.parses = tx[b].parses /\ t.vectors = tx[b].vectors /\ t.missing = tx[b].missing
    BY <1>1 DEF Transactions, Steps
  <2> HIDE DEF t
  <2>3. \A k \in t.missing : k[1] = Content(b)
    BY <2>2 DEF Sound, Placed
  <2>4. \A k \in Chunks : t.vectors[k] # NoVector => t.vectors[k] \in Vectors[Hash(k)]
    BY <2>2 DEF Sound, Genuine
  <2>5. \A i \in DOMAIN ChunksOf[Content(b)] :
          Vector(b, <<Content(b), i>>) # NoVector \/ <<Content(b), i>> \in t.missing
    BY <1>3, <2>2 DEF Got
  <2> QED  BY <1>1, <1>2, <2>1, <2>2, <2>3, <2>4, <2>5, ChunkStepIsSound DEF OnChunks, Saves
<1> QED  BY <1>4, <1>5

(* The model gives one vector for each text.                               *)
LEMMA EmbedIsSound ==
    ASSUME ReuseAssumption, ReuseTypeOK, NEW b \in Builds, Sound(b), Embed(b)
    PROVE  tx' \in [Builds -> Transactions] /\ Sound(b)'
<1> DEFINE Texts == {Hash(k) : k \in tx[b].missing}
           t(answer) == [tx[b] EXCEPT !.step = "embed_done",
                                      !.answer = [h \in Hashes |->
                                          IF h \in DOMAIN answer THEN answer[h] ELSE @[h]]]
<1>1. tx[b] \in Transactions /\ tx[b].step = "embed" /\ UNCHANGED committed
  BY DEF ReuseTypeOK, Embed, At
<1>2. Content(b) \in Contents /\ tx[b].step \in OnChunks
  BY <1>1 DEF Sound, Placed, OnFile, OnChunks, Transactions
<1>3. CASE Fail(b, "embedding_failure")
  BY <1>3, FailIsSound DEF Reasons
<1>4. ASSUME NEW answer \in [Texts -> UNION {Vectors[h] : h \in Hashes}],
             \A h \in DOMAIN answer : answer[h] \in Vectors[h], Change(b, t(answer))
      PROVE  tx' \in [Builds -> Transactions] /\ Sound(b)'
  <2> DEFINE given == [h \in Hashes |-> IF h \in DOMAIN answer THEN answer[h] ELSE tx[b].answer[h]]
  <2>1. given \in [Hashes -> Stored]
    BY <1>1 DEF Transactions, Stored
  <2>2. t(answer) = [tx[b] EXCEPT !.step = "embed_done", !.answer = given]
    OBVIOUS
  <2>3. \A k \in tx[b].missing : Hash(k) \in Hashes /\ given[Hash(k)] \in Vectors[Hash(k)]
    <3>1. \A k \in tx[b].missing : Hash(k) \in Hashes /\ Hash(k) \in DOMAIN answer
      BY <1>1, <1>4, ChunkFacts DEF Transactions
    <3> QED  BY <1>4, <3>1
  <2> DEFINE u == t(answer)
  <2> HIDE DEF given
  <2>4. u \in Transactions /\ u.step = "embed_done" /\ u.answer = given
        /\ u.file = tx[b].file /\ u.linked = tx[b].linked /\ u.contents = tx[b].contents
        /\ u.parses = tx[b].parses /\ u.vectors = tx[b].vectors /\ u.missing = tx[b].missing
    BY <1>1, <2>1, <2>2 DEF Transactions, Steps
  <2> HIDE DEF u
  <2>5. Change(b, u)
    BY <1>4 DEF u
  <2>6. \A k \in u.missing : k[1] = Content(b)
    BY <2>4 DEF Sound, Placed
  <2>7. \A k \in Chunks : u.vectors[k] # NoVector => u.vectors[k] \in Vectors[Hash(k)]
    BY <2>4 DEF Sound, Genuine
  <2>8. \A i \in DOMAIN ChunksOf[Content(b)] :
          Vector(b, <<Content(b), i>>) # NoVector \/ <<Content(b), i>> \in u.missing
    BY <1>1, <2>4 DEF Sound, Working, Got
  <2>9. \A k \in u.missing : u.answer[Hash(k)] \in Vectors[Hash(k)]
    BY <2>3, <2>4
  <2> QED  BY <1>1, <1>2, <2>4, <2>5, <2>6, <2>7, <2>8, <2>9, ChunkStepIsSound DEF OnChunks
<1> QED  BY <1>3, <1>4 DEF Embed

LEMMA NextMissingIsSound ==
    ASSUME ReuseAssumption, ReuseTypeOK, NEW b \in Builds, Sound(b), NextMissing(b)
    PROVE  tx' \in [Builds -> Transactions] /\ Sound(b)'
<1>1. tx[b] \in Transactions /\ tx[b].step = "embed_done" /\ UNCHANGED committed
  BY DEF ReuseTypeOK, NextMissing, At
<1>2. Content(b) \in Contents /\ tx[b].step \in OnChunks /\ tx[b].step \in OnFile
  BY <1>1 DEF Sound, Placed, OnFile, OnChunks, Transactions
<1>3. \A i \in DOMAIN ChunksOf[Content(b)] : Got(b, i)
  BY <1>1 DEF Sound, Working, Saving, Saves
<1>4. CASE tx[b].missing = {} /\ Change(b, NextFile(tx[b], b))
  <2>1. Complete(b, Content(b))
    BY <1>2, <1>3, <1>4 DEF Sound, Working, Complete, Got
  <2>2. \A c \in tx[b].linked : Complete(b, c)
    BY <2>1 DEF Sound, Working
  <2>3. tx[b].file \in DOMAIN Files[b]
    BY <1>2 DEF Sound, Placed
  <2> QED  BY <1>1, <1>4, <2>2, <2>3, NextFileIsSound DEF Sound
<1>5. ASSUME NEW k \in tx[b].missing,
             Change(b, [tx[b] EXCEPT !.step = "save", !.after = "embed_done",
                                     !.chunk = k[2], !.missing = @ \ {k}])
      PROVE  tx' \in [Builds -> Transactions] /\ Sound(b)'
  <2> DEFINE t == [tx[b] EXCEPT !.step = "save", !.after = "embed_done",
                                !.chunk = k[2], !.missing = @ \ {k}]
  <2>1. k = <<Content(b), k[2]>> /\ k[2] \in DOMAIN ChunksOf[Content(b)] /\ k[2] \in Nat \ {0}
        /\ Hash(k) \in Hashes /\ tx[b].answer[Hash(k)] \in Vectors[Hash(k)]
    <3>1. k \in Chunks /\ k[1] = Content(b)
      BY <1>1 DEF Transactions, Sound, Placed
    <3>2. tx[b].answer[Hash(k)] \in Vectors[Hash(k)]
      BY <1>1 DEF Sound, Genuine, Saving, Saves
    <3>3. /\ k[2] \in DOMAIN ChunksOf[k[1]] /\ k = <<k[1], k[2]>> /\ k[2] \in Nat \ {0}
          /\ Hash(k) \in Hashes
      BY <3>1, ChunkFacts
    <3> QED  BY <3>1, <3>2, <3>3
  <2>2. t \in Transactions /\ t.step = "save" /\ t.after = "embed_done" /\ t.chunk = k[2]
        /\ t.file = tx[b].file /\ t.linked = tx[b].linked /\ t.contents = tx[b].contents
        /\ t.parses = tx[b].parses /\ t.vectors = tx[b].vectors
        /\ t.missing = tx[b].missing \ {k} /\ t.answer = tx[b].answer
    BY <1>1, <2>1 DEF Transactions, Steps
  <2>3. Change(b, t)
    BY <1>5
  <2> HIDE DEF t
  <2>4. \A l \in t.missing : l[1] = Content(b) /\ t.answer[Hash(l)] \in Vectors[Hash(l)]
    BY <1>1, <2>2 DEF Sound, Placed, Genuine, Saving, Saves
  <2>5. \A l \in Chunks : t.vectors[l] # NoVector => t.vectors[l] \in Vectors[Hash(l)]
    BY <2>2 DEF Sound, Genuine
  <2>6. \A i \in DOMAIN ChunksOf[Content(b)] :
          \/ Vector(b, <<Content(b), i>>) # NoVector
          \/ <<Content(b), i>> \in t.missing
          \/ Ahead(t, i)
    BY <1>3, <2>1, <2>2 DEF Got, Ahead
  <2>7. t.answer[Hash(<<Content(b), t.chunk>>)] \in Vectors[Hash(<<Content(b), t.chunk>>)]
    BY <2>1, <2>2
  <2> QED  BY <1>1, <1>2, <2>1, <2>2, <2>3, <2>4, <2>5, <2>6, <2>7, ChunkStepIsSound DEF OnChunks
<1> QED  BY <1>4, <1>5 DEF NextMissing

(* A vector is there; the build goes back to where it came from.           *)
LEMMA SavedIsSound ==
    ASSUME ReuseAssumption, ReuseTypeOK, NEW b \in Builds, Sound(b), UNCHANGED committed,
           tx[b].step \in {"save", "insert"}, NEW u \in Transactions, Saved(b, u),
           u.file = tx[b].file, u.linked = tx[b].linked, u.contents = tx[b].contents,
           u.parses = tx[b].parses, u.missing = tx[b].missing, u.answer = tx[b].answer,
           u.after = tx[b].after, u.chunk = tx[b].chunk,
           \A k \in Chunks : tx[b].vectors[k] # NoVector => u.vectors[k] = tx[b].vectors[k],
           \A k \in Chunks : u.vectors[k] # NoVector => u.vectors[k] \in Vectors[Hash(k)],
           Vector(b, Chunk(b)) # NoVector \/ u.vectors[Chunk(b)] # NoVector
    PROVE  tx' \in [Builds -> Transactions] /\ Sound(b)'
<1> DEFINE t == [u EXCEPT !.step = u.after, !.chunk = IF u.after = "chunks" THEN @ + 1 ELSE @]
<1>1. tx[b] \in Transactions /\ tx[b].step \in OnChunks /\ tx[b].step \in OnFile
      /\ Content(b) \in Contents
  <2>1. tx[b] \in Transactions /\ tx[b].step \in OnChunks /\ tx[b].step \in OnFile
    BY DEF ReuseTypeOK, OnFile, OnChunks
  <2> QED  BY <2>1 DEF Sound, Placed, Transactions
<1>2. u.after \in {"chunks", "embed_done"} /\ u.chunk \in Nat \ {0}
  BY DEF Transactions
<1>3. /\ t \in Transactions /\ t.step = u.after
      /\ t.chunk = IF u.after = "chunks" THEN u.chunk + 1 ELSE u.chunk
      /\ t.file = tx[b].file /\ t.linked = tx[b].linked /\ t.contents = tx[b].contents
      /\ t.parses = tx[b].parses /\ t.vectors = u.vectors /\ t.missing = tx[b].missing
      /\ t.answer = tx[b].answer
  <2>1. t.step = u.after /\ t.chunk = IF u.after = "chunks" THEN u.chunk + 1 ELSE u.chunk
    BY DEF Transactions
  <2>2. t.file = tx[b].file /\ t.linked = tx[b].linked /\ t.contents = tx[b].contents
        /\ t.parses = tx[b].parses /\ t.vectors = u.vectors /\ t.missing = tx[b].missing
        /\ t.answer = tx[b].answer
    BY DEF Transactions
  <2>3. u.after \in Steps /\ u.chunk + 1 \in Nat \ {0}
    BY <1>2 DEF Steps
  <2>4. \A s \in Steps, i \in Nat \ {0} : [u EXCEPT !.step = s, !.chunk = i] \in Transactions
    BY DEF Transactions
  <2>5. t \in Transactions
    <3>1. [u EXCEPT !.step = u.after, !.chunk = u.chunk + 1] \in Transactions
      BY <2>3, <2>4
    <3>2. [u EXCEPT !.step = u.after, !.chunk = u.chunk] \in Transactions
      BY <1>2, <2>3, <2>4
    <3> QED  BY <3>1, <3>2
  <2> QED  BY <2>1, <2>2, <2>5
<1>4. Change(b, t)
  BY DEF Saved
<1> HIDE DEF t
<1>5. \A k \in t.missing : k[1] = Content(b)
  BY <1>3 DEF Sound, Placed
<1>6. Saves(t) => \A k \in t.missing : t.answer[Hash(k)] \in Vectors[Hash(k)]
  BY <1>2, <1>3 DEF Sound, Genuine, Saving, Saves
<1>7. ASSUME NEW i \in DOMAIN ChunksOf[Content(b)]
      PROVE  \/ Vector(b, <<Content(b), i>>) # NoVector
             \/ t.vectors[<<Content(b), i>>] # NoVector
             \/ <<Content(b), i>> \in t.missing
             \/ Ahead(t, i)
  <2>1. i \in Nat /\ (Got(b, i) \/ Ahead(tx[b], i))
    BY <1>1, ChunkFacts, PassedAreGot
  <2>2. CASE i = u.chunk
    BY <1>3, <2>2 DEF Chunk
  <2>3. CASE i # u.chunk
    BY <1>2, <1>3, <2>1, <2>3 DEF Got, Ahead, LooksUp
  <2> QED  BY <2>2, <2>3
<1>8. /\ \A k \in Chunks : tx[b].vectors[k] # NoVector => t.vectors[k] = tx[b].vectors[k]
      /\ \A k \in Chunks : t.vectors[k] # NoVector => t.vectors[k] \in Vectors[Hash(k)]
  BY <1>3
<1>9. t.step \in OnChunks /\ t.step \notin {"save", "insert"} /\ t \in Transactions
  BY <1>2, <1>3 DEF OnChunks
<1> QED  BY <1>1, <1>3, <1>4, <1>5, <1>6, <1>7, <1>8, <1>9, ChunkStepIsSound

LEMMA SaveIsSound ==
    ASSUME ReuseAssumption, ReuseTypeOK, VectorsAreOfTheirText, NEW b \in Builds, Sound(b),
           CheckVector(b) \/ InsertVector(b)
    PROVE  tx' \in [Builds -> Transactions] /\ Sound(b)'
<1>1. tx[b] \in Transactions /\ tx[b].step \in {"save", "insert"} /\ UNCHANGED committed
  BY DEF ReuseTypeOK, CheckVector, InsertVector, At
<1>2. /\ Content(b) \in Contents /\ tx[b].step \in OnChunks
      /\ tx[b].chunk \in DOMAIN ChunksOf[Content(b)]
  BY <1>1 DEF Sound, Placed, OnFile, OnChunks, Transactions
<1>3. Chunk(b) \in Chunks /\ Hash(Chunk(b)) \in Hashes
  BY <1>2, ChunkFacts DEF Chunk
<1>4. \A l \in Chunks : tx[b].vectors[l] # NoVector => tx[b].vectors[l] \in Vectors[Hash(l)]
  BY DEF Sound, Genuine
<1>5. CASE Fail(b, "conflict")
  BY <1>5, FailIsSound DEF Reasons
<1>6. CASE Vector(b, Chunk(b)) # NoVector /\ Saved(b, tx[b])
  BY <1>1, <1>4, <1>6, SavedIsSound
<1>7. CASE Go(b, "insert") /\ tx[b].step = "save"
  <2> DEFINE t == [tx[b] EXCEPT !.step = "insert"]
  <2>1. Change(b, t)
    BY <1>7 DEF Go
  <2>2. t \in Transactions /\ t.step = "insert" /\ t.after = tx[b].after /\ t.chunk = tx[b].chunk
        /\ t.file = tx[b].file /\ t.linked = tx[b].linked /\ t.contents = tx[b].contents
        /\ t.parses = tx[b].parses /\ t.vectors = tx[b].vectors
        /\ t.missing = tx[b].missing /\ t.answer = tx[b].answer
    BY <1>1 DEF Transactions, Steps
  <2> HIDE DEF t
  <2>3. \A k \in t.missing : k[1] = Content(b)
    BY <2>2 DEF Sound, Placed
  <2>4. Saves(t) => \A k \in t.missing : t.answer[Hash(k)] \in Vectors[Hash(k)]
    BY <1>1, <2>2 DEF Sound, Genuine, Saving, Saves
  <2>5. t.answer[Hash(<<Content(b), t.chunk>>)] \in Vectors[Hash(<<Content(b), t.chunk>>)]
    BY <1>1, <2>2 DEF Sound, Genuine, Given, Chunk
  <2>6. \A i \in DOMAIN ChunksOf[Content(b)] :
          Vector(b, <<Content(b), i>>) # NoVector \/ <<Content(b), i>> \in t.missing \/ Ahead(t, i)
    BY <1>2, <1>7, <2>2, PassedAreGot DEF Got, Ahead, LooksUp
  <2> QED  BY <1>1, <1>2, <1>4, <2>1, <2>2, <2>3, <2>4, <2>5, <2>6, ChunkStepIsSound DEF OnChunks
<1>8. CASE InsertVector(b) /\ Saved(b, [tx[b] EXCEPT !.vectors[Chunk(b)] = Given(b)])
  <2> DEFINE u == [tx[b] EXCEPT !.vectors[Chunk(b)] = Given(b)]
             stored == [tx[b].vectors EXCEPT ![Chunk(b)] = Given(b)]
  <2>1. Given(b) \in Vectors[Hash(Chunk(b))] /\ Given(b) # NoVector /\ Given(b) \in Stored
    BY <1>1, <1>3, ChunkFacts DEF Sound, Genuine
  <2>2. stored \in [Chunks -> Stored]
    BY <1>1, <2>1 DEF Transactions
  <2>3. u \in Transactions /\ u.vectors = stored
        /\ u.after = tx[b].after /\ u.chunk = tx[b].chunk
        /\ u.file = tx[b].file /\ u.linked = tx[b].linked /\ u.contents = tx[b].contents
        /\ u.parses = tx[b].parses /\ u.missing = tx[b].missing /\ u.answer = tx[b].answer
    BY <1>1, <2>2 DEF Transactions
  <2>4. \A k \in Chunks : /\ stored[k] # NoVector => stored[k] \in Vectors[Hash(k)]
                          /\ k # Chunk(b) => stored[k] = tx[b].vectors[k]
    BY <1>1, <1>4, <2>1 DEF Transactions
  <2>5. stored[Chunk(b)] = Given(b)
    BY <1>1, <1>3 DEF Transactions
  <2>6. CASE tx[b].vectors[Chunk(b)] = NoVector
    <3>1. \A k \in Chunks : tx[b].vectors[k] # NoVector => u.vectors[k] = tx[b].vectors[k]
      BY <2>3, <2>4, <2>6
    <3> HIDE DEF u, stored
    <3> QED  BY <1>1, <1>8, <2>1, <2>3, <2>4, <2>5, <3>1, SavedIsSound DEF u
  <2>7. CASE tx[b].vectors[Chunk(b)] # NoVector
    <3>1. Vector(b, Chunk(b)) # NoVector
      BY <2>7 DEF Vector
    <3> QED  BY <1>5, <1>6, <1>8, <3>1 DEF InsertVector
  <2> QED  BY <2>6, <2>7
<1> QED  BY <1>5, <1>6, <1>7, <1>8 DEF CheckVector, InsertVector, At

---------------------------------------------------------------------------
(* Ends of builds, and what they do to the others.                         *)
LEMMA EndIsSound ==
    ASSUME ReuseAssumption, ReuseTypeOK, NEW b \in Builds, Cancel(b) \/ Commit(b)
    PROVE  tx' \in [Builds -> Transactions] /\ Sound(b)'
<1>1. CASE Cancel(b)
  BY <1>1, FailIsSound DEF Cancel, Reasons
<1>2. CASE Commit(b)
  <2> DEFINE t == [Begun(b) EXCEPT !.step = "committed"]
  <2>1. t \in Transactions
    BY BegunIsTyped DEF Steps
  <2>2. t.step = "committed" /\ t.linked = {} /\ t.missing = {} /\ t.vectors = None /\ t.file = 1
    BY DEF Begun
  <2>3. tx' \in [Builds -> Transactions] /\ tx'[b] = t
    BY <1>2, <2>1, ChangeOfOne, ChangeIsTyped DEF Commit
  <2> HIDE DEF t
  <2>4. Placed(b)'
    BY <2>2, <2>3 DEF Placed, OnFile, OnChunks
  <2>5. Working(b)'
    BY <2>2, <2>3 DEF Working, OnFile, OnChunks, Looking, Saving, LooksUp, Saves
  <2>6. Genuine(b)'
    BY <2>2, <2>3 DEF Genuine, None, Saving, Saves
  <2> QED  BY <2>3, <2>4, <2>5, <2>6 DEF Sound
<1> QED  BY <1>1, <1>2

Safe == LinkedIsSearchable /\ VectorsAreOfTheirText

ReuseInv == ReuseTypeOK /\ Safe /\ \A b \in Builds : Sound(b)

(* All but the commit.                                                     *)
LEMMA StepsAreSound ==
    ASSUME ReuseAssumption, ReuseInv, NEW b \in Builds, Build(b), ~Commit(b)
    PROVE  tx' \in [Builds -> Transactions] /\ Sound(b)' /\ UNCHANGED committed
<1>1. tx' \in [Builds -> Transactions] /\ Sound(b)'
  BY UpsertIsSound, LinkIsSound, ParseIsSound, FindVectorIsSound, AllFoundIsSound, EmbedIsSound,
     NextMissingIsSound, SaveIsSound, EndIsSound DEF ReuseInv, Safe, Build
<1>2. UNCHANGED committed
  BY DEF Build, UpsertContent, Link, FindParse, SaveParse, FindVector, AllFound, Embed,
         NextMissing, CheckVector, InsertVector, Cancel
<1> QED  BY <1>1, <1>2

LEMMA BuildChangesOne ==
    ASSUME ReuseTypeOK, NEW b \in Builds, Build(b)
    PROVE  \E t : Change(b, t)
BY DEF Build, UpsertContent, Link, FindParse, SaveParse, FindVector, AllFound, Embed,
       NextMissing, CheckVector, InsertVector, Cancel, Commit, Fail, Go, Saved

LEMMA FaultsAreTyped ==
    ASSUME ReuseAssumption, ReuseTypeOK, NEW b \in Builds, Build(b)
    PROVE  faults' \in 0..MaxFaults
<1>1. faults' = faults \/ (faults < MaxFaults /\ faults' = faults + 1)
  BY DEF Build, UpsertContent, Link, FindParse, SaveParse, FindVector, AllFound, Embed,
         NextMissing, CheckVector, InsertVector, Cancel, Commit
<1> QED  BY <1>1 DEF ReuseAssumption, ReuseTypeOK

(* A commit adds to what is stored.                                        *)
LEMMA CommitAdds ==
    ASSUME ReuseAssumption, ReuseInv, NEW b \in Builds, Commit(b)
    PROVE  /\ contents \subseteq contents' /\ parses \subseteq parses'
           /\ \A k \in Chunks : /\ vectors'[k] = Vector(b, k)
                                /\ vectors[k] # NoVector => vectors'[k] # NoVector
           /\ linked' = linked \cup tx[b].linked
           /\ contents' \subseteq Contents /\ parses' \subseteq Contents
           /\ linked' \subseteq Contents /\ vectors' \in [Chunks -> Stored]
           /\ Safe'
<1>1. tx[b] \in Transactions /\ tx[b].step = "ready"
  BY DEF ReuseInv, ReuseTypeOK, Commit, At
<1>2. contents \subseteq contents' /\ parses \subseteq parses' /\ linked' = linked \cup tx[b].linked
      /\ contents' = contents \cup tx[b].contents /\ parses' = parses \cup tx[b].parses
  BY DEF Commit
<1>3. \A k \in Chunks : /\ vectors'[k] = Vector(b, k) /\ Vector(b, k) \in Stored
                        /\ vectors[k] # NoVector => vectors'[k] # NoVector
  BY <1>1 DEF Commit, Vector, ReuseInv, ReuseTypeOK, Transactions
<1>4. vectors' \in [Chunks -> Stored]
  BY <1>3 DEF Commit
<1>5. contents' \subseteq Contents /\ parses' \subseteq Contents /\ linked' \subseteq Contents
  BY <1>1, <1>2 DEF ReuseInv, ReuseTypeOK, Transactions
<1>6. VectorsAreOfTheirText'
  <2>1. \A k \in Chunks : Vector(b, k) # NoVector => Vector(b, k) \in Vectors[Hash(k)]
    BY ReusableIsGenuine DEF ReuseInv, Safe, Sound
  <2> QED  BY <1>3, <2>1 DEF VectorsAreOfTheirText
<1>7. LinkedIsSearchable'
  <2>1. ASSUME NEW c \in linked'
        PROVE  /\ c \in contents' /\ (ChunksOf[c] # <<>> => c \in parses')
               /\ \A i \in DOMAIN ChunksOf[c] : vectors'[<<c, i>>] # NoVector
    <3>1. \A i \in DOMAIN ChunksOf[c] : <<c, i>> \in Chunks
      BY <1>5, <2>1, ChunkFacts
    <3>2. CASE c \in linked
      BY <1>2, <1>3, <3>1, <3>2 DEF ReuseInv, Safe, LinkedIsSearchable
    <3>3. CASE c \in tx[b].linked
      <4>1. Complete(b, c)
        BY <1>1, <3>3 DEF ReuseInv, Sound, Working, OnFile
      <4> QED  BY <1>2, <1>3, <3>1, <4>1 DEF Complete, HasContent, HasParse
    <3> QED  BY <1>2, <2>1, <3>2, <3>3
  <2> QED  BY <2>1 DEF LinkedIsSearchable
<1> QED  BY <1>2, <1>3, <1>4, <1>5, <1>6, <1>7 DEF Safe

LEMMA BuildKeepsInv ==
    ASSUME ReuseAssumption, ReuseInv, NEW b \in Builds, Build(b)
    PROVE  ReuseInv'
<1>1. \A o \in Builds \ {b} : tx'[o] = tx[o]
  BY BuildChangesOne, ChangeOfOne DEF ReuseInv
<1>2. tx' \in [Builds -> Transactions] /\ Sound(b)'
  BY StepsAreSound, EndIsSound DEF ReuseInv
<1>3. faults' \in 0..MaxFaults
  BY FaultsAreTyped DEF ReuseInv
<1>4. \A o \in Builds \ {b} : Grown(o)
  <2>1. CASE Commit(b)
    <3>1. contents \subseteq contents' /\ parses \subseteq parses'
          /\ \A k \in Chunks : vectors[k] # NoVector => vectors'[k] # NoVector
      BY <2>1, CommitAdds
    <3> QED  BY <1>1, <3>1 DEF Grown, HasContent, HasParse, Vector
  <2>2. CASE ~Commit(b)
    BY <1>1, <2>2, StepsAreSound DEF Grown, HasContent, HasParse, Vector, committed
  <2> QED  BY <2>1, <2>2
<1>5. \A o \in Builds \ {b} : Sound(o)'
  BY <1>1, <1>4, OthersKeepWorking DEF ReuseInv, Sound
<1>6. contents' \subseteq Contents /\ parses' \subseteq Contents /\ linked' \subseteq Contents
      /\ vectors' \in [Chunks -> Stored] /\ Safe'
  <2>1. CASE Commit(b)
    BY <2>1, CommitAdds
  <2>2. CASE ~Commit(b)
    <3>1. UNCHANGED committed
      BY <2>2, StepsAreSound
    <3> QED  BY <3>1 DEF committed, ReuseInv, Safe, ReuseTypeOK, LinkedIsSearchable, VectorsAreOfTheirText
  <2> QED  BY <2>1, <2>2
<1>7. \A o \in Builds : tx'[o].file \in DOMAIN Files[o] \cup {1}
  BY <1>2, <1>5 DEF Sound, Placed
<1> QED  BY <1>2, <1>3, <1>5, <1>6, <1>7 DEF ReuseInv, ReuseTypeOK

(* Nothing is collected that a run, or a build that goes on, has linked.   *)
LEMMA CollectKeepsInv ==
    ASSUME ReuseAssumption, ReuseInv, NEW c \in Contents, Collect(c)
    PROVE  ReuseInv'
<1>1. contents' = contents \ {c} /\ parses' = parses \ {c} /\ UNCHANGED <<linked, tx, faults>>
      /\ vectors' = [k \in Chunks |-> IF k[1] = c THEN NoVector ELSE vectors[k]]
      /\ c \notin linked /\ \A b \in Builds : c \notin tx[b].linked
  BY DEF Collect
<1>2. \A b \in Builds : Grown(b)
  BY <1>1 DEF Grown, HasContent, HasParse, Vector
<1>3. \A b \in Builds : Sound(b)'
  BY <1>1, <1>2, OthersKeepWorking DEF ReuseInv, Sound
<1>4. vectors' \in [Chunks -> Stored]
  BY <1>1, ChunkFacts DEF ReuseInv, ReuseTypeOK
<1>5. VectorsAreOfTheirText'
  BY <1>1 DEF ReuseInv, Safe, VectorsAreOfTheirText
<1>6. LinkedIsSearchable'
  <2>1. \A d \in linked : \A i \in DOMAIN ChunksOf[d] : <<d, i>> \in Chunks
    BY ChunkFacts DEF ReuseInv, ReuseTypeOK
  <2> QED  BY <1>1, <2>1 DEF ReuseInv, Safe, LinkedIsSearchable
<1> QED  BY <1>1, <1>3, <1>4, <1>5, <1>6 DEF ReuseInv, Safe, ReuseTypeOK

LEMMA InitIsSafe == ASSUME ReuseAssumption, ReuseInit PROVE ReuseInv
<1>1. \A b \in Builds : tx[b] = Begun(b) /\ tx[b] \in Transactions
  BY BegunIsTyped DEF ReuseInit
<1>2. None \in [Chunks -> Stored] /\ 0 \in 0..MaxFaults
  BY ChunkFacts DEF None, ReuseAssumption
<1>3. ReuseTypeOK
  <2>1. \A b \in Builds : Begun(b).file = 1
    BY DEF Begun
  <2> QED  BY <1>1, <1>2, <2>1 DEF ReuseTypeOK, ReuseInit
<1>4. Safe
  BY DEF ReuseInit, Safe, LinkedIsSearchable, VectorsAreOfTheirText, None
<1>5. ASSUME NEW b \in Builds  PROVE Sound(b)
  <2> DEFINE t == Begun(b)
  <2>0. /\ t.file = 1 /\ t.chunk = 1 /\ t.linked = {} /\ t.missing = {} /\ t.vectors = None
        /\ t.step = IF Files[b] = <<>> THEN "ready" ELSE "upsert"
    BY DEF Begun
  <2> HIDE DEF t
  <2>1. /\ tx[b].step \in {"ready", "upsert"} /\ tx[b].file = 1 /\ tx[b].chunk = 1
        /\ tx[b].step = "upsert" => Files[b] # <<>>
        /\ tx[b].linked = {} /\ tx[b].missing = {} /\ tx[b].vectors = None
    <3>1. tx[b] = t
      BY <1>1 DEF t
    <3>2. CASE Files[b] = <<>>
      BY <2>0, <3>1, <3>2
    <3>3. CASE Files[b] # <<>>
      BY <2>0, <3>1, <3>3
    <3> QED  BY <3>2, <3>3
  <2>2. Files[b] # <<>> => 1 \in DOMAIN Files[b]
    BY DEF ReuseAssumption
  <2>3. Placed(b)
    BY <2>1, <2>2 DEF Placed, OnFile, OnChunks
  <2>4. Working(b)
    BY <2>1 DEF Working, OnFile, OnChunks, Looking, Saving, LooksUp, Saves
  <2>5. Genuine(b)
    BY <2>1 DEF Genuine, None, Saving, Saves
  <2> QED  BY <2>3, <2>4, <2>5 DEF Sound
<1> QED  BY <1>3, <1>4, <1>5 DEF ReuseInv

LEMMA ReuseInvariantHolds == ASSUME ReuseAssumption PROVE ReuseSpec => []ReuseInv
<1>1. ReuseInv /\ [ReuseNext]_reuseVars => ReuseInv'
  <2>1. ASSUME ReuseInv, UNCHANGED reuseVars  PROVE ReuseInv'
    <3>1. \A b \in Builds : Grown(b)
      BY <2>1 DEF reuseVars, committed, Grown, HasContent, HasParse, Vector
    <3>2. \A b \in Builds : Sound(b)'
      BY <2>1, <3>1, OthersKeepWorking DEF ReuseInv, Sound, reuseVars
    <3> QED  BY <2>1, <3>2 DEF reuseVars, committed, ReuseInv, Safe, ReuseTypeOK, LinkedIsSearchable,
                               VectorsAreOfTheirText
  <2> QED  BY <2>1, BuildKeepsInv, CollectKeepsInv DEF ReuseNext
<1> QED  BY <1>1, InitIsSafe, PTL DEF ReuseSpec

(* What is stored and what a build has at hand keep their types.           *)
THEOREM ReuseTypeCorrect == ASSUME ReuseAssumption PROVE ReuseSpec => []ReuseTypeOK
<1>1. ReuseInv => ReuseTypeOK
  BY DEF ReuseInv
<1> QED  BY <1>1, ReuseInvariantHolds, PTL

---------------------------------------------------------------------------
(* With a model that always answers the same, what builds have for a text  *)
(* is one vector, so no two of them disagree.                              *)
LEMMA OneAtMost ==
    ASSUME NEW S, \A v, w \in S : v = w
    PROVE  ~(Cardinality(S) > 1)
<1>1. CASE S = {}
  BY <1>1, FS_EmptySet
<1>2. CASE S # {}
  <2>1. PICK v \in S : TRUE
    BY <1>2
  <2>2. S = {v}
    BY <2>1
  <2>3. Cardinality({v}) = 1
    BY FS_Singleton
  <2> QED  BY <2>2, <2>3
<1> QED  BY <1>1, <1>2

LEMMA NobodyConflicts ==
    ASSUME ReuseAssumption, SingleAnswers, ReuseInv, SharingIsHarmless, NEW b \in Builds, Build(b)
    PROVE  tx'[b].why # "conflict"
<1>1. tx[b] \in Transactions /\ tx[b].why # "conflict" /\ Sound(b)
  BY DEF ReuseInv, ReuseTypeOK, SharingIsHarmless
<1>2. /\ \A k \in Chunks : Vector(b, k) # NoVector => Vector(b, k) \in Vectors[Hash(k)]
      /\ \A h : Reusable(b, h) \subseteq Vectors[h]
  BY <1>1, ReusableIsGenuine DEF ReuseInv, Safe, Sound
<1>3. \A w \in Reasons \ {"conflict"} : Fail(b, w) => tx'[b].why # "conflict"
  <2>1. ASSUME NEW w \in Reasons \ {"conflict"}, Fail(b, w)  PROVE tx'[b].why # "conflict"
    <3>1. tx'[b] = [Begun(b) EXCEPT !.step = "failed", !.why = w]
      BY <2>1, ChangeOfOne DEF ReuseInv, Fail
    <3> QED  BY <2>1, <3>1 DEF Begun
  <2> QED  BY <2>1
<1>4. ASSUME NEW t, Change(b, t), t.why = tx[b].why  PROVE tx'[b].why # "conflict"
  BY <1>1, <1>4, ChangeOfOne DEF ReuseInv
<1>5. \A t \in Transactions : NextFile(t, b).why = t.why
  BY DEF NextFile, Transactions
<1>6. \A t \in Transactions : Saved(b, t) /\ t.why = tx[b].why => tx'[b].why # "conflict"
  BY <1>4 DEF Saved, Transactions
<1>7. \A s : Go(b, s) => tx'[b].why # "conflict"
  BY <1>1, <1>4 DEF Go, Transactions
<1>8. tx[b].step \in OnFile => Content(b) \in Contents
  BY <1>1 DEF Sound, Placed, Transactions
<1>9. CASE UpsertContent(b) \/ SaveParse(b) \/ AllFound(b) \/ NextMissing(b)
  <2>1. CASE UpsertContent(b)
    BY <1>1, <1>4, <2>1 DEF UpsertContent, Transactions
  <2>2. CASE SaveParse(b)
    BY <1>1, <1>4, <2>2 DEF SaveParse, Transactions
  <2>3. CASE AllFound(b)
    <3>1. [tx[b] EXCEPT !.step = "embed"].why = tx[b].why
      BY <1>1 DEF Transactions
    <3> QED  BY <1>1, <1>4, <1>5, <2>3, <3>1 DEF AllFound
  <2>4. CASE NextMissing(b)
    <3>1. \A k \in tx[b].missing :
            [tx[b] EXCEPT !.step = "save", !.after = "embed_done",
                          !.chunk = k[2], !.missing = @ \ {k}].why = tx[b].why
      BY <1>1 DEF Transactions
    <3> QED  BY <1>1, <1>4, <1>5, <2>4, <3>1 DEF NextMissing
  <2> QED  BY <1>9, <2>1, <2>2, <2>3, <2>4
<1>10. CASE Link(b)
  <2> DEFINE t == [tx[b] EXCEPT !.linked = @ \cup {Content(b)}]
  <2>1. tx[b].file \in DOMAIN Files[b]
    BY <1>1, <1>10 DEF Link, At, Sound, Placed
  <2>2. Content(b) \in Contents
    BY <2>1, ChunkFacts DEF Content
  <2>3. t \in Transactions /\ t.why = tx[b].why
    BY <1>1, <2>2 DEF Transactions
  <2> HIDE DEF t
  <2>4. [t EXCEPT !.step = "parse"].why = tx[b].why
    BY <2>3 DEF Transactions
  <2>5. Fail(b, "collected") \/ Change(b, NextFile(t, b)) \/ Change(b, [t EXCEPT !.step = "parse"])
    BY <1>10 DEF Link, t
  <2>6. "collected" \in Reasons \ {"conflict"} /\ NextFile(t, b).why = tx[b].why
    BY <1>5, <2>3 DEF Reasons
  <2> QED  BY <1>3, <1>4, <2>4, <2>5, <2>6
<1>11. CASE FindParse(b)
  BY <1>3, <1>7, <1>11 DEF FindParse, Reasons
<1>12. CASE Embed(b)
  <2>1. \A a : [tx[b] EXCEPT !.step = "embed_done", !.answer = a].why = tx[b].why
    BY <1>1 DEF Transactions
  <2>2. \A a : Change(b, [tx[b] EXCEPT !.step = "embed_done", !.answer = a])
                  => tx'[b].why # "conflict"
    BY <1>4, <2>1
  <2>3. CASE Fail(b, "embedding_failure")
    BY <1>3, <2>3 DEF Reasons
  <2> QED  BY <1>12, <2>2, <2>3 DEF Embed
<1>13. CASE FindVector(b)
  <2>1. tx[b].step = "chunks" /\ tx[b].chunk <= Len(ChunksOf[Content(b)])
    BY <1>13 DEF FindVector, At
  <2>2. Content(b) \in Contents
    BY <1>8, <2>1 DEF OnFile
  <2>3. tx[b].chunk \in DOMAIN ChunksOf[Content(b)]
    BY <1>1, <2>1, <2>2, ChunkFacts DEF Transactions
  <2>4. Hash(Chunk(b)) \in Hashes
    BY <2>2, <2>3, ChunkFacts DEF Chunk
  <2>5. ~(Cardinality(Reusable(b, Hash(Chunk(b)))) > 1)
    <3>1. \A v, w \in Reusable(b, Hash(Chunk(b))) : v = w
      BY <1>2, <2>4 DEF SingleAnswers
    <3> QED  BY <3>1, OneAtMost
  <2>6. \E t : Change(b, t) /\ t.why = tx[b].why
    <3> DEFINE next == [tx[b] EXCEPT !.chunk = @ + 1]
               more == [next EXCEPT !.missing = @ \cup {Chunk(b)}]
               use == [tx[b] EXCEPT !.step = "save", !.after = "chunks",
                                    !.answer[Hash(Chunk(b))] =
                                        CHOOSE v \in Reusable(b, Hash(Chunk(b))) : TRUE]
    <3>1. next.why = tx[b].why /\ more.why = tx[b].why /\ use.why = tx[b].why
      BY <1>1 DEF Transactions
    <3>2. Change(b, next) \/ Change(b, more) \/ Change(b, use)
      BY <1>13, <2>5 DEF FindVector
    <3> HIDE DEF next, more, use
    <3> QED  BY <3>1, <3>2
  <2> QED  BY <1>4, <2>6
<1>14. CASE CheckVector(b) \/ InsertVector(b)
  <2>1. tx[b].step \in {"save", "insert"}
    BY <1>14 DEF CheckVector, InsertVector, At
  <2>2. Content(b) \in Contents /\ tx[b].chunk \in DOMAIN ChunksOf[Content(b)]
    BY <1>1, <1>8, <2>1 DEF OnFile, Sound, Placed
  <2>3. Chunk(b) \in Chunks /\ Hash(Chunk(b)) \in Hashes
    BY <2>2, ChunkFacts DEF Chunk
  <2>4. Given(b) \in Vectors[Hash(Chunk(b))]
    BY <1>1, <2>1 DEF Sound, Genuine
  <2>5. Vector(b, Chunk(b)) # NoVector => Vector(b, Chunk(b)) = Given(b)
    BY <1>2, <2>3, <2>4 DEF SingleAnswers
  <2>6. Reusable(b, Hash(Chunk(b))) \subseteq {Given(b)}
    BY <1>2, <2>3, <2>4 DEF SingleAnswers
  <2> DEFINE u == [tx[b] EXCEPT !.vectors[Chunk(b)] = Given(b)]
  <2>7. Saved(b, tx[b]) \/ Go(b, "insert") \/ Saved(b, u)
    BY <1>14, <2>5, <2>6 DEF CheckVector, InsertVector
  <2>8. u \in Transactions /\ u.why = tx[b].why
    <3>1. Given(b) \in Stored
      BY <2>3, <2>4, ChunkFacts
    <3>2. [tx[b].vectors EXCEPT ![Chunk(b)] = Given(b)] \in [Chunks -> Stored]
      BY <1>1, <3>1 DEF Transactions
    <3> QED  BY <1>1, <3>2 DEF Transactions
  <2> HIDE DEF u
  <2> QED  BY <1>1, <1>6, <1>7, <2>7, <2>8
<1>15. CASE Cancel(b) \/ Commit(b)
  <2>1. CASE Cancel(b)
    BY <1>3, <2>1 DEF Cancel, Reasons
  <2>2. CASE Commit(b)
    <3>1. tx'[b] = [Begun(b) EXCEPT !.step = "committed"]
      BY <2>2, ChangeOfOne DEF ReuseInv, Commit
    <3> QED  BY <3>1 DEF Begun
  <2> QED  BY <1>15, <2>1, <2>2
<1> QED  BY <1>9, <1>10, <1>11, <1>12, <1>13, <1>14, <1>15 DEF Build

LEMMA InitIsHarmless == ReuseInit => SharingIsHarmless
<1>1. \A b \in Builds : Begun(b).why = "none"
  BY DEF Begun
<1> QED  BY <1>1 DEF ReuseInit, SharingIsHarmless

LEMMA HarmlessStays ==
    ASSUME ReuseAssumption, SingleAnswers, ReuseInv, SharingIsHarmless, [ReuseNext]_reuseVars
    PROVE  SharingIsHarmless'
<1>1. CASE UNCHANGED tx
  BY <1>1 DEF SharingIsHarmless
<1>2. ASSUME NEW b \in Builds, Build(b)  PROVE SharingIsHarmless'
  <2>1. tx'[b].why # "conflict"
    BY <1>2, NobodyConflicts
  <2>2. \A o \in Builds \ {b} : tx'[o] = tx[o]
    BY <1>2, BuildChangesOne, ChangeOfOne DEF ReuseInv
  <2> QED  BY <2>1, <2>2 DEF SharingIsHarmless
<1> QED  BY <1>1, <1>2 DEF ReuseNext, reuseVars, Collect

(* What a committed run links can be searched, and every vector is one the *)
(* model gave for the text of its chunk, whoever computed it and whatever  *)
(* was collected, cancelled or failed meanwhile.                           *)
THEOREM LinkedContentsAreSearchable ==
    ASSUME ReuseAssumption
    PROVE  ReuseSpec => [](LinkedIsSearchable /\ VectorsAreOfTheirText)
<1>1. ReuseInv => LinkedIsSearchable /\ VectorsAreOfTheirText
  BY DEF ReuseInv, Safe
<1> QED  BY <1>1, ReuseInvariantHolds, PTL

(* And if the model always answers the same, no build fails because of     *)
(* what another has stored.                                                *)
THEOREM SharingIsSafe ==
    ASSUME ReuseAssumption, SingleAnswers
    PROVE  ReuseSpec => []ReuseIsSafe
<1>1. ReuseInv /\ SharingIsHarmless /\ [ReuseNext]_reuseVars => SharingIsHarmless'
  BY HarmlessStays
<1>2. ReuseInv /\ SharingIsHarmless => ReuseIsSafe
  BY DEF ReuseInv, Safe, ReuseIsSafe
<1> QED  BY <1>1, <1>2, InitIsHarmless, ReuseInvariantHolds, PTL DEF ReuseSpec
===========================================================================
