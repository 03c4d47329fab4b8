-------------------------- MODULE EmbeddingRuntime ------------------------
(***************************************************************************)
(* The process-wide runtime of one embedding model: _LazyRuntime of        *)
(* sentence_transformer.py.  The first of several calling threads loads    *)
(* the model while the others wait on a condition variable; when the load  *)
(* fails, all of them fail with it, and only then may another call try     *)
(* again.  Loaded, the model works for one thread at a time.               *)
(*                                                                         *)
(* One step is one critical section of the condition's lock or of the      *)
(* owner's, or one operation on the semaphore.  Control-flow exceptions    *)
(* (KeyboardInterrupt, SystemExit) may end a load, a wait or an operation; *)
(* they are not raised between the bytecodes of this class.                *)
(***************************************************************************)
EXTENDS Naturals, FiniteSets

CONSTANTS
    Threads,        \* threads that call the provider or the token counter
    NoThread,       \* the null thread id
    MaxCalls,       \* bound on the calls made
    MaxInterrupts   \* bound on the control-flow exceptions

ASSUME ThreadsAssumption == IsFiniteSet(Threads) /\ NoThread \notin Threads
ASSUME BoundsAssumption == MaxCalls \in Nat /\ MaxInterrupts \in Nat

VARIABLES
    state,              \* _state
    loader,             \* _loader_thread_id
    generation,         \* _load_generation
    failedGeneration,   \* _failure_generation, 0 for None
    cohort,             \* _cohort_members
    lane,               \* who holds _inference_semaphore
    laneOwner,          \* _inference_owner_thread_id
    pc,                 \* where each thread stands
    joined,             \* the generation each thread loads or waits for
    caller,             \* what a nested call was made from
    calls,              \* calls made so far
    interrupts          \* control-flow exceptions so far

runtime == <<state, loader, generation, failedGeneration, cohort>>
inference == <<lane, laneOwner>>
bounds == <<calls, interrupts>>
vars == <<runtime, inference, pc, joined, caller, bounds>>

(* asleep: in Condition.wait      awake: notified, about to look again     *)
(* lane: has the backend          acquire: about to take the semaphore     *)
(* own: has taken it              release: about to give it back           *)
Stands == {"idle", "enter", "load", "asleep", "awake",
           "lane", "acquire", "own", "operate", "release"}

(* Ids, counters and program counters have their types. *)
TypeOK ==
    /\ state \in {"unloaded", "loading", "ready", "failed"}
    /\ loader \in Threads \cup {NoThread}
    /\ generation \in Nat
    /\ failedGeneration \in Nat
    /\ cohort \in Nat
    /\ lane \in Threads \cup {NoThread}
    /\ laneOwner \in Threads \cup {NoThread}
    /\ pc \in [Threads -> Stands]
    /\ joined \in [Threads -> Nat]
    /\ caller \in [Threads -> {"outside", "load", "operate"}]
    /\ calls \in 0..MaxCalls
    /\ interrupts \in 0..MaxInterrupts

Init ==
    /\ state = "unloaded"
    /\ loader = NoThread
    /\ generation = 0
    /\ failedGeneration = 0
    /\ cohort = 0
    /\ lane = NoThread
    /\ laneOwner = NoThread
    /\ pc = [t \in Threads |-> "idle"]
    /\ joined = [t \in Threads |-> 0]
    /\ caller = [t \in Threads |-> "outside"]
    /\ calls = 0
    /\ interrupts = 0

---------------------------------------------------------------------------
(* embed_query, embed_documents, encode, offsets: each runs its operation  *)
(* through inference.                                                      *)
Call(t) ==
    /\ pc[t] = "idle"
    /\ calls < MaxCalls
    /\ calls' = calls + 1
    /\ pc' = [pc EXCEPT ![t] = "enter"]
    /\ UNCHANGED <<runtime, inference, joined, caller, interrupts>>

(* The model being loaded or used calls the provider on the same thread. *)
Reenter(t) ==
    /\ pc[t] \in {"load", "operate"}
    /\ calls < MaxCalls
    /\ calls' = calls + 1
    /\ caller' = [caller EXCEPT ![t] = pc[t]]
    /\ pc' = [pc EXCEPT ![t] = "enter"]
    /\ UNCHANGED <<runtime, inference, joined, interrupts>>

(* Where a call of t goes on when it raises: to what made it. *)
Outer(t) == IF caller[t] = "outside" THEN "idle" ELSE caller[t]

Raise(t) ==
    /\ pc' = [pc EXCEPT ![t] = Outer(t)]
    /\ caller' = [caller EXCEPT ![t] = "outside"]

(* Condition.notify_all, for the program counters p. *)
NotifyAll(p) == [t \in Threads |-> IF p[t] = "asleep" THEN "awake" ELSE p[t]]

Interrupt == interrupts < MaxInterrupts /\ interrupts' = interrupts + 1

---------------------------------------------------------------------------
(* _LazyRuntime.backend                                                    *)

(* A waiter that finds its own load failed leaves the loop; any other      *)
(* looks at the state like a new call.  It never finds its load still      *)
(* going on: see NoSleeperIsForgotten.                                     *)
OwnLoadFailed(t) == state = "failed" /\ failedGeneration = joined[t]

Looks(t) == pc[t] = "enter" \/ (pc[t] = "awake" /\ ~ OwnLoadFailed(t))

UseBackend(t) ==
    /\ Looks(t)
    /\ state = "ready"
    /\ pc' = [pc EXCEPT ![t] = "lane"]
    /\ UNCHANGED <<runtime, inference, joined, caller, bounds>>

(* A failed load whose waiters have not all left yet. *)
FailFast(t) ==
    /\ Looks(t)
    /\ state = "failed"
    /\ Raise(t)
    /\ UNCHANGED <<runtime, inference, joined, bounds>>

StartLoad(t) ==
    /\ Looks(t)
    /\ state = "unloaded"
    /\ state' = "loading"
    /\ loader' = t
    /\ generation' = generation + 1
    /\ cohort' = 1
    /\ joined' = [joined EXCEPT ![t] = generation + 1]
    /\ pc' = [pc EXCEPT ![t] = "load"]
    /\ UNCHANGED <<failedGeneration, inference, caller, bounds>>

RefuseLoader(t) ==
    /\ Looks(t)
    /\ state = "loading"
    /\ loader = t
    /\ Raise(t)
    /\ UNCHANGED <<runtime, inference, joined, bounds>>

Join(t) ==
    /\ Looks(t)
    /\ state = "loading"
    /\ loader # t
    /\ cohort' = cohort + 1
    /\ joined' = [joined EXCEPT ![t] = generation]
    /\ pc' = [pc EXCEPT ![t] = "asleep"]
    /\ UNCHANGED <<state, loader, generation, failedGeneration, inference, caller, bounds>>

(* Mutant: the first thread to leave a failed cohort reopens loading. *)
LastOfAny(t) == joined[t] = generation /\ cohort > 0

(* t is the only member left of the current cohort. *)
LastOfCohort(t) == joined[t] = generation /\ cohort = 1

(* Mutant: a cohort that was dissolved is left all the same. *)
MembersOfAny(t) == IF joined[t] = generation THEN cohort - 1 ELSE cohort

(* The members of the current cohort without t. *)
MembersWithout(t) ==
    IF joined[t] = generation /\ cohort > 0 THEN cohort - 1 ELSE cohort

(* _leave_cohort_locked, and the raise that follows.  failed says whether  *)
(* the load of t has failed, p where the threads stand.                    *)
LeaveCohort(t, failed, p) ==
    /\ cohort' = MembersWithout(t)
    /\ IF failed /\ LastOfCohort(t)
       THEN /\ state' = "unloaded"
            /\ failedGeneration' = 0
            /\ pc' = NotifyAll([p EXCEPT ![t] = Outer(t)])
       ELSE /\ state' = IF failed THEN "failed" ELSE state
            /\ failedGeneration' = IF failed THEN joined[t] ELSE failedGeneration
            /\ pc' = [p EXCEPT ![t] = Outer(t)]
    /\ caller' = [caller EXCEPT ![t] = "outside"]

LeaveFailed(t) ==
    /\ pc[t] = "awake"
    /\ OwnLoadFailed(t)
    /\ LeaveCohort(t, TRUE, pc)
    /\ UNCHANGED <<loader, generation, inference, joined, bounds>>

InterruptWait(t) ==
    /\ pc[t] \in {"asleep", "awake"}
    /\ Interrupt
    /\ LeaveCohort(t, OwnLoadFailed(t), pc)
    /\ UNCHANGED <<loader, generation, inference, joined, calls>>

(* The load raises, a nested call of the provider included. *)
FailLoad(t) ==
    /\ pc[t] = "load"
    /\ loader' = NoThread
    /\ LeaveCohort(t, TRUE, NotifyAll(pc))
    /\ UNCHANGED <<generation, inference, joined, bounds>>

(* Mutant: an interrupted load wakes nobody. *)
InterruptLoadSilently(t) ==
    /\ pc[t] = "load"
    /\ Interrupt
    /\ state' = "unloaded"
    /\ loader' = NoThread
    /\ failedGeneration' = 0
    /\ cohort' = 0
    /\ pc' = [pc EXCEPT ![t] = "idle"]
    /\ UNCHANGED <<generation, inference, joined, caller, calls>>

InterruptLoad(t) ==
    /\ pc[t] = "load"
    /\ Interrupt
    /\ state' = "unloaded"
    /\ loader' = NoThread
    /\ failedGeneration' = 0
    /\ cohort' = 0
    /\ pc' = NotifyAll([pc EXCEPT ![t] = "idle"])
    /\ UNCHANGED <<generation, inference, joined, caller, calls>>

FinishLoad(t) ==
    /\ pc[t] = "load"
    /\ state' = "ready"
    /\ loader' = NoThread
    /\ failedGeneration' = 0
    /\ cohort' = 0
    /\ pc' = NotifyAll([pc EXCEPT ![t] = "lane"])
    /\ UNCHANGED <<generation, inference, joined, caller, bounds>>

---------------------------------------------------------------------------
(* _LazyRuntime.inference, once it has the backend                         *)

(* Mutant: a nested call queues for the semaphore its thread holds. *)
CheckNothing(t) ==
    /\ pc[t] = "lane"
    /\ pc' = [pc EXCEPT ![t] = "acquire"]
    /\ UNCHANGED <<runtime, inference, joined, caller, bounds>>

CheckOwner(t) ==
    /\ pc[t] = "lane"
    /\ laneOwner # t
    /\ pc' = [pc EXCEPT ![t] = "acquire"]
    /\ UNCHANGED <<runtime, inference, joined, caller, bounds>>

RefuseOwner(t) ==
    /\ pc[t] = "lane"
    /\ laneOwner = t
    /\ Raise(t)
    /\ UNCHANGED <<runtime, inference, joined, bounds>>

Acquire(t) ==
    /\ pc[t] = "acquire"
    /\ lane = NoThread
    /\ lane' = t
    /\ pc' = [pc EXCEPT ![t] = "own"]
    /\ UNCHANGED <<runtime, laneOwner, joined, caller, bounds>>

TakeOwnership(t) ==
    /\ pc[t] = "own"
    /\ laneOwner' = t
    /\ pc' = [pc EXCEPT ![t] = "operate"]
    /\ UNCHANGED <<runtime, lane, joined, caller, bounds>>

(* A control-flow exception ends the wait for the semaphore. *)
InterruptAcquire(t) ==
    /\ pc[t] = "acquire"
    /\ Interrupt
    /\ Raise(t)
    /\ UNCHANGED <<runtime, inference, joined, calls>>

(* Mutant: the owner is not cleared. *)
EndOperationOwned(t) ==
    /\ pc[t] = "operate"
    /\ pc' = [pc EXCEPT ![t] = "release"]
    /\ UNCHANGED <<runtime, inference, joined, caller, bounds>>

(* The operation returns or raises, a control-flow exception included. *)
EndOperation(t) ==
    /\ pc[t] = "operate"
    /\ laneOwner' = NoThread
    /\ pc' = [pc EXCEPT ![t] = "release"]
    /\ UNCHANGED <<runtime, lane, joined, caller, bounds>>

Release(t) ==
    /\ pc[t] = "release"
    /\ lane' = NoThread
    /\ pc' = [pc EXCEPT ![t] = "idle"]
    /\ UNCHANGED <<runtime, laneOwner, joined, caller, bounds>>

---------------------------------------------------------------------------
Look(t) == UseBackend(t) \/ FailFast(t) \/ StartLoad(t) \/ RefuseLoader(t) \/ Join(t)

Infer(t) ==
    \/ CheckOwner(t) \/ RefuseOwner(t) \/ Acquire(t) \/ TakeOwnership(t)
    \/ EndOperation(t) \/ Release(t)

Progress(t) == Look(t) \/ LeaveFailed(t) \/ FailLoad(t) \/ FinishLoad(t) \/ Infer(t)

Next ==
    \E t \in Threads :
        \/ Progress(t) \/ Call(t) \/ Reenter(t)
        \/ InterruptWait(t) \/ InterruptLoad(t) \/ InterruptAcquire(t)

(* A running thread is scheduled again, and a load and an operation end.   *)
(* Weak fairness is enough, since the number of calls is bounded.          *)
Fairness == \A t \in Threads : WF_vars(Progress(t))

Spec == Init /\ [][Next]_vars /\ Fairness

---------------------------------------------------------------------------
Loads(t) == pc[t] = "load" \/ caller[t] = "load"
Waits(t) == pc[t] \in {"asleep", "awake"}
Operates(t) == pc[t] = "operate" \/ caller[t] = "operate"

(* The model is loaded by one thread at a time, and that thread is the one *)
(* refused when it asks again.                                             *)
OneLoader == \A t \in Threads : Loads(t) <=> state = "loading" /\ loader = t

(* A waiter sleeps exactly while the load it joined is going on: whoever   *)
(* ends a load, however it ends, wakes all who wait for it, and none       *)
(* sleeps on through the next load.                                        *)
NoSleeperIsForgotten ==
    \A t \in Threads : Waits(t) =>
        (pc[t] = "asleep" <=> state = "loading" /\ joined[t] = generation)

(* The counter that decides when a failed runtime reopens is the number of *)
(* threads that have yet to leave, interrupted waiters and dissolved       *)
(* cohorts notwithstanding.                                                *)
CohortIsCounted ==
    cohort = IF state \in {"loading", "failed"}
             THEN Cardinality({t \in Threads :
                                  (Loads(t) \/ Waits(t)) /\ joined[t] = generation})
             ELSE 0

(* One thread loads at a time, and whoever leaves a load, by success,      *)
(* failure or interruption, leaves nobody asleep and nobody uncounted      *)
(* (sentence_transformer.py: _ensure_loaded).                              *)
LoadIsOrderly == OneLoader /\ NoSleeperIsForgotten /\ CohortIsCounted

(* A failed load is over, at once or when its last waiter has left. *)
Reopens ==
    \/ state = "failed" /\ state' # "failed"
    \/ state' = "unloaded" /\ \E t \in Threads : FailLoad(t)

(* "One failed cohort must not poison the process or stampede into         *)
(* retries": loading reopens when nobody is left who waited for the failed *)
(* load, so that no call takes part in a retry of what already failed it.  *)
RetryAwaitsCohort ==
    [][Reopens => \A t \in Threads : Waits(t)' => joined'[t] # generation]_vars

(* While a thread runs an operation, the semaphore is taken by it and the  *)
(* owner names it, and nobody else: a nested call is refused, all others   *)
(* wait.                                                                   *)
OwnerHoldsLane ==
    \A t \in Threads :
        /\ laneOwner = t <=> Operates(t)
        /\ lane = t <=> Operates(t) \/ pc[t] \in {"own", "release"}

(* A failed load does not poison the runtime: another call may try again. *)
FailureIsTransient == state = "failed" ~> state # "failed"

(* Every call returns or raises, nested ones and those whose loader was    *)
(* interrupted included.                                                   *)
CallsEnd == \A t \in Threads : pc[t] # "idle" ~> pc[t] = "idle"
===========================================================================
