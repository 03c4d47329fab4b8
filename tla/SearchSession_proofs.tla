----------------------- MODULE SearchSession_proofs -----------------------
(***************************************************************************)
(* The safety of searches for any number of searchers, runs and contents.  *)
(*                                                                         *)
(* The proof composes: the lifecycle keeps the promises proved in          *)
(* IndexGenerations_proofs, and each request is sound by itself, given     *)
(* what its row locks hold still.  A request step changes one request, and *)
(* a lifecycle or administration step changes none: it only has to leave   *)
(* alone what the others have locked.                                      *)
(***************************************************************************)
EXTENDS SearchSession, TLAPS

Promises == INSTANCE IndexGenerations_proofs

(* All documents of a run, and those the vector lane can score. *)
Whole(run) == {run} \X Snapshot[run]
Scored(run) == IF run \in Embedded THEN Whole(run) ELSE {}

(* What is true of a request wherever it stands. *)
Sound(request) ==
    /\ request.stage \in Pinning \cup {"reading"} => request.index \in Runs
    /\ request.stage \in InTransaction => client = "active"
    /\ request.stage \in Pinning =>
           /\ ~ switching
           /\ pointer[Searched] = request.index
           /\ status[request.index] = "active"
    /\ request.stage \in {"ranked", "scored"} => request.keyword = Whole(request.index)
    /\ request.stage = "scored" => request.vector = Scored(request.index)
    /\ request.stage # "done" => request.outcome = "none"
    /\ request.outcome = "answered" => /\ request.keyword = Whole(request.index)
                                       /\ request.vector = Scored(request.index)

Inv ==
    /\ Promises!Inv
    /\ switching \in BOOLEAN
    /\ client \in {"active", "revoked"}
    /\ expired \in BOOLEAN
    /\ session \in [Searchers -> Sessions]
    /\ \A w \in Searchers : Sound(session[w])

(* The two instances of IndexGenerations say the same. *)
LEMMA SameLifecycle ==
    /\ Generations!TypeOK <=> Promises!TypeOK
    /\ Generations!Init <=> Promises!Init
    /\ \A r \in Runs :
           /\ Generations!PublishReady(r) <=> Promises!PublishReady(r)
           /\ Generations!PublishFailed(r) <=> Promises!PublishFailed(r)
           /\ Generations!Activate(r) <=> Promises!Activate(r)
           /\ Generations!Rollback(r) <=> Promises!Rollback(r)
BY DEF Generations!TypeOK, Promises!TypeOK, Generations!Statuses, Promises!Statuses,
       Generations!Init, Promises!Init,
       Generations!PublishReady, Promises!PublishReady,
       Generations!PublishFailed, Promises!PublishFailed,
       Generations!Activate, Promises!Activate,
       Generations!Rollback, Promises!Rollback,
       Generations!Succession, Promises!Succession,
       Generations!Collectable, Promises!Collectable,
       Generations!RunsOf, Promises!RunsOf

(* A step of the lifecycle, or none, keeps its promises. *)
LEMMA DatabaseKeepsPromises ==
    ASSUME Promises!Inv,
           \/ UNCHANGED database
           \/ \E r \in Runs : \/ Generations!PublishReady(r)
                              \/ Generations!PublishFailed(r)
                              \/ Generations!Activate(r)
                              \/ Generations!Rollback(r)
    PROVE  Promises!Inv'
<1>1. [Promises!Next]_(Promises!vars)
  BY SameLifecycle DEF Promises!Next, Promises!vars, database
<1> QED
  BY <1>1, Promises!NextPreservesInv, SourceOfAssumption, SnapshotAssumption, NoRunAssumption

(* Inv contains the invariants to be proved. *)
LEMMA InvImplies ==
    Inv => TypeOK /\ OpenReadsStayValid /\ AnswersAreWholeGenerations
BY SameLifecycle
   DEF Inv, Promises!Inv, TypeOK, OpenReadsStayValid, AnswersAreWholeGenerations,
       Sound, Whole, Scored

LEMMA InitEstablishesInv == Init => Inv
<1> SUFFICES ASSUME Init  PROVE Inv
  OBVIOUS
<1>1. Promises!Inv
  BY SameLifecycle, Promises!InitEstablishesInv, SourceOfAssumption,
     SnapshotAssumption, NoRunAssumption DEF Init
<1>2. NoRequest \in Sessions /\ Sound(NoRequest)
  BY DEF NoRequest, Sessions, Stages, Sound, Pinning, InTransaction
<1> QED  BY <1>1, <1>2 DEF Init, Inv

(* A step that replaces one request by a sound one keeps the invariant.    *)
LEMMA RequestStep ==
    ASSUME Inv, NEW w \in Searchers, NEW request \in Sessions, Sound(request),
           session' = [session EXCEPT ![w] = request],
           UNCHANGED <<database, switching, client, expired>>
    PROVE  Inv'
<1>1. Promises!Inv'
  BY DatabaseKeepsPromises DEF Inv
<1>2. \A v \in Searchers : Sound(session[v])'
  BY DEF Inv, Sound, database, Whole, Scored
<1> QED  BY <1>1, <1>2 DEF Inv
(* A request that fails holds nothing any more. *)
LEMMA FailStep ==
    ASSUME Inv, NEW w \in Searchers, NEW error \in Errors, Fail(w, error),
           UNCHANGED <<database, switching, client, expired>>
    PROVE  Inv'
<1> DEFINE outcome == IF /\ session[w].kind = "ready"
                         /\ session[w].stage \notin {"received", "authenticated"}
                      THEN "unavailable" ELSE error
           request == [session[w] EXCEPT !.stage = "done", !.outcome = outcome]
<1>1. outcome \in Errors
  BY DEF Errors
<1>2. request \in Sessions
  <2>1. session[w] \in Sessions
    BY DEF Inv
  <2>2. \A result \in Errors :
            [session[w] EXCEPT !.stage = "done", !.outcome = result] \in Sessions
    BY <2>1 DEF Sessions, Stages
  <2> QED  BY <1>1, <2>2
<1>3. Sound(request)
  BY <1>1, <1>2 DEF Sound, Sessions, Pinning, InTransaction, Errors, Inv
<1>4. session' = [session EXCEPT ![w] = request]
  BY DEF Fail
<1> QED  BY <1>2, <1>3, <1>4, RequestStep

(* Before the lookup, and between its statements, nothing has been read.   *)
LEMMA AccessStep ==
    ASSUME Inv, NEW w \in Searchers,
           Authenticate(w) \/ Precheck(w) \/ Grant(w)
    PROVE  Inv'
<1>1. ASSUME NEW stage \in {"authenticated", "authorized", "granted"},
             stage = "granted" => client = "active",
             session[w].stage \in {"received", "authenticated", "authorized", "looked up"},
             Advance(w, stage), UNCHANGED <<database, switching, client, expired>>
      PROVE  Inv'
  <2> DEFINE request == [session[w] EXCEPT !.stage = stage]
  <2>0. session[w] \in Sessions
    BY DEF Inv
  <2>1. request \in Sessions
    BY <2>0 DEF Sessions, Stages
  <2>2. Sound(request)
    BY <1>1, <2>1 DEF Inv, Sound, Sessions, Pinning, InTransaction
  <2>3. session' = [session EXCEPT ![w] = request]
    BY <1>1 DEF Advance
  <2> QED  BY <1>1, <2>1, <2>2, <2>3, RequestStep
<1>2. ASSUME NEW error \in Errors, Fail(w, error),
             UNCHANGED <<database, switching, client, expired>>
      PROVE  Inv'
  BY <1>2, FailStep
<1> QED  BY <1>1, <1>2 DEF Authenticate, Precheck, Grant, Errors

(* The active index query reads the pointer, then locks what it names. *)
LEMMA ActiveIndexStep ==
    ASSUME Inv, NEW w \in Searchers, FindActive(w) \/ PinActive(w)
    PROVE  Inv'
<1>0. ASSUME NEW error \in Errors, Fail(w, error),
             UNCHANGED <<database, switching, client, expired>>
      PROVE  Inv'
  BY <1>0, FailStep
<1>1. CASE FindActive(w) /\ pointer[Searched] # NoRun
  <2> DEFINE request == [session[w] EXCEPT !.stage = "reading", !.index = pointer[Searched]]
  <2>1. pointer[Searched] \in Runs
    BY <1>1, SearchedAssumption DEF Inv, Promises!Inv, Promises!TypeOK
  <2>0. session[w] \in Sessions
    BY DEF Inv
  <2>2. request \in Sessions
    BY <2>0, <2>1 DEF Sessions, Stages
  <2>3. Sound(request)
    BY <1>1, <2>1, <2>2 DEF FindActive, Inv, Sound, Sessions, Pinning, InTransaction
  <2>4. session' = [session EXCEPT ![w] = request]
    BY <1>1 DEF FindActive
  <2> QED  BY <1>1, <2>2, <2>3, <2>4, RequestStep DEF FindActive
<1>2. CASE PinActive(w) /\ pointer[Searched] = session[w].index
                        /\ session[w].index \in Compatible
  <2> DEFINE request == [session[w] EXCEPT !.stage = "pinned"]
  <2>0. session[w] \in Sessions
    BY DEF Inv
  <2>1. request \in Sessions
    BY <2>0 DEF Sessions, Stages
  <2>2. status[session[w].index] = "active"
    BY <1>2, SearchedAssumption
       DEF PinActive, Inv, Sound, Promises!Inv, Promises!PointerNamesActive
  <2>3. Sound(request)
    BY <1>2, <2>1, <2>2 DEF PinActive, Inv, Sound, Sessions, Pinning, InTransaction
  <2>4. session' = [session EXCEPT ![w] = request]
    BY <1>2 DEF PinActive, Advance
  <2> QED  BY <1>2, <2>1, <2>3, <2>4, RequestStep DEF PinActive
<1> QED  BY <1>0, <1>1, <1>2 DEF FindActive, PinActive, Errors

(* While a request holds the source, a lane reads the whole of its run:    *)
(* the run is ACTIVE, so the lifecycle retains its documents.              *)
LEMMA LanesReadWholeRuns ==
    ASSUME Inv, NEW w \in Searchers, session[w].stage \in Pinning
    PROVE  LaneRows = Whole(session[w].index)
<1> DEFINE run == session[w].index
<1>1. /\ run \in Runs /\ client = "active"
      /\ pointer[Searched] = run /\ status[run] = "active"
  BY DEF Inv, Sound, Pinning, InTransaction
<1>2. occurrences[run] = Snapshot[run] /\ Snapshot[run] \subseteq contents
  BY <1>1 DEF Inv, Promises!Inv, Promises!RetainedRunsIntact, Promises!Retained
<1>3. run # NoRun
  BY <1>1, NoRunAssumption
<1>4. occurrences[run] \cap contents = Snapshot[run]
  BY <1>2
<1> QED  BY <1>1, <1>3, <1>4 DEF LaneRows, Whole

(* The retrieval reads its two lanes from one generation. *)
LEMMA RetrievalStep ==
    ASSUME Inv, NEW w \in Searchers,
           EndLookup(w) \/ KeywordLane(w) \/ VectorLane(w) \/ EndRetrieval(w)
    PROVE  Inv'
<1>0. session[w] \in Sessions /\ Sound(session[w])
  BY DEF Inv
<1>1. CASE EndLookup(w)
  <2> DEFINE request == IF session[w].kind = "ready"
                        THEN [session[w] EXCEPT !.stage = "done", !.outcome = "ready"]
                        ELSE [session[w] EXCEPT !.stage = "looked up", !.phase = "retrieval",
                                                !.active = session[w].index]
  <2>1. request \in Sessions
    BY <1>0 DEF Sessions, Stages
  <2>2. Sound(request)
    BY <1>0, <1>1, <2>1 DEF EndLookup, Sound, Sessions, Pinning, InTransaction
  <2>3. session' = [session EXCEPT ![w] = request]
    BY <1>1 DEF EndLookup
  <2> QED  BY <1>1, <2>1, <2>2, <2>3, RequestStep DEF EndLookup
<1>2. CASE KeywordLane(w)
  <2> DEFINE request == [session[w] EXCEPT !.stage = "ranked", !.keyword = LaneRows]
  <2>1. LaneRows = Whole(session[w].index) /\ session[w].index \in Runs
    BY <1>0, <1>2, LanesReadWholeRuns DEF KeywordLane, Pinning, Sound
  <2>2. LaneRows \in SUBSET (Runs \X Contents)
    BY <2>1, SnapshotAssumption DEF Whole
  <2>3. request \in Sessions
    BY <1>0, <2>2 DEF Sessions, Stages
  <2>4. Sound(request)
    BY <1>0, <1>2, <2>1, <2>3 DEF KeywordLane, Sound, Sessions, Pinning, InTransaction
  <2>5. session' = [session EXCEPT ![w] = request]
    BY <1>2 DEF KeywordLane
  <2> QED  BY <1>2, <2>3, <2>4, <2>5, RequestStep DEF KeywordLane
<1>3. CASE VectorLane(w)
  <2> DEFINE rows == {row \in LaneRows : row[1] \in Embedded}
             request == [session[w] EXCEPT !.stage = "scored", !.vector = rows]
  <2>1. LaneRows = Whole(session[w].index) /\ session[w].index \in Runs
    BY <1>0, <1>3, LanesReadWholeRuns DEF VectorLane, Pinning, Sound
  <2>2. rows = Scored(session[w].index)
    BY <2>1 DEF Whole, Scored
  <2>3. rows \in SUBSET (Runs \X Contents)
    BY <2>1, SnapshotAssumption DEF Whole
  <2>4. request \in Sessions
    BY <1>0, <2>3 DEF Sessions, Stages
  <2>5. Sound(request)
    BY <1>0, <1>3, <2>2, <2>4 DEF VectorLane, Sound, Sessions, Pinning, InTransaction
  <2>6. session' = [session EXCEPT ![w] = request]
    BY <1>3 DEF VectorLane
  <2> QED  BY <1>3, <2>4, <2>5, <2>6, RequestStep DEF VectorLane
<1>4. CASE EndRetrieval(w)
  <2> DEFINE request == [session[w] EXCEPT !.stage = "done", !.outcome = "answered"]
  <2>1. request \in Sessions
    BY <1>0 DEF Sessions, Stages
  <2>2. Sound(request)
    BY <1>0, <1>4, <2>1 DEF EndRetrieval, Sound, Sessions, Pinning, InTransaction
  <2>3. session' = [session EXCEPT ![w] = request] \/ Fail(w, "unavailable")
    BY <1>4 DEF EndRetrieval
  <2> QED  BY <1>4, <2>1, <2>2, <2>3, RequestStep, FailStep DEF EndRetrieval, Errors
<1> QED  BY <1>1, <1>2, <1>3, <1>4

(* A request begins, ends or breaks off. *)
LEMMA BoundaryStep ==
    ASSUME Inv, NEW w \in Searchers,
           \/ ServiceFault(w)
           \/ Return(w)
           \/ \E kind \in {"search", "ready"} : Receive(w, kind)
    PROVE  Inv'
<1>1. CASE ServiceFault(w)
  BY <1>1, FailStep DEF ServiceFault, Errors
<1>2. CASE Return(w)
  <2>1. NoRequest \in Sessions /\ Sound(NoRequest)
    BY DEF NoRequest, Sessions, Stages, Sound, Pinning, InTransaction
  <2> QED  BY <1>2, <2>1, RequestStep DEF Return
<1>3. ASSUME NEW kind \in {"search", "ready"}, Receive(w, kind)  PROVE Inv'
  <2> DEFINE request == [NoRequest EXCEPT !.stage = "received", !.kind = kind]
  <2>1. request \in Sessions
    BY DEF NoRequest, Sessions, Stages
  <2>2. Sound(request)
    BY DEF NoRequest, Sound, Pinning, InTransaction
  <2> QED  BY <1>3, <2>1, <2>2, RequestStep DEF Receive
<1> QED  BY <1>1, <1>2, <1>3

(* A step outside the requests keeps the invariant, if it leaves alone     *)
(* the client and the pointer and run that open requests hold.             *)
LEMMA OutsideStep ==
    ASSUME Inv, Promises!Inv', UNCHANGED session,
           switching' \in BOOLEAN, client' \in {"active", "revoked"}, expired' \in BOOLEAN,
           ClientReaders # {} => client' = client,
           SourceReaders # {} =>
               /\ switching' = switching
               /\ pointer'[Searched] = pointer[Searched]
               /\ status'[pointer[Searched]] = status[pointer[Searched]]
    PROVE  Inv'
<1>1. ASSUME NEW w \in Searchers  PROVE Sound(session[w])'
  <2>1. Sound(session[w]) /\ session'[w] = session[w]
    BY DEF Inv
  <2>2. session[w].stage \in InTransaction => client' = client
    BY DEF ClientReaders
  <2>3. session[w].stage \in Pinning => SourceReaders # {}
    BY DEF SourceReaders
  <2> QED  BY <2>1, <2>2, <2>3 DEF Sound, Whole, Scored
<1> QED  BY <1>1 DEF Inv

(* Activating or rolling back to a run of one source touches no other.     *)
LEMMA SwitchStaysInSource ==
    ASSUME Promises!Inv, NEW r \in Runs,
           Generations!Activate(r) \/ Generations!Rollback(r)
    PROVE  /\ \A s \in Sources \ {SourceOf[r]} : pointer'[s] = pointer[s]
           /\ \A q \in Runs : SourceOf[q] # SourceOf[r] => status'[q] = status[q]
<1>1. /\ status' = Promises!Succession(r)
      /\ pointer' = [pointer EXCEPT ![SourceOf[r]] = r]
  BY DEF Generations!Activate, Generations!Rollback, Generations!Succession,
         Promises!Succession
<1>2. Promises!TypeOK
  BY DEF Promises!Inv
<1>3. \A q \in Runs : SourceOf[q] # SourceOf[r] => Promises!Succession(r)[q] = status[q]
  BY <1>2, Promises!SuccessionStatus, SourceOfAssumption, SnapshotAssumption, NoRunAssumption
<1> QED  BY <1>1, <1>2, <1>3 DEF Promises!TypeOK

(* The lifecycle waits for the readers of the searched source. *)
LEMMA LifecycleStep ==
    ASSUME Inv, Lifecycle
    PROVE  Inv'
<1>1. CASE LockSource
  BY <1>1, OutsideStep, DatabaseKeepsPromises DEF LockSource, Inv, database
<1>2. CASE EndSwitch
  <2>1. Promises!Inv'
    BY <1>2, DatabaseKeepsPromises DEF EndSwitch, Inv, Generations!RunsOf
  <2>2. SourceReaders = {}
    BY <1>2 DEF EndSwitch, Inv, Sound, SourceReaders
  <2> QED  BY <1>2, <2>1, <2>2, OutsideStep DEF EndSwitch, Inv
<1>3. CASE Publish
  <2>1. PICK r \in Runs :
            \/ Generations!PublishReady(r) \/ Generations!PublishFailed(r)
            \/ SourceOf[r] # Searched
                /\ (Generations!Activate(r) \/ Generations!Rollback(r))
    BY <1>3 DEF Publish
  <2>2. Promises!Inv'
    BY <2>1, DatabaseKeepsPromises DEF Inv
  <2>3. ASSUME SourceReaders # {}
        PROVE  /\ pointer'[Searched] = pointer[Searched]
               /\ status'[pointer[Searched]] = status[pointer[Searched]]
    <3>1. /\ pointer[Searched] \in Runs
          /\ status[pointer[Searched]] = "active"
          /\ SourceOf[pointer[Searched]] = Searched
      BY <2>3, SearchedAssumption
         DEF SourceReaders, Inv, Sound, Pinning, Promises!Inv, Promises!PointerNamesActive
    <3>2. CASE Generations!PublishReady(r) \/ Generations!PublishFailed(r)
      BY <3>1, <3>2 DEF Generations!PublishReady, Generations!PublishFailed, Inv,
                        Promises!Inv, Promises!TypeOK
    <3>3. CASE SourceOf[r] # Searched
                /\ (Generations!Activate(r) \/ Generations!Rollback(r))
      BY <3>1, <3>3, SwitchStaysInSource, SearchedAssumption DEF Inv
    <3> QED  BY <2>1, <3>2, <3>3
  <2> QED  BY <1>3, <2>2, <2>3, OutsideStep DEF Publish, Inv
<1> QED  BY <1>1, <1>2, <1>3 DEF Lifecycle

(* So does a revocation, for the readers of the client; expiry is not seen *)
(* inside a transaction.                                                   *)
LEMMA AdministrationStep ==
    ASSUME Inv, Revoke \/ Expire
    PROVE  Inv'
BY OutsideStep, DatabaseKeepsPromises DEF Revoke, Expire, Inv, database

LEMMA NextPreservesInv == Inv /\ [Next]_vars => Inv'
<1> SUFFICES ASSUME Inv, [Next]_vars  PROVE Inv'
  OBVIOUS
<1>1. ASSUME NEW w \in Searchers, Serve(w)  PROVE Inv'
  BY <1>1, AccessStep, ActiveIndexStep, RetrievalStep, BoundaryStep DEF Serve
<1>2. ASSUME NEW w \in Searchers,
             ServiceFault(w) \/ \E kind \in {"search", "ready"} : Receive(w, kind)
      PROVE  Inv'
  BY <1>2, BoundaryStep
<1>3. CASE Lifecycle
  BY <1>3, LifecycleStep
<1>4. CASE Revoke \/ Expire
  BY <1>4, AdministrationStep
<1>5. CASE UNCHANGED vars
  BY <1>5, OutsideStep, DatabaseKeepsPromises DEF vars, database, Inv
<1> QED  BY <1>1, <1>2, <1>3, <1>4, <1>5 DEF Next

LEMMA InvariantHolds == Spec => []Inv
<1> QED  BY InitEstablishesInv, NextPreservesInv, PTL DEF Spec

(* What a request has read keeps its type: while it pins an index or reads *)
(* from one, that index is a run.                                          *)
THEOREM TypeCorrect == Spec => []TypeOK
<1> QED  BY InvariantHolds, InvImplies, PTL

(* What a request has checked stays true until its transaction ends: the   *)
(* row locks of has_source_grant_in_session and of the active index query  *)
(* are enough, whatever administrators and indexers do meanwhile.          *)
THEOREM OpenReadsAreProtected == Spec => []OpenReadsStayValid
<1> QED  BY InvariantHolds, InvImplies, PTL

(* An answer of SearchService.search is the whole of one generation: the   *)
(* two lanes of retrieve read every document of the run it names.          *)
THEOREM AnswersAreWhole == Spec => []AnswersAreWholeGenerations
<1> QED  BY InvariantHolds, InvImplies, PTL
===========================================================================
