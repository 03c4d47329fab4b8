--------------------------- MODULE SearchSession ---------------------------
(***************************************************************************)
(* Authenticated search and readiness requests of one API client against   *)
(* one source, while the index lifecycle moves the source's pointer and an *)
(* administrator revokes the client or its token expires.                  *)
(*                                                                         *)
(* A request runs up to four transactions.  The access service reads the   *)
(* client, then its grant.  The lookup finds the ACTIVE run before the     *)
(* query is embedded; the retrieval finds it again and reads the candidate *)
(* rows.  Lookup and retrieval take row locks FOR SHARE, kept to their     *)
(* end: on the client (a revocation waits), and on the source and its run  *)
(* (a lifecycle transaction, which holds the source FOR UPDATE, waits).    *)
(*                                                                         *)
(* The lifecycle is the one IndexGenerations promises: IndexTransactions   *)
(* implements it.                                                          *)
(***************************************************************************)

CONSTANTS
    Sources, Runs, Contents, SourceOf, Snapshot, NoRun,     \* IndexGenerations
    Searched,   \* the source the API serves ("omf")
    Compatible, \* runs whose embedding provider, model, revision, dimension
                \* and normalization are those of the running service
    Embedded,   \* runs with vectors under the service's own config hash
    Searchers   \* request threads of the API

ASSUME SourceOfAssumption == SourceOf \in [Runs -> Sources]
ASSUME SnapshotAssumption == Snapshot \in [Runs -> SUBSET Contents]
ASSUME NoRunAssumption == NoRun \notin Runs
ASSUME SearchedAssumption == Searched \in Sources
ASSUME EmbeddedAssumption == Embedded \subseteq Compatible

VARIABLES
    status, pointer, occurrences, contents,     \* as in IndexGenerations
    switching,  \* a lifecycle transaction holds the source row FOR UPDATE
    client,     \* api_clients.status
    expired,    \* api_clients.expires_at has passed
    session     \* the request each searcher serves

database == <<status, pointer, occurrences, contents>>
vars == <<database, switching, client, expired, session>>

Generations == INSTANCE IndexGenerations

(* Where a request stands.  Of a lookup or retrieval transaction:          *)
(*   granted: client row locked      reading: active run seen, not locked  *)
(*   pinned: source and run locked   ranked: keyword lane read             *)
(*   scored: vector lane read        looked up: between the two            *)
Stages == {"idle", "received", "authenticated", "authorized", "granted", "reading",
           "pinned", "ranked", "scored", "looked up", "done"}

InTransaction == {"granted", "reading", "pinned", "ranked", "scored"}
Pinning == {"pinned", "ranked", "scored"}

Errors == {"unauthenticated", "denied", "no active index", "unavailable"}

Sessions ==
    [stage : Stages,
     kind : {"search", "ready"},
     phase : {"lookup", "retrieval"},
     index : Runs \cup {NoRun},     \* active run found by this transaction
     active : Runs \cup {NoRun},    \* active run found by the lookup
     keyword : SUBSET (Runs \X Contents),   \* rows of the keyword lane
     vector : SUBSET (Runs \X Contents),    \* rows of the vector lane
     outcome : Errors \cup {"none", "answered", "ready"}]

NoRequest ==
    [stage |-> "idle", kind |-> "search", phase |-> "lookup", index |-> NoRun,
     active |-> NoRun, keyword |-> {}, vector |-> {}, outcome |-> "none"]

(* Every searcher serves one request; what it reads or has locked is a run. *)
TypeOK ==
    /\ Generations!TypeOK
    /\ switching \in BOOLEAN
    /\ client \in {"active", "revoked"}
    /\ expired \in BOOLEAN
    /\ session \in [Searchers -> Sessions]
    /\ \A w \in Searchers :
           session[w].stage \in Pinning \cup {"reading"} => session[w].index \in Runs

Init ==
    /\ Generations!Init
    /\ switching = FALSE
    /\ client = "active"
    /\ expired = FALSE
    /\ session = [w \in Searchers |-> NoRequest]

---------------------------------------------------------------------------
(* Mutant: a SELECT without its FOR SHARE. *)
NoReaders == {}

(* Requests that hold the client row, and those that hold the source row. *)
ClientReaders == {w \in Searchers : session[w].stage \in InTransaction}
SourceReaders == {w \in Searchers : session[w].stage \in Pinning}

(* A request ends with an error; past the access service, a readiness      *)
(* check reports any error as unavailable.                                 *)
Fail(w, error) ==
    session' = [session EXCEPT ![w] =
        [@ EXCEPT !.stage = "done",
                  !.outcome = IF /\ session[w].kind = "ready"
                                 /\ session[w].stage \notin {"received", "authenticated"}
                              THEN "unavailable" ELSE error]]

Advance(w, stage) == session' = [session EXCEPT ![w] = [@ EXCEPT !.stage = stage]]

Receive(w, kind) ==
    /\ session[w].stage = "idle"
    /\ session' = [session EXCEPT ![w] =
                      [NoRequest EXCEPT !.stage = "received", !.kind = kind]]
    /\ UNCHANGED <<database, switching, client, expired>>

(* ClientAccessService.authenticate: one read of the client. *)
Authenticate(w) ==
    /\ session[w].stage = "received"
    /\ IF client = "active" /\ ~ expired
       THEN Advance(w, "authenticated")
       ELSE Fail(w, "unauthenticated")
    /\ UNCHANGED <<database, switching, client, expired>>

(* has_source_grant, in a transaction of its own. *)
Precheck(w) ==
    /\ session[w].stage = "authenticated"
    /\ IF client = "active" /\ ~ expired
       THEN Advance(w, "authorized")
       ELSE Fail(w, "denied")
    /\ UNCHANGED <<database, switching, client, expired>>

(* Lookup and retrieval begin with the grant, checked again and locked.    *)
(* Expiry is compared with the time the transaction began, so nothing      *)
(* expires inside it.                                                      *)
Grant(w) ==
    /\ session[w].stage \in {"authorized", "looked up"}
    /\ IF client = "active" /\ ~ expired
       THEN Advance(w, "granted")
       ELSE Fail(w, "denied")
    /\ UNCHANGED <<database, switching, client, expired>>

(* Mutant: a source without an active run is not refused. *)
FindUnchecked(w) ==
    /\ session[w].stage = "granted"
    /\ session' = [session EXCEPT ![w] =
                      [@ EXCEPT !.stage = "reading", !.index = pointer[Searched]]]
    /\ UNCHANGED <<database, switching, client, expired>>

(* The active index query sees the committed pointer, before it locks.     *)
FindActive(w) ==
    /\ session[w].stage = "granted"
    /\ IF pointer[Searched] # NoRun
       THEN session' = [session EXCEPT ![w] =
                [@ EXCEPT !.stage = "reading", !.index = pointer[Searched]]]
       ELSE Fail(w, "no active index")
    /\ UNCHANGED <<database, switching, client, expired>>

(* Mutant: the query is repeated when its rows changed while it waited. *)
PinOrFindAgain(w) ==
    /\ session[w].stage = "reading"
    /\ ~ switching
    /\ Advance(w, IF pointer[Searched] = session[w].index THEN "pinned" ELSE "granted")
    /\ UNCHANGED <<database, switching, client, expired>>

(* It locks the source and run rows, after waiting for the transaction     *)
(* that holds the source.  If that one moved the pointer, the run row seen *)
(* no longer joins the new source row: the query returns nothing.          *)
PinActive(w) ==
    /\ session[w].stage = "reading"
    /\ ~ switching
    /\ CASE pointer[Searched] # session[w].index -> Fail(w, "no active index")
         [] pointer[Searched] = session[w].index /\ session[w].index \in Compatible ->
                Advance(w, "pinned")
         [] OTHER -> Fail(w, "unavailable")
    /\ UNCHANGED <<database, switching, client, expired>>

(* The lookup commits.  A search goes on to embed its query. *)
EndLookup(w) ==
    /\ session[w].stage = "pinned" /\ session[w].phase = "lookup"
    /\ session' = [session EXCEPT ![w] =
           IF session[w].kind = "ready"
           THEN [@ EXCEPT !.stage = "done", !.outcome = "ready"]
           ELSE [@ EXCEPT !.stage = "looked up", !.phase = "retrieval",
                          !.active = session[w].index]]
    /\ UNCHANGED <<database, switching, client, expired>>

(* The rows a lane reads: of the run the source names now, if the client   *)
(* may still see it.  Every stored chunk matches the query.                *)
LaneRows ==
    LET run == pointer[Searched] IN
    IF client = "active" /\ run # NoRun /\ status[run] = "active"
    THEN {run} \X (occurrences[run] \cap contents)
    ELSE {}

KeywordLane(w) ==
    /\ session[w].stage = "pinned" /\ session[w].phase = "retrieval"
    /\ session' = [session EXCEPT ![w] =
                      [@ EXCEPT !.stage = "ranked", !.keyword = LaneRows]]
    /\ UNCHANGED <<database, switching, client, expired>>

(* Only chunks with a vector under the service's config hash are scored.   *)
VectorLane(w) ==
    /\ session[w].stage = "ranked"
    /\ session' = [session EXCEPT ![w] =
                      [@ EXCEPT !.stage = "scored",
                                !.vector = {row \in LaneRows : row[1] \in Embedded}]]
    /\ UNCHANGED <<database, switching, client, expired>>

(* _candidate_rows refuses rows of another run, and the service a run      *)
(* other than the one it looked up.                                        *)
EndRetrieval(w) ==
    /\ session[w].stage = "scored"
    /\ IF /\ \A row \in session[w].keyword \cup session[w].vector :
                 row[1] = session[w].index
          /\ session[w].index = session[w].active
       THEN session' = [session EXCEPT ![w] =
                           [@ EXCEPT !.stage = "done", !.outcome = "answered"]]
       ELSE Fail(w, "unavailable")
    /\ UNCHANGED <<database, switching, client, expired>>

(* The policy is not resolved, the model does not answer, the database     *)
(* reports an error: everything unforeseen is unavailable.                 *)
ServiceFault(w) ==
    /\ session[w].stage \notin {"idle", "done"}
    /\ Fail(w, "unavailable")
    /\ UNCHANGED <<database, switching, client, expired>>

Return(w) ==
    /\ session[w].stage = "done"
    /\ session' = [session EXCEPT ![w] = NoRequest]
    /\ UNCHANGED <<database, switching, client, expired>>

---------------------------------------------------------------------------
(* A lifecycle transaction takes the source row FOR UPDATE once no search  *)
(* holds it, and keeps it to its end.                                      *)
LockSource ==
    /\ ~ switching
    /\ SourceReaders = {}
    /\ switching' = TRUE
    /\ UNCHANGED <<database, client, expired, session>>

EndSwitch ==
    /\ switching
    /\ \/ \E r \in Generations!RunsOf(Searched) :
              Generations!Activate(r) \/ Generations!Rollback(r)
       \/ UNCHANGED database
    /\ switching' = FALSE
    /\ UNCHANGED <<client, expired, session>>

(* Builds, and the lifecycle of the other sources. *)
Publish ==
    /\ \E r \in Runs :
        \/ /\ ~ (switching /\ SourceOf[r] = Searched)
           /\ Generations!PublishReady(r) \/ Generations!PublishFailed(r)
        \/ /\ SourceOf[r] # Searched
           /\ Generations!Activate(r) \/ Generations!Rollback(r)
    /\ UNCHANGED <<switching, client, expired, session>>

(* revoke_client waits for the readers of the client row.  It is idempotent. *)
Revoke ==
    /\ ClientReaders = {}
    /\ client' = "revoked"
    /\ UNCHANGED <<database, switching, expired, session>>

Expire ==
    /\ expired' = TRUE
    /\ UNCHANGED <<database, switching, client, session>>

---------------------------------------------------------------------------
Serve(w) ==
    \/ Authenticate(w)
    \/ Precheck(w)
    \/ Grant(w)
    \/ FindActive(w)
    \/ PinActive(w)
    \/ EndLookup(w)
    \/ KeywordLane(w)
    \/ VectorLane(w)
    \/ EndRetrieval(w)
    \/ Return(w)

Lifecycle == LockSource \/ EndSwitch \/ Publish

Next ==
    \/ \E w \in Searchers :
           \/ Serve(w)
           \/ ServiceFault(w)
           \/ \E kind \in {"search", "ready"} : Receive(w, kind)
    \/ Lifecycle
    \/ Revoke
    \/ Expire

(* A request thread runs on, and PostgreSQL wakes the waiters of a row in  *)
(* turn; a lifecycle transaction ends.                                     *)
Fairness == WF_vars(EndSwitch) /\ \A w \in Searchers : SF_vars(Serve(w))

Spec == Init /\ [][Next]_vars /\ Fairness

---------------------------------------------------------------------------
(* What an open transaction has checked stays true until it ends: no       *)
(* client is revoked while its request reads, and the run it found stays   *)
(* the ACTIVE one.                                                         *)
OpenReadsStayValid ==
    \A w \in Searchers :
        /\ session[w].stage \in InTransaction => client = "active"
        /\ session[w].stage \in Pinning =>
               pointer[Searched] = session[w].index /\ status[session[w].index] = "active"

(* An answer is the whole of one generation: both lanes read every         *)
(* document of the run that the answer names, and of no other, although    *)
(* the two lanes are two statements and the lifecycle collects garbage.    *)
AnswersAreWholeGenerations ==
    \A w \in Searchers : session[w].outcome = "answered" =>
        LET run == session[w].index IN
        /\ session[w].keyword = {run} \X Snapshot[run]
        /\ session[w].vector = IF run \in Embedded THEN {run} \X Snapshot[run] ELSE {}

(* 409 is answered only when the source has no active run. *)
ConflictMeansNoActiveRun ==
    [][\A w \in Searchers :
           session'[w].outcome = "no active index"
               /\ session[w].outcome # "no active index" =>
                   pointer[Searched] = NoRun]_vars

(* Every request is answered: it waits for a switch, never for ever. *)
RequestsEnd ==
    \A w \in Searchers : session[w].stage # "idle" ~> session[w].stage = "idle"
===========================================================================
