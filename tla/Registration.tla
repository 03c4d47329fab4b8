--------------------------- MODULE Registration ---------------------------
(***************************************************************************)
(* Commands that register rows under unique names, side by side: an index  *)
(* command ensures its source profile and index configuration before it    *)
(* builds, an API process registers its search policy as it starts, an     *)
(* administrator creates a client with its grants, or revokes one.  Each   *)
(* is one PostgreSQL transaction at READ COMMITTED: an insertion waits for *)
(* an uncommitted row of the same name and then fails, or does nothing,    *)
(* when that row is committed.                                             *)
(*                                                                         *)
(* A row is recorded by its name, the command that wrote it and the        *)
(* attempt of that command; a grant is named <<key id, source key>>.       *)
(***************************************************************************)
EXTENDS Naturals, FiniteSets

CONSTANTS
    Commands,       \* processes, one command each
    Workloads,      \* what the commands may be asked, side by side
    Installed,      \* the names earlier commands and the migration may have stored
    SourceKeys,     \* of source profiles
    Patterns,       \* include and exclude patterns of a source profile
    Configs,        \* config hashes of index configurations
    Policies,       \* config hashes of search policies
    Readable,       \* the policies whose snapshot PostgreSQL gives back unchanged
    Keys,           \* key ids a random generator may draw
    MaxAttempts,    \* of create_client
    MaxFaults,      \* bound on lost connections
    Earlier,        \* whoever wrote the rows found at the start
    Unwritten       \* no patterns

Jobs ==
    [kind : {"index"}, source : SourceKeys, patterns : Patterns, config : Configs]
    \cup [kind : {"serve"}, policy : Policies]
    \cup [kind : {"client"}, grants : SUBSET SourceKeys]
    \cup [kind : {"revoke"}, key : Keys]

(* A source profile is never stored without a configuration; the tables    *)
(* have names of their own.                                                *)
RegistrationAssumption ==
    /\ SourceKeys \cap (Configs \cup Policies \cup Keys) = {}
    /\ Configs \cap (Policies \cup Keys) = {} /\ Policies \cap Keys = {}
    /\ (Keys \X SourceKeys) \cap (SourceKeys \cup Configs \cup Policies \cup Keys) = {}
    /\ Workloads \subseteq [Commands -> Jobs]
    /\ Installed \subseteq SUBSET (SourceKeys \cup Configs \cup Policies \cup Keys)
    /\ \A found \in Installed : found \cap SourceKeys # {} => found \cap Configs # {}
    /\ Readable \subseteq Policies
    /\ Keys # {} /\ MaxAttempts \in Nat \ {0} /\ MaxFaults \in Nat
    /\ Earlier \notin Commands /\ Unwritten \notin Patterns

VARIABLES
    job,        \* what each command is asked
    pc,         \* where it is
    attempt,    \* of create_client, from 1
    key,        \* the key id of that attempt
    pending,    \* rows inserted and not committed
    adopts,     \* patterns written and not committed
    result,     \* the rows a command has found or written, and goes on with
    rows,       \* committed rows
    patterns,   \* of each source profile, committed
    revoked,    \* keys of revoked clients, committed
    adopted,    \* the patterns of the last command that committed its configuration
    faults      \* commands that have lost their connection

registrationVars ==
    <<job, pc, attempt, key, pending, adopts, result, rows, patterns, revoked, adopted, faults>>

Ends == {"done", "failed", "unknown", "unindexed"}
Names == SourceKeys \cup Configs \cup Policies \cup Keys \cup (Keys \X SourceKeys)
Rows == [name : Names, by : Commands \cup {Earlier}, attempt : 1..MaxAttempts]

(* What the program holds, and what PostgreSQL holds. *)
RegistrationTypeOK ==
    /\ job \in [Commands -> Jobs]
    /\ pc \in [Commands -> Ends \cup {"start", "insert", "config", "store", "bound", "locked",
                                      "building", "save", "grants", "resolve", "commit"}]
    /\ attempt \in [Commands -> 1..MaxAttempts]
    /\ key \in [Commands -> Keys]
    /\ pending \in [Commands -> SUBSET Rows]
    /\ adopts \in [Commands -> Patterns \cup {Unwritten}]
    /\ result \in [Commands -> SUBSET Rows]
    /\ rows \subseteq Rows
    /\ patterns \in [SourceKeys -> Patterns \cup {Unwritten}]
    /\ revoked \subseteq Keys
    /\ adopted \in [SourceKeys -> Patterns \cup {Unwritten}]
    /\ faults \subseteq Commands

Row(p, n) == [name |-> n, by |-> p, attempt |-> attempt[p]]
Named(n, table) == {r \in table : r.name = n}

(* What a statement of p sees, and whether its insertion of n must wait. *)
Seen(p, n) == Named(n, rows \cup pending[p])
Waits(p, n) == \E q \in Commands \ {p} : Named(n, pending[q]) # {}

Is(p, kind, at) == job[p].kind = kind /\ pc[p] = at
Goto(p, at) == pc' = [pc EXCEPT ![p] = at]

(* An installation: some sources, configurations, policies, also those of *)
(* the migration, and clients, of earlier commands.                       *)
RegistrationInit ==
    /\ job \in Workloads
    /\ pc = [p \in Commands |-> "start"]
    /\ attempt = [p \in Commands |-> 1]
    /\ key = [p \in Commands |-> CHOOSE k \in Keys : TRUE]
    /\ pending = [p \in Commands |-> {}]
    /\ adopts = [p \in Commands |-> Unwritten]
    /\ result = [p \in Commands |-> {}]
    /\ \E found \in Installed :
         /\ rows = [name : found, by : {Earlier}, attempt : {1}]
         /\ patterns \in [SourceKeys -> Patterns \cup {Unwritten}]
         /\ \A s \in SourceKeys : patterns[s] = Unwritten <=> s \notin found
    /\ revoked = {}
    /\ adopted = patterns
    /\ faults = {}

---------------------------------------------------------------------------
(* Row locks on source profiles.  An index command has its own row FOR     *)
(* UPDATE from the SELECT, or from its insertion, to the commit; the       *)
(* foreign keys of grants and of a run being built take FOR KEY SHARE.     *)
Updating(s) == {p \in Commands : /\ job[p].kind = "index" /\ job[p].source = s
                                 /\ pc[p] \in {"config", "store", "commit"}}
Sharing(s) ==
    {p \in Commands : \/ Is(p, "index", "building") /\ job[p].source = s
                      \/ Is(p, "client", "commit") /\ s \in job[p].grants}

(* The transaction of p ends: with its rows, or without. *)
Commit(p, end) ==
    /\ rows' = rows \cup pending[p]
    /\ patterns' = IF adopts[p] = Unwritten THEN patterns
                   ELSE [patterns EXCEPT ![job[p].source] = adopts[p]]
    /\ adopted' = IF job[p].kind = "index"
                  THEN [adopted EXCEPT ![job[p].source] = job[p].patterns] ELSE adopted
    /\ pending' = [pending EXCEPT ![p] = {}]
    /\ adopts' = [adopts EXCEPT ![p] = Unwritten]
    /\ Goto(p, end)

Undo(p, end) ==
    /\ pending' = [pending EXCEPT ![p] = {}]
    /\ adopts' = [adopts EXCEPT ![p] = Unwritten]
    /\ result' = [result EXCEPT ![p] = {}]
    /\ Goto(p, end)
    /\ UNCHANGED <<rows, patterns, adopted>>

Insert(p, n, next) ==
    /\ pending' = [pending EXCEPT ![p] = @ \cup {Row(p, n)}]
    /\ result' = [result EXCEPT ![p] = @ \cup {Row(p, n)}]
    /\ Goto(p, next)
    /\ UNCHANGED <<rows, patterns, adopted>>

Find(p, n, next) ==
    /\ result' = [result EXCEPT ![p] = @ \cup Seen(p, n)]
    /\ Goto(p, next)
    /\ UNCHANGED <<pending, rows, patterns, adopted>>

Step(p, next) ==
    /\ Goto(p, next)
    /\ UNCHANGED <<pending, adopts, result, rows, patterns, adopted>>
---------------------------------------------------------------------------
(* PostgresIndexConfigurationRepository.ensure *)

(* Mutant: the profile is read without FOR UPDATE. *)
AdoptUnlocked(p) ==
    /\ Is(p, "index", "start")
    /\ LET s == job[p].source IN
         /\ Named(s, rows) # {}
         /\ adopts' = [adopts EXCEPT ![p] =
              IF patterns[s] = job[p].patterns THEN Unwritten ELSE job[p].patterns]
         /\ Find(p, s, "config")

(* The profile is found, locked, and takes the patterns of this command. *)
AdoptSource(p) ==
    /\ Is(p, "index", "start")
    /\ LET s == job[p].source IN
         /\ Named(s, rows) # {}
         /\ (Updating(s) \cup Sharing(s)) \ {p} = {}
         /\ adopts' = [adopts EXCEPT ![p] =
              IF patterns[s] = job[p].patterns THEN Unwritten ELSE job[p].patterns]
         /\ Find(p, s, "config")

(* The SELECT finds no profile: one that is not committed is not seen. *)
MissSource(p) ==
    /\ Is(p, "index", "start")
    /\ Named(job[p].source, rows) = {}
    /\ Step(p, "insert")

InsertSource(p) ==
    /\ Is(p, "index", "insert")
    /\ LET s == job[p].source IN
         /\ ~Waits(p, s)
         /\ \/ /\ Named(s, rows) = {}
               /\ adopts' = [adopts EXCEPT ![p] = job[p].patterns]
               /\ Insert(p, s, "config")
            \/ Named(s, rows) # {} /\ Undo(p, "failed")

FindConfig(p) ==
    /\ Is(p, "index", "config")
    /\ LET c == job[p].config IN
         \/ Named(c, rows) # {} /\ Find(p, c, "commit") /\ UNCHANGED adopts
         \/ Named(c, rows) = {} /\ Step(p, "store")

InsertConfig(p) ==
    /\ Is(p, "index", "store")
    /\ LET c == job[p].config IN
         /\ ~Waits(p, c)
         /\ \/ Named(c, rows) = {} /\ Insert(p, c, "commit") /\ UNCHANGED adopts
            \/ Named(c, rows) # {} /\ Undo(p, "failed")

CommitConfiguration(p) ==
    /\ Is(p, "index", "commit")
    /\ Commit(p, "bound")
    /\ UNCHANGED result

---------------------------------------------------------------------------
(* run_fixed_index after that: the build and the activation, as far as     *)
(* they lock the source profile.  One build of a source at a time.         *)
Building(s) == {p \in Commands : /\ job[p].kind = "index" /\ job[p].source = s
                                 /\ pc[p] \in {"locked", "building"}}

TryBuild(p) ==
    /\ Is(p, "index", "bound")
    /\ Step(p, IF Building(job[p].source) = {} THEN "locked" ELSE "unindexed")

CreateRun(p) ==
    /\ Is(p, "index", "locked")
    /\ Updating(job[p].source) = {}
    /\ Step(p, "building")

EndBuild(p) ==
    /\ Is(p, "index", "building")
    /\ \E end \in {"done", "unindexed"} : Step(p, end)

Index(p) ==
    \/ AdoptSource(p) \/ MissSource(p) \/ InsertSource(p) \/ FindConfig(p) \/ InsertConfig(p)
    \/ CommitConfiguration(p) \/ TryBuild(p) \/ CreateRun(p) \/ EndBuild(p)

---------------------------------------------------------------------------
(* resolve_runtime_search_policy *)

(* Mutant: the insertion has no ON CONFLICT. *)
RegisterOrFail(p) ==
    /\ Is(p, "serve", "start")
    /\ LET h == job[p].policy IN
         /\ ~Waits(p, h)
         /\ \/ Named(h, rows) = {} /\ Insert(p, h, "resolve") /\ UNCHANGED adopts
            \/ Named(h, rows) # {} /\ Undo(p, "failed")

(* INSERT ... ON CONFLICT DO NOTHING, then the row that is stored. *)
Register(p) ==
    /\ Is(p, "serve", "start")
    /\ LET h == job[p].policy IN
         /\ ~Waits(p, h)
         /\ \/ Named(h, rows) = {} /\ Insert(p, h, "resolve")
            \/ Named(h, rows) # {} /\ Find(p, h, "resolve")
    /\ UNCHANGED adopts

(* The stored snapshot must be readable, and the manifest that is resolved *)
(* the one that was registered, or nothing is served.  The code compares   *)
(* the two once it has committed; the commit changes neither of them.      *)
Resolve(p) ==
    /\ Is(p, "serve", "resolve")
    /\ LET h == job[p].policy IN
         \/ /\ h \in Readable /\ Seen(p, h) = result[p]
            /\ Step(p, "commit")
         \/ /\ h \notin Readable \/ Seen(p, h) # result[p]
            /\ Undo(p, "failed")

CommitPolicy(p) ==
    /\ Is(p, "serve", "commit")
    /\ Commit(p, "done")
    /\ UNCHANGED result

Serve(p) == Register(p) \/ Resolve(p) \/ CommitPolicy(p)

---------------------------------------------------------------------------
(* ClientAdminService.create_client and save_client *)

(* A key id and a secret are drawn; every source of the grants must exist. *)
ResolveGrants(p) ==
    /\ Is(p, "client", "start")
    /\ \E k \in Keys : key' = [key EXCEPT ![p] = k]
    /\ \/ (\A s \in job[p].grants : Named(s, rows) # {}) /\ Step(p, "save")
       \/ (\E s \in job[p].grants : Named(s, rows) = {}) /\ Undo(p, "failed")

(* Mutant: one attempt too many. *)
CollideOnceMore(p) ==
    IF attempt[p] <= MaxAttempts
    THEN attempt' = [attempt EXCEPT ![p] = @ + 1] /\ Undo(p, "start")
    ELSE Undo(p, "failed") /\ UNCHANGED attempt

(* A collision ends the transaction; the third one ends the command. *)
Collide(p) ==
    IF attempt[p] < MaxAttempts
    THEN attempt' = [attempt EXCEPT ![p] = @ + 1] /\ Undo(p, "start")
    ELSE Undo(p, "failed") /\ UNCHANGED attempt

(* Mutant: create_client tries until a key id is free. *)
InsertClientUntilFree(p) ==
    /\ Is(p, "client", "save")
    /\ ~Waits(p, key[p])
    /\ \/ Named(key[p], rows) = {} /\ Insert(p, key[p], "grants") /\ UNCHANGED adopts
       \/ Named(key[p], rows) # {} /\ Undo(p, "start")
    /\ UNCHANGED attempt

InsertClient(p) ==
    /\ Is(p, "client", "save")
    /\ ~Waits(p, key[p])
    /\ \/ Named(key[p], rows) = {} /\ Insert(p, key[p], "grants") /\ UNCHANGED <<attempt, adopts>>
       \/ Named(key[p], rows) # {} /\ Collide(p)

(* Their foreign keys wait for whoever has a source profile FOR UPDATE. *)
InsertGrants(p) ==
    /\ Is(p, "client", "grants")
    /\ \A s \in job[p].grants : Updating(s) = {}
    /\ pending' = [pending EXCEPT ![p] = @ \cup {Row(p, <<key[p], s>>) : s \in job[p].grants}]
    /\ Goto(p, "commit")
    /\ UNCHANGED <<adopts, result, rows, patterns, adopted>>

(* The token is shown once, after the commit. *)
CommitClient(p) ==
    /\ Is(p, "client", "commit")
    /\ Commit(p, "done")
    /\ UNCHANGED result

Create(p) ==
    \/ InsertClient(p) /\ UNCHANGED key
    \/ ResolveGrants(p) /\ UNCHANGED attempt
    \/ (InsertGrants(p) \/ CommitClient(p)) /\ UNCHANGED <<attempt, key>>

---------------------------------------------------------------------------
(* revoke_client: one UPDATE ... RETURNING, whatever the status was. *)
Revoke(p) ==
    /\ Is(p, "revoke", "start")
    /\ LET k == job[p].key IN
         \/ Named(k, rows) # {} /\ revoked' = revoked \cup {k} /\ Find(p, k, "done")
         \/ Named(k, rows) = {} /\ Step(p, "done") /\ UNCHANGED revoked

(* A connection is lost: the transaction rolls back and the command fails. *)
(* A build that is lost leaves the configuration.                          *)
LoseConnection(p) ==
    /\ pc[p] \notin Ends
    /\ \/ pc[p] \in {"bound", "locked", "building"} /\ Step(p, "unindexed")
       \/ pc[p] \notin {"bound", "locked", "building"} /\ Undo(p, "failed")

(* Mutant: create_client tries again after any error. *)
RetryAfterCommit(p) ==
    /\ pc[p] = "commit"
    /\ IF job[p].kind = "client" /\ attempt[p] < MaxAttempts
       THEN Commit(p, "start") /\ attempt' = [attempt EXCEPT ![p] = @ + 1]
       ELSE Commit(p, "unknown") /\ UNCHANGED attempt
    /\ UNCHANGED result

(* The answer to COMMIT is lost: the command fails all the same. *)
LoseAnswer(p) ==
    /\ pc[p] = "commit"
    /\ Commit(p, "unknown")
    /\ UNCHANGED <<attempt, result>>

Fault(p) ==
    /\ Cardinality(faults) < MaxFaults
    /\ faults' = faults \cup {p}
    /\ LoseAnswer(p) \/ (LoseConnection(p) /\ UNCHANGED attempt)
    /\ UNCHANGED <<job, key, revoked>>

Proceed(p) ==
    \/ /\ Index(p)
       /\ UNCHANGED <<job, attempt, key, revoked, faults>>
    \/ /\ Serve(p)
       /\ UNCHANGED <<job, attempt, key, revoked, faults>>
    \/ /\ Create(p)
       /\ UNCHANGED <<job, revoked, faults>>
    \/ /\ Revoke(p)
       /\ UNCHANGED <<job, attempt, key, adopts, faults>>

RegistrationNext == \E p \in Commands : Proceed(p) \/ Fault(p)

(* Every statement that can be executed is, sooner or later: connections   *)
(* are lost at will, and at most MaxFaults times.                          *)
Fairness == \A p \in Commands : WF_registrationVars(Proceed(p))

RegistrationSpec == RegistrationInit /\ [][RegistrationNext]_registrationVars /\ Fairness

---------------------------------------------------------------------------
(* What a command must have a row for before it goes on. *)
Asked(p) == CASE job[p].kind = "index" -> {job[p].source, job[p].config}
              [] job[p].kind = "serve" -> {job[p].policy}
              [] job[p].kind = "client" -> {key[p]}
              [] job[p].kind = "revoke" -> {job[p].key} \cap {r.name : r \in result[p]}

(* The coordinates a command goes on with when its transaction has ended,  *)
(* a source profile and a configuration, a policy, a token, are those of   *)
(* the one row stored under that name.  So processes that registered the   *)
(* same thing agree, and a token that was shown authenticates              *)
(* (repository_config.py: ensure; repository_policy.py: register;          *)
(* admin/service.py: create_client).                                       *)
ResultsAreStored ==
    \A p \in Commands :
        pc[p] \in {"bound", "locked", "building", "done"} =>
            /\ {r.name : r \in result[p]} = Asked(p)
            /\ \A r \in result[p] : Named(r.name, rows) = {r}

(* A command that is told it failed has left nothing, the attempts whose   *)
(* key id collided included, and none has left more than one client, be    *)
(* its answer lost or not (repository_auth.py: save_client).               *)
FailuresLeaveNothing ==
    \A p \in Commands :
        LET own == {r \in rows : r.by = p} IN
        /\ pc[p] = "failed" => own = {}
        /\ \A r, q \in own : r.name \in Keys /\ q.name \in Keys => r = q

(* A stored client has the grants it was asked with, all of them, and each *)
(* of a stored source (repository_auth.py: save_client).                   *)
GrantsAreWhole ==
    \A r \in rows :
        r.name \in Keys /\ r.by \in Commands =>
            \A s \in SourceKeys :
                ([r EXCEPT !.name = <<r.name, s>>] \in rows) <=> s \in job[r.by].grants

(* A command goes on with the one row that is stored under each name; one  *)
(* that failed has left nothing, none has left two clients, and a client   *)
(* has the grants it was asked with (repository_config.py: ensure;         *)
(* repository_policy.py: register; repository_auth.py: save_client).       *)
RegistrationsAreWhole == ResultsAreStored /\ FailuresLeaveNothing /\ GrantsAreWhole

(* The patterns of a source profile are those of the index command that    *)
(* committed its configuration last: no update is lost                     *)
(* (repository_config.py: ensure).                                         *)
LastAdopterWins == patterns = adopted

Written(n, by) == {r \in Named(n, rows) : r.by = by}

(* A command fails because its connection was lost or for a reason of its  *)
(* own: an API process never because others register its policy, an index  *)
(* command only when one of its rows was inserted by a concurrent one, a   *)
(* client only when a source is unknown or its key ids are taken.          *)
FailuresHaveCause ==
    \A p \in Commands :
        pc[p] = "failed" /\ p \notin faults =>
            CASE job[p].kind = "serve" -> job[p].policy \notin Readable
              [] job[p].kind = "index" -> \E r \in rows : /\ r.name \in {job[p].source, job[p].config}
                                                          /\ r.by \in Commands \ {p}
              [] job[p].kind = "client" -> \/ \E s \in job[p].grants : Written(s, Earlier) = {}
                                           \/ attempt[p] = MaxAttempts /\ Named(key[p], rows) # {}
              [] OTHER -> FALSE

(* Every command ends: they wait for each other's rows and names in no     *)
(* cycle (repository_config.py: ensure; repository_auth.py: save_client).  *)
CommandsEnd == \A p \in Commands : <>(pc[p] \in Ends)
===========================================================================
