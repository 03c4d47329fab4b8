------------------------ MODULE Registration_proofs -----------------------
(***************************************************************************)
(* Index commands that ensure the same source profile, for any number of   *)
(* commands, sources and patterns: no update of its patterns is lost.      *)
(*                                                                         *)
(* The row lock is the argument, or the unique index while the row is not  *)
(* committed: one command at a time is between its statement on a source   *)
(* profile and its commit (Alone), so what it has read there stays true    *)
(* (Adopting).                                                             *)
(***************************************************************************)
EXTENDS Registration, TLAPS

Waiting == {"start", "insert", "config", "store", "bound", "locked", "building", "save",
            "grants", "resolve", "commit"}

(* An index command between its statement on the profile and its commit.   *)
Adopts(p) == job[p].kind = "index" /\ pc[p] \in {"config", "store", "commit"}

Alone ==
    \A p, q \in Commands :
        Adopts(p) /\ Adopts(q) /\ job[p].source = job[q].source => p = q

(* What such a command writes is what it was asked, or the profile has it. *)
Adopting ==
    \A p \in Commands :
        /\ job[p].kind # "index" => adopts[p] = Unwritten
        /\ Adopts(p) =>
              LET s == job[p].source IN
              /\ Named(s, rows \cup pending[p]) # {}
              /\ \/ adopts[p] = job[p].patterns
                 \/ adopts[p] = Unwritten /\ patterns[s] = job[p].patterns

Inv == RegistrationTypeOK /\ Alone /\ Adopting /\ LastAdopterWins

---------------------------------------------------------------------------
LEMMA IndexJobs ==
    ASSUME RegistrationAssumption, NEW j \in Jobs, j.kind = "index"
    PROVE  j.source \in SourceKeys /\ j.patterns \in Patterns /\ j.patterns # Unwritten
<1> QED  BY DEF Jobs, RegistrationAssumption

LEMMA RowTypes ==
    ASSUME RegistrationTypeOK, NEW p \in Commands
    PROVE  /\ \A n \in Names : Row(p, n) \in Rows
           /\ \A n : Seen(p, n) \subseteq Rows
<1>1. attempt[p] \in 1..MaxAttempts
  BY DEF RegistrationTypeOK
<1> QED  BY <1>1 DEF RegistrationTypeOK, Row, Rows, Seen, Named

(* What the ends of a transaction and its statements do to the types.      *)
LEMMA CommitTypes ==
    ASSUME RegistrationAssumption, RegistrationTypeOK, NEW p \in Commands,
           NEW end \in Waiting \cup Ends, Commit(p, end)
    PROVE  /\ pc' \in [Commands -> Waiting \cup Ends]
           /\ pending' \in [Commands -> SUBSET Rows] /\ rows' \subseteq Rows
           /\ adopts' \in [Commands -> Patterns \cup {Unwritten}]
           /\ patterns' \in [SourceKeys -> Patterns \cup {Unwritten}]
           /\ adopted' \in [SourceKeys -> Patterns \cup {Unwritten}]
<1>1. /\ job[p] \in Jobs /\ pc \in [Commands -> Waiting \cup Ends]
      /\ pending \in [Commands -> SUBSET Rows] /\ rows \subseteq Rows
      /\ adopts \in [Commands -> Patterns \cup {Unwritten}]
      /\ patterns \in [SourceKeys -> Patterns \cup {Unwritten}]
      /\ adopted \in [SourceKeys -> Patterns \cup {Unwritten}]
  BY DEF RegistrationTypeOK, Waiting
<1>2. patterns' \in [SourceKeys -> Patterns \cup {Unwritten}]
  BY <1>1 DEF Commit
<1>3. adopted' \in [SourceKeys -> Patterns \cup {Unwritten}]
  <2>1. CASE job[p].kind = "index"
    BY <1>1, <2>1, IndexJobs DEF Commit
  <2> QED  BY <1>1, <2>1 DEF Commit
<1> QED  BY <1>1, <1>2, <1>3 DEF Commit, Goto

LEMMA StatementTypes ==
    ASSUME RegistrationTypeOK, NEW p \in Commands, NEW next \in Waiting \cup Ends,
           \/ Undo(p, next)
           \/ Step(p, next)
           \/ \E n \in Names : Insert(p, n, next) \/ Find(p, n, next)
    PROVE  /\ pc' \in [Commands -> Waiting \cup Ends]
           /\ pending' \in [Commands -> SUBSET Rows] /\ result' \in [Commands -> SUBSET Rows]
           /\ UNCHANGED <<rows, patterns, adopted>>
<1>1. /\ pc \in [Commands -> Waiting \cup Ends]
      /\ pending \in [Commands -> SUBSET Rows] /\ result \in [Commands -> SUBSET Rows]
  BY DEF RegistrationTypeOK, Waiting
<1> HIDE DEF Rows, Waiting, Ends
<1>2. CASE Undo(p, next) \/ Step(p, next)
  BY <1>1, <1>2 DEF Undo, Step, Goto
<1>3. ASSUME NEW n \in Names, Insert(p, n, next)
      PROVE  /\ pc' \in [Commands -> Waiting \cup Ends]
             /\ pending' \in [Commands -> SUBSET Rows] /\ result' \in [Commands -> SUBSET Rows]
             /\ UNCHANGED <<rows, patterns, adopted>>
  <2>1. {Row(p, n)} \subseteq Rows
    BY RowTypes
  <2> QED  BY <1>1, <1>3, <2>1 DEF Insert, Goto
<1>4. ASSUME NEW n \in Names, Find(p, n, next)
      PROVE  /\ pc' \in [Commands -> Waiting \cup Ends]
             /\ pending' \in [Commands -> SUBSET Rows] /\ result' \in [Commands -> SUBSET Rows]
             /\ UNCHANGED <<rows, patterns, adopted>>
  <2>1. Seen(p, n) \subseteq Rows
    BY RowTypes
  <2> QED  BY <1>1, <1>4, <2>1 DEF Find, Goto
<1> QED  BY <1>2, <1>3, <1>4

---------------------------------------------------------------------------
(* Type correctness.                                                       *)
LEMMA InitTypes == ASSUME RegistrationAssumption, RegistrationInit PROVE RegistrationTypeOK
<1>1. /\ job \in [Commands -> Jobs] /\ MaxAttempts \in Nat \ {0} /\ Keys # {}
  BY DEF RegistrationInit, RegistrationAssumption
<1>2. rows \subseteq Rows
  <2>1. PICK found \in Installed : rows = [name : found, by : {Earlier}, attempt : {1}]
    BY DEF RegistrationInit
  <2>2. found \subseteq Names /\ 1 \in 1..MaxAttempts
    BY <1>1 DEF RegistrationAssumption, Names
  <2> QED  BY <2>1, <2>2 DEF Rows
<1>3. key \in [Commands -> Keys]
  BY <1>1 DEF RegistrationInit
<1>4. attempt \in [Commands -> 1..MaxAttempts]
  BY <1>1 DEF RegistrationInit
<1>5. patterns \in [SourceKeys -> Patterns \cup {Unwritten}] /\ adopted = patterns
  BY DEF RegistrationInit
<1> QED  BY <1>1, <1>2, <1>3, <1>4, <1>5 DEF RegistrationInit, RegistrationTypeOK

(* What of a step the types need to know.                                  *)
Typed ==
    /\ pc' \in [Commands -> Waiting \cup Ends]
    /\ pending' \in [Commands -> SUBSET Rows]
    /\ adopts' \in [Commands -> Patterns \cup {Unwritten}]
    /\ result' \in [Commands -> SUBSET Rows]
    /\ rows' \subseteq Rows
    /\ patterns' \in [SourceKeys -> Patterns \cup {Unwritten}]
    /\ adopted' \in [SourceKeys -> Patterns \cup {Unwritten}]

LEMMA TypesOfStatement ==
    ASSUME RegistrationTypeOK, NEW p \in Commands, NEW next \in Waiting \cup Ends,
           \/ Undo(p, next)
           \/ Step(p, next)
           \/ (\E n \in Names : Insert(p, n, next) \/ Find(p, n, next))
              /\ adopts' \in [Commands -> Patterns \cup {Unwritten}]
    PROVE  Typed
<1>1. /\ pc' \in [Commands -> Waiting \cup Ends]
      /\ pending' \in [Commands -> SUBSET Rows] /\ result' \in [Commands -> SUBSET Rows]
      /\ UNCHANGED <<rows, patterns, adopted>>
  BY StatementTypes
<1>2. adopts' \in [Commands -> Patterns \cup {Unwritten}]
  BY DEF RegistrationTypeOK, Undo, Step
<1> QED  BY <1>1, <1>2 DEF RegistrationTypeOK, Typed

LEMMA TypesOfCommit ==
    ASSUME RegistrationAssumption, RegistrationTypeOK, NEW p \in Commands,
           NEW end \in Waiting \cup Ends, Commit(p, end), UNCHANGED result
    PROVE  Typed
<1> QED  BY CommitTypes DEF RegistrationTypeOK, Typed

LEMMA NamesOfJobs ==
    ASSUME RegistrationAssumption, RegistrationTypeOK, NEW p \in Commands
    PROVE  /\ job[p].kind = "index" => /\ job[p].source \in SourceKeys \cap Names
                                       /\ job[p].config \in Names
                                       /\ job[p].patterns \in Patterns
           /\ job[p].kind = "serve" => job[p].policy \in Names
           /\ job[p].kind = "client" => job[p].grants \subseteq SourceKeys
           /\ job[p].kind = "revoke" => job[p].key \in Names \cap Keys
           /\ key[p] \in Names \cap Keys
<1>1. job[p] \in Jobs /\ key[p] \in Keys
  BY DEF RegistrationTypeOK
<1> QED  BY <1>1 DEF Jobs, Names

LEMMA IndexTypes ==
    ASSUME RegistrationAssumption, RegistrationTypeOK, NEW p \in Commands, Index(p)
    PROVE  Typed
<1> USE DEF Waiting, Ends, Is
<1>1. adopts \in [Commands -> Patterns \cup {Unwritten}]
  BY DEF RegistrationTypeOK
<1>2. CASE AdoptSource(p)
  BY <1>1, <1>2, NamesOfJobs, TypesOfStatement DEF AdoptSource
<1>3. CASE MissSource(p)
  BY <1>3, TypesOfStatement DEF MissSource
<1>4. CASE InsertSource(p)
  BY <1>1, <1>4, NamesOfJobs, TypesOfStatement DEF InsertSource
<1>5. CASE FindConfig(p)
  BY <1>1, <1>5, NamesOfJobs, TypesOfStatement DEF FindConfig
<1>6. CASE InsertConfig(p)
  BY <1>1, <1>6, NamesOfJobs, TypesOfStatement DEF InsertConfig
<1>7. CASE CommitConfiguration(p)
  BY <1>7, TypesOfCommit DEF CommitConfiguration
<1>8. CASE TryBuild(p)
  BY <1>8, TypesOfStatement DEF TryBuild
<1>9. CASE CreateRun(p) \/ EndBuild(p)
  BY <1>9, TypesOfStatement DEF CreateRun, EndBuild
<1> QED  BY <1>2, <1>3, <1>4, <1>5, <1>6, <1>7, <1>8, <1>9 DEF Index

LEMMA ServeTypes ==
    ASSUME RegistrationAssumption, RegistrationTypeOK, NEW p \in Commands, Serve(p)
    PROVE  Typed
<1> USE DEF Waiting, Ends, Is
<1>1. adopts \in [Commands -> Patterns \cup {Unwritten}]
  BY DEF RegistrationTypeOK
<1>2. CASE Register(p)
  BY <1>1, <1>2, NamesOfJobs, TypesOfStatement DEF Register
<1>3. CASE Resolve(p)
  BY <1>3, TypesOfStatement DEF Resolve
<1>4. CASE CommitPolicy(p)
  BY <1>4, TypesOfCommit DEF CommitPolicy
<1> QED  BY <1>2, <1>3, <1>4 DEF Serve

LEMMA CreateTypes ==
    ASSUME RegistrationAssumption, RegistrationTypeOK, NEW p \in Commands, Create(p)
    PROVE  Typed /\ key' \in [Commands -> Keys] /\ attempt' \in [Commands -> 1..MaxAttempts]
<1> USE DEF Waiting, Ends, Is
<1>1. /\ adopts \in [Commands -> Patterns \cup {Unwritten}] /\ key \in [Commands -> Keys]
      /\ attempt \in [Commands -> 1..MaxAttempts] /\ MaxAttempts \in Nat
  BY DEF RegistrationTypeOK, RegistrationAssumption
<1>2. CASE ResolveGrants(p) /\ UNCHANGED attempt
  <2>1. Typed
    BY <1>2, TypesOfStatement DEF ResolveGrants
  <2> QED  BY <1>1, <1>2, <2>1 DEF ResolveGrants
<1>3. CASE InsertClient(p) /\ UNCHANGED key
  <2>1. CASE Insert(p, key[p], "grants") /\ UNCHANGED <<attempt, adopts>>
    BY <1>1, <1>3, <2>1, NamesOfJobs, TypesOfStatement
  <2>2. CASE Collide(p)
    <3>1. Typed
      BY <2>2, TypesOfStatement DEF Collide
    <3>2. attempt' \in [Commands -> 1..MaxAttempts]
      BY <1>1, <2>2 DEF Collide
    <3> QED  BY <1>1, <1>3, <3>1, <3>2
  <2> QED  BY <1>3, <2>1, <2>2 DEF InsertClient
<1>4. CASE InsertGrants(p) /\ UNCHANGED <<attempt, key>>
  <2>1. {Row(p, <<key[p], s>>) : s \in job[p].grants} \subseteq Rows
    <3>1. \A s \in job[p].grants : <<key[p], s>> \in Names
      BY <1>1, <1>4, NamesOfJobs DEF Names, InsertGrants
    <3> QED  BY <3>1, RowTypes
  <2>2. /\ pending' = [pending EXCEPT ![p] = @ \cup {Row(p, <<key[p], s>>) : s \in job[p].grants}]
        /\ pc' = [pc EXCEPT ![p] = "commit"]
        /\ UNCHANGED <<adopts, result, rows, patterns, adopted>>
    BY <1>4 DEF InsertGrants, Goto
  <2> DEFINE granted == {Row(p, <<key[p], s>>) : s \in job[p].grants}
  <2> HIDE DEF granted, Rows
  <2>3. pending' \in [Commands -> SUBSET Rows]
    BY <2>1, <2>2 DEF RegistrationTypeOK, granted
  <2> QED  BY <1>1, <1>4, <2>2, <2>3 DEF RegistrationTypeOK, Typed
<1>5. CASE CommitClient(p) /\ UNCHANGED <<attempt, key>>
  BY <1>1, <1>5, TypesOfCommit DEF CommitClient
<1> QED  BY <1>2, <1>3, <1>4, <1>5 DEF Create

LEMMA NextTypes == ASSUME RegistrationAssumption, RegistrationTypeOK, [RegistrationNext]_registrationVars PROVE RegistrationTypeOK'
<1>1. /\ key \in [Commands -> Keys] /\ attempt \in [Commands -> 1..MaxAttempts]
      /\ adopts \in [Commands -> Patterns \cup {Unwritten}]
      /\ job \in [Commands -> Jobs] /\ revoked \subseteq Keys /\ faults \subseteq Commands
  BY DEF RegistrationTypeOK
<1>2. ASSUME NEW p \in Commands, Typed, UNCHANGED job,
             key' \in [Commands -> Keys], attempt' \in [Commands -> 1..MaxAttempts],
             revoked' \subseteq Keys, faults' \subseteq Commands
      PROVE  RegistrationTypeOK'
  BY <1>1, <1>2 DEF RegistrationTypeOK, Typed, Waiting
<1>3. ASSUME NEW p \in Commands, Proceed(p)  PROVE RegistrationTypeOK'
  <2>1. CASE (Index(p) \/ Serve(p)) /\ UNCHANGED <<job, attempt, key, revoked, faults>>
    BY <1>1, <1>2, <2>1, IndexTypes, ServeTypes
  <2>2. CASE Create(p) /\ UNCHANGED <<job, revoked, faults>>
    BY <1>1, <1>2, <2>2, CreateTypes
  <2>3. CASE Revoke(p) /\ UNCHANGED <<job, attempt, key, adopts, faults>>
    <3>1. Typed
      BY <1>1, <2>3, NamesOfJobs, TypesOfStatement DEF Revoke, Is, Waiting, Ends
    <3>2. revoked' \subseteq Keys
      BY <1>1, <2>3, NamesOfJobs DEF Revoke, Is
    <3> QED  BY <1>1, <1>2, <2>3, <3>1, <3>2
  <2> QED  BY <1>3, <2>1, <2>2, <2>3 DEF Proceed
<1>4. ASSUME NEW p \in Commands, Fault(p)  PROVE RegistrationTypeOK'
  <2>1. CASE LoseAnswer(p)
    <3>1. Typed
      BY <2>1, TypesOfCommit DEF LoseAnswer, Waiting, Ends
    <3> QED  BY <1>1, <1>2, <1>4, <2>1, <3>1 DEF Fault, LoseAnswer
  <2>2. CASE LoseConnection(p) /\ UNCHANGED attempt
    <3>1. Typed
      BY <2>2, TypesOfStatement DEF LoseConnection, Waiting, Ends
    <3> QED  BY <1>1, <1>2, <1>4, <2>2, <3>1 DEF Fault
  <2> QED  BY <1>4, <2>1, <2>2 DEF Fault
<1>5. CASE UNCHANGED registrationVars
  BY <1>5 DEF RegistrationTypeOK, registrationVars
<1> QED  BY <1>3, <1>4, <1>5 DEF RegistrationNext

---------------------------------------------------------------------------
(* The patterns of a source profile.                                       *)
LEMMA InitAdopting == ASSUME RegistrationInit PROVE Alone /\ Adopting /\ LastAdopterWins
<1> QED  BY DEF RegistrationInit, Alone, Adopting, Adopts, LastAdopterWins

(* A statement of p that commits nothing.  What it may disturb is what is  *)
(* said of p, and that p is alone.                                         *)
LEMMA StatementAdopts ==
    ASSUME Inv, NEW p \in Commands, UNCHANGED <<job, rows, patterns, adopted>>,
           \A q \in Commands : q # p => /\ pc'[q] = pc[q] /\ adopts'[q] = adopts[q]
                                        /\ pending'[q] = pending[q],
           job[p].kind # "index" => adopts'[p] = Unwritten,
           Adopts(p)' =>
               LET s == job[p].source IN
               /\ Named(s, rows \cup pending'[p]) # {}
               /\ \/ adopts'[p] = job[p].patterns
                  \/ adopts'[p] = Unwritten /\ patterns[s] = job[p].patterns
               /\ \A q \in Commands : q # p /\ Adopts(q) => job[q].source # s
    PROVE  Alone' /\ Adopting' /\ LastAdopterWins'
<1>1. \A q \in Commands : q # p => (Adopts(q)' <=> Adopts(q))
  BY DEF Adopts
<1>2. Alone'
  BY <1>1 DEF Inv, Alone
<1>3. Adopting'
  <2> SUFFICES ASSUME NEW q \in Commands
               PROVE  /\ job[q].kind # "index" => adopts'[q] = Unwritten
                      /\ Adopts(q)' =>
                           LET s == job[q].source IN
                           /\ Named(s, rows \cup pending'[q]) # {}
                           /\ \/ adopts'[q] = job[q].patterns
                              \/ adopts'[q] = Unwritten /\ patterns[s] = job[q].patterns
    BY DEF Adopting
  <2>1. CASE q = p
    BY <2>1
  <2>2. CASE q # p
    BY <1>1, <2>2 DEF Inv, Adopting
  <2> QED  BY <2>1, <2>2
<1> QED  BY <1>2, <1>3 DEF Inv, LastAdopterWins

(* A statement that moves p on, or ends its transaction without a commit.  *)
LEMMA OtherAdopts ==
    ASSUME Inv, NEW p \in Commands, NEW next, UNCHANGED job,
           \/ Undo(p, next) /\ next \notin {"config", "store", "commit"}
           \/ Step(p, next) /\ (job[p].kind = "index" /\ next \in {"config", "store", "commit"}
                                   => Adopts(p))
           \/ /\ \E n : Insert(p, n, next) \/ Find(p, n, next)
              /\ UNCHANGED adopts
              /\ job[p].kind = "index" => Adopts(p)
    PROVE  Alone' /\ Adopting' /\ LastAdopterWins'
<1>1. /\ pc \in [Commands -> Waiting \cup Ends] /\ pending \in [Commands -> SUBSET Rows]
      /\ adopts \in [Commands -> Patterns \cup {Unwritten}]
  BY DEF Inv, RegistrationTypeOK, Waiting
<1>2. UNCHANGED <<rows, patterns, adopted>>
  BY DEF Undo, Step, Insert, Find
<1>3. \A q \in Commands : q # p => /\ pc'[q] = pc[q] /\ adopts'[q] = adopts[q]
                                   /\ pending'[q] = pending[q]
  BY <1>1 DEF Undo, Step, Insert, Find, Goto
<1>4. CASE Undo(p, next) /\ next \notin {"config", "store", "commit"}
  <2>1. adopts'[p] = Unwritten /\ ~Adopts(p)'
    BY <1>1, <1>4 DEF Undo, Goto, Adopts
  <2> QED  BY <1>2, <1>3, <2>1, StatementAdopts
<1>5. ASSUME adopts' = adopts, pending[p] \subseteq pending'[p], Adopts(p)' => Adopts(p)
      PROVE  Alone' /\ Adopting' /\ LastAdopterWins'
  <2>1. /\ job[p].kind # "index" => adopts'[p] = Unwritten
        /\ Adopts(p) =>
              LET s == job[p].source IN
              /\ Named(s, rows \cup pending[p]) # {}
              /\ \/ adopts[p] = job[p].patterns
                 \/ adopts[p] = Unwritten /\ patterns[s] = job[p].patterns
              /\ \A q \in Commands : q # p /\ Adopts(q) => job[q].source # s
    BY <1>5 DEF Inv, Adopting, Alone
  <2>2. \A s : Named(s, rows \cup pending[p]) # {} => Named(s, rows \cup pending'[p]) # {}
    BY <1>5 DEF Named
  <2> QED  BY <1>2, <1>3, <1>5, <2>1, <2>2, StatementAdopts
<1>6. CASE Step(p, next) /\ (job[p].kind = "index" /\ next \in {"config", "store", "commit"}
                                => Adopts(p))
  <2>1. adopts' = adopts /\ pending' = pending /\ pc'[p] = next
    BY <1>1, <1>6 DEF Step, Goto
  <2> QED  BY <1>5, <1>6, <2>1 DEF Adopts
<1>7. CASE /\ \E n : Insert(p, n, next) \/ Find(p, n, next)
           /\ UNCHANGED adopts
           /\ job[p].kind = "index" => Adopts(p)
  <2>1. pending[p] \subseteq pending'[p]
    BY <1>1, <1>7 DEF Insert, Find
  <2> QED  BY <1>5, <1>7, <2>1 DEF Adopts
<1> QED  BY <1>4, <1>6, <1>7

(* A commit: the patterns it writes are those asked for, and whatever      *)
(* another command has read of another source stays true.                  *)
LEMMA CommitAdopts ==
    ASSUME RegistrationAssumption, Inv, NEW p \in Commands, pc[p] = "commit",
           NEW end \in Ends \cup {"bound", "start"}, Commit(p, end), UNCHANGED job
    PROVE  Alone' /\ Adopting' /\ LastAdopterWins'
<1>1. /\ pc \in [Commands -> Waiting \cup Ends] /\ pending \in [Commands -> SUBSET Rows]
      /\ adopts \in [Commands -> Patterns \cup {Unwritten}] /\ job[p] \in Jobs
      /\ patterns \in [SourceKeys -> Patterns \cup {Unwritten}]
      /\ adopted \in [SourceKeys -> Patterns \cup {Unwritten}]
  BY DEF Inv, RegistrationTypeOK, Waiting
<1>2. /\ adopts'[p] = Unwritten /\ pc'[p] = end /\ rows \subseteq rows'
      /\ \A q \in Commands : q # p => /\ pc'[q] = pc[q] /\ adopts'[q] = adopts[q]
                                      /\ pending'[q] = pending[q]
  BY <1>1 DEF Commit, Goto
<1>3. /\ ~Adopts(p)'
      /\ \A q \in Commands : q # p => (Adopts(q)' <=> Adopts(q))
  BY <1>2 DEF Adopts, Ends
<1>4. Alone'
  BY <1>3 DEF Inv, Alone
<1>5. CASE job[p].kind # "index"
  <2>1. patterns' = patterns /\ adopted' = adopted
    BY <1>5 DEF Inv, Adopting, Commit
  <2>2. \A s : \A q \in Commands : Named(s, rows \cup pending[q]) # {}
                                  => Named(s, rows' \cup pending[q]) # {}
    BY <1>2 DEF Named
  <2>3. Adopting'
    <3> SUFFICES ASSUME NEW q \in Commands
                 PROVE  /\ job[q].kind # "index" => adopts'[q] = Unwritten
                        /\ Adopts(q)' =>
                             LET s == job[q].source IN
                             /\ Named(s, rows' \cup pending'[q]) # {}
                             /\ \/ adopts'[q] = job[q].patterns
                                \/ adopts'[q] = Unwritten /\ patterns'[s] = job[q].patterns
      BY DEF Adopting
    <3>1. CASE q = p
      BY <1>2, <1>3, <3>1
    <3>2. CASE q # p
      BY <1>2, <1>3, <2>1, <2>2, <3>2 DEF Inv, Adopting
    <3> QED  BY <3>1, <3>2
  <2> QED  BY <1>4, <2>1, <2>3 DEF Inv, LastAdopterWins
<1>6. CASE job[p].kind = "index"
  <2> DEFINE s == job[p].source
  <2>1. /\ s \in SourceKeys /\ job[p].patterns \in Patterns /\ job[p].patterns # Unwritten
    BY <1>1, <1>6, IndexJobs
  <2>2. Adopts(p)
    BY <1>6 DEF Adopts
  <2>3. adopts[p] = job[p].patterns \/ (adopts[p] = Unwritten /\ patterns[s] = job[p].patterns)
    BY <2>2 DEF Inv, Adopting
  <2>4. patterns' = [patterns EXCEPT ![s] = job[p].patterns]
    <3>1. CASE adopts[p] = Unwritten
      <4>1. patterns' = patterns /\ patterns[s] = job[p].patterns
        BY <2>1, <2>3, <3>1 DEF Commit
      <4> HIDE DEF s
      <4> QED  BY <1>1, <2>1, <4>1
    <3>2. CASE adopts[p] # Unwritten
      BY <2>3, <3>2 DEF Commit
    <3> QED  BY <3>1, <3>2
  <2>5. adopted' = [adopted EXCEPT ![s] = job[p].patterns]
    BY <1>6 DEF Commit
  <2>6. \A q \in Commands : q # p /\ Adopts(q) => job[q].source # s
    BY <2>2 DEF Inv, Alone
  <2>7. \A t : \A q \in Commands : Named(t, rows \cup pending[q]) # {}
                                  => Named(t, rows' \cup pending[q]) # {}
    BY <1>2 DEF Named
  <2> HIDE DEF s
  <2>8. ASSUME NEW q \in Commands
        PROVE  /\ job[q].kind # "index" => adopts'[q] = Unwritten
               /\ Adopts(q)' =>
                    /\ Named(job[q].source, rows' \cup pending'[q]) # {}
                    /\ \/ adopts'[q] = job[q].patterns
                       \/ adopts'[q] = Unwritten /\ patterns'[job[q].source] = job[q].patterns
    <3>1. CASE q = p
      BY <1>2, <1>3, <3>1
    <3>2. CASE q # p
      <4>1. job[q].kind # "index" => adopts'[q] = Unwritten
        BY <1>2, <3>2 DEF Inv, Adopting
      <4>2. ASSUME Adopts(q)
            PROVE  /\ Named(job[q].source, rows' \cup pending'[q]) # {}
                   /\ \/ adopts'[q] = job[q].patterns
                      \/ adopts'[q] = Unwritten /\ patterns'[job[q].source] = job[q].patterns
        <5>1. /\ Named(job[q].source, rows \cup pending[q]) # {}
              /\ \/ adopts[q] = job[q].patterns
                 \/ adopts[q] = Unwritten /\ patterns[job[q].source] = job[q].patterns
          BY <4>2 DEF Inv, Adopting
        <5>2. patterns'[job[q].source] = patterns[job[q].source]
          <6>1. job[q] \in Jobs /\ job[q].kind = "index"
            BY <4>2 DEF Inv, RegistrationTypeOK, Adopts
          <6>2. job[q].source \in SourceKeys /\ job[q].source # s
            BY <2>6, <3>2, <4>2, <6>1, IndexJobs
          <6> QED  BY <1>1, <2>4, <6>2
        <5> QED  BY <1>2, <2>7, <3>2, <5>1, <5>2
      <4> QED  BY <1>3, <3>2, <4>1, <4>2
    <3> QED  BY <3>1, <3>2
  <2>9. Adopting'
    BY <2>8 DEF Adopting
  <2> QED  BY <1>4, <2>4, <2>5, <2>9 DEF Inv, LastAdopterWins
<1> QED  BY <1>5, <1>6

LEMMA IndexAdopts ==
    ASSUME RegistrationAssumption, Inv, NEW p \in Commands, Index(p), UNCHANGED job
    PROVE  Alone' /\ Adopting' /\ LastAdopterWins'
<1> DEFINE s == job[p].source
<1>1. /\ job[p].kind = "index" /\ RegistrationTypeOK
  BY DEF Index, Is, AdoptSource, MissSource, InsertSource, FindConfig, InsertConfig,
         CommitConfiguration, TryBuild, CreateRun, EndBuild, Inv
<1>2. /\ s \in SourceKeys /\ job[p].patterns \in Patterns /\ job[p].patterns # Unwritten
  BY <1>1, IndexJobs DEF RegistrationTypeOK
<1>3. /\ pc \in [Commands -> Waiting \cup Ends] /\ pending \in [Commands -> SUBSET Rows]
      /\ adopts \in [Commands -> Patterns \cup {Unwritten}]
  BY <1>1 DEF RegistrationTypeOK, Waiting
<1>4. CASE AdoptSource(p)
  <2>1. /\ Named(s, rows) # {} /\ (Updating(s) \cup Sharing(s)) \ {p} = {}
        /\ adopts' = [adopts EXCEPT ![p] =
              IF patterns[s] = job[p].patterns THEN Unwritten ELSE job[p].patterns]
        /\ Find(p, s, "config")
    BY <1>4 DEF AdoptSource
  <2>2. Named(s, rows \cup pending'[p]) # {}
    BY <2>1 DEF Named
  <2>3. \A q \in Commands : q # p /\ Adopts(q) => job[q].source # s
    BY <2>1 DEF Updating, Adopts
  <2>4. /\ UNCHANGED <<rows, patterns, adopted>>
        /\ \A q \in Commands : q # p => /\ pc'[q] = pc[q] /\ adopts'[q] = adopts[q]
                                        /\ pending'[q] = pending[q]
        /\ \/ adopts'[p] = job[p].patterns
           \/ adopts'[p] = Unwritten /\ patterns[s] = job[p].patterns
    BY <1>3, <2>1 DEF Find, Goto
  <2> QED  BY <1>1, <2>2, <2>3, <2>4, StatementAdopts
<1>5. CASE MissSource(p)
  BY <1>5, OtherAdopts DEF MissSource
<1>6. CASE InsertSource(p)
  <2>1. CASE Undo(p, "failed")
    BY <2>1, OtherAdopts
  <2>2. CASE /\ Named(s, rows) = {}
             /\ adopts' = [adopts EXCEPT ![p] = job[p].patterns]
             /\ Insert(p, s, "config")
    <3>1. /\ UNCHANGED <<rows, patterns, adopted>> /\ Row(p, s) \in pending'[p]
          /\ \A q \in Commands : q # p => /\ pc'[q] = pc[q] /\ adopts'[q] = adopts[q]
                                          /\ pending'[q] = pending[q]
          /\ adopts'[p] = job[p].patterns
      BY <1>3, <2>2 DEF Insert, Goto
    <3>2. Named(s, rows \cup pending'[p]) # {}
      BY <3>1 DEF Named, Row
    <3>3. \A q \in Commands : q # p /\ Adopts(q) => job[q].source # s
      <4>1. ~Waits(p, s)
        BY <1>6 DEF InsertSource
      <4>2. \A q \in Commands : Adopts(q) => Named(job[q].source, rows \cup pending[q]) # {}
        BY DEF Inv, Adopting
      <4> QED  BY <2>2, <4>1, <4>2 DEF Waits, Named
    <3> QED  BY <1>1, <3>1, <3>2, <3>3, StatementAdopts
  <2> QED  BY <1>6, <2>1, <2>2 DEF InsertSource
<1>7. CASE FindConfig(p) \/ InsertConfig(p)
  <2>1. Adopts(p)
    BY <1>7 DEF FindConfig, InsertConfig, Is, Adopts
  <2>2. \/ Step(p, "store") \/ Undo(p, "failed")
        \/ /\ Find(p, job[p].config, "commit") \/ Insert(p, job[p].config, "commit")
           /\ UNCHANGED adopts
    BY <1>7 DEF FindConfig, InsertConfig
  <2>3. CASE Step(p, "store") \/ Undo(p, "failed")
    BY <2>1, <2>3, OtherAdopts
  <2>4. CASE /\ Find(p, job[p].config, "commit") \/ Insert(p, job[p].config, "commit")
             /\ UNCHANGED adopts
    BY <2>1, <2>4, OtherAdopts
  <2> QED  BY <2>2, <2>3, <2>4
<1>8. CASE CommitConfiguration(p)
  BY <1>8, CommitAdopts DEF CommitConfiguration, Is
<1>9. CASE TryBuild(p) \/ CreateRun(p) \/ EndBuild(p)
  BY <1>9, OtherAdopts DEF TryBuild, CreateRun, EndBuild
<1> QED  BY <1>4, <1>5, <1>6, <1>7, <1>8, <1>9 DEF Index

LEMMA ServeAdopts ==
    ASSUME RegistrationAssumption, Inv, NEW p \in Commands, Serve(p), UNCHANGED job
    PROVE  Alone' /\ Adopting' /\ LastAdopterWins'
<1>1. job[p].kind = "serve"
  BY DEF Serve, Register, Resolve, CommitPolicy, Is
<1>2. CASE Register(p)
  BY <1>1, <1>2, OtherAdopts DEF Register
<1>3. CASE Resolve(p)
  BY <1>1, <1>3, OtherAdopts DEF Resolve
<1>4. CASE CommitPolicy(p)
  BY <1>4, CommitAdopts DEF CommitPolicy, Is, Ends
<1> QED  BY <1>2, <1>3, <1>4 DEF Serve

LEMMA CreateAdopts ==
    ASSUME RegistrationAssumption, Inv, NEW p \in Commands, Create(p), UNCHANGED job
    PROVE  Alone' /\ Adopting' /\ LastAdopterWins'
<1>1. job[p].kind = "client"
  BY DEF Create, ResolveGrants, InsertClient, InsertGrants, CommitClient, Is
<1>2. CASE ResolveGrants(p)
  BY <1>1, <1>2, OtherAdopts DEF ResolveGrants
<1>3. CASE InsertClient(p)
  <2>1. \/ Insert(p, key[p], "grants") /\ UNCHANGED adopts
        \/ Undo(p, "start")
        \/ Undo(p, "failed")
    BY <1>3 DEF InsertClient, Collide
  <2>2. CASE Insert(p, key[p], "grants") /\ UNCHANGED adopts
    BY <1>1, <2>2, OtherAdopts
  <2>3. CASE Undo(p, "start") \/ Undo(p, "failed")
    BY <2>3, OtherAdopts
  <2> QED  BY <2>1, <2>2, <2>3
<1>4. CASE InsertGrants(p)
  <2>1. /\ pending \in [Commands -> SUBSET Rows] /\ pc \in [Commands -> Waiting \cup Ends]
        /\ adopts[p] = Unwritten
    BY <1>1 DEF Inv, RegistrationTypeOK, Waiting, Adopting
  <2>2. /\ \A q \in Commands : q # p => pc'[q] = pc[q] /\ pending'[q] = pending[q]
        /\ UNCHANGED <<adopts, rows, patterns, adopted>>
    BY <1>4, <2>1 DEF InsertGrants, Goto
  <2> QED  BY <1>1, <2>1, <2>2, StatementAdopts DEF Adopts
<1>5. CASE CommitClient(p)
  BY <1>5, CommitAdopts DEF CommitClient, Is, Ends
<1> QED  BY <1>2, <1>3, <1>4, <1>5 DEF Create

LEMMA NextAdopts ==
    ASSUME RegistrationAssumption, Inv, [RegistrationNext]_registrationVars
    PROVE  Alone' /\ Adopting' /\ LastAdopterWins'
<1>1. ASSUME NEW p \in Commands, Proceed(p)
      PROVE  Alone' /\ Adopting' /\ LastAdopterWins'
  <2>1. CASE Revoke(p) /\ UNCHANGED <<job, attempt, key, adopts, faults>>
    <3>1. job[p].kind = "revoke"
      BY <2>1 DEF Revoke, Is
    <3> QED  BY <2>1, <3>1, OtherAdopts DEF Revoke
  <2> QED  BY <1>1, <2>1, IndexAdopts, ServeAdopts, CreateAdopts DEF Proceed
<1>2. ASSUME NEW p \in Commands, Fault(p)
      PROVE  Alone' /\ Adopting' /\ LastAdopterWins'
  <2>1. CASE LoseAnswer(p)
    BY <1>2, <2>1, CommitAdopts DEF Fault, LoseAnswer, Ends
  <2>2. CASE LoseConnection(p)
    BY <1>2, <2>2, OtherAdopts DEF Fault, LoseConnection
  <2> QED  BY <1>2, <2>1, <2>2 DEF Fault
<1>3. CASE UNCHANGED registrationVars
  BY <1>3 DEF registrationVars, Inv, Alone, Adopting, Adopts, LastAdopterWins
<1> QED  BY <1>1, <1>2, <1>3 DEF RegistrationNext

LEMMA InvariantHolds == ASSUME RegistrationAssumption PROVE RegistrationSpec => []Inv
<1>1. RegistrationInit => Inv
  BY InitTypes, InitAdopting DEF Inv
<1>2. Inv /\ [RegistrationNext]_registrationVars => Inv'
  BY NextTypes, NextAdopts DEF Inv
<1> QED  BY <1>1, <1>2, PTL DEF RegistrationSpec

---------------------------------------------------------------------------
(* What commands hold and what PostgreSQL holds keeps its type, through    *)
(* any collisions, lost connections and lost answers (Registration, all    *)
(* actions).                                                               *)
THEOREM TypeCorrect == ASSUME RegistrationAssumption PROVE RegistrationSpec => []RegistrationTypeOK
<1>1. Inv => RegistrationTypeOK
  BY DEF Inv
<1> QED  BY <1>1, InvariantHolds, PTL

(* No update of the patterns of a source profile is lost, whichever of any *)
(* number of index commands commits last, also while the profile itself is *)
(* being inserted (repository_config.py, ensure).                          *)
THEOREM NoUpdateIsLost == ASSUME RegistrationAssumption PROVE RegistrationSpec => []LastAdopterWins
<1>1. Inv => LastAdopterWins
  BY DEF Inv
<1> QED  BY <1>1, InvariantHolds, PTL

---------------------------------------------------------------------------
(***************************************************************************)
(* The rows that commands leave, for any number of them: each is left by a *)
(* command that committed (Provenance), a client with all its grants and   *)
(* at most once.                                                           *)
(*                                                                         *)
(* A step concerns the rows of the command that takes it: it inserts rows  *)
(* under its own name and commits or drops all of them.                    *)
(***************************************************************************)
(* Where a command can be when it has committed.                           *)
After == {"bound", "locked", "building", "done", "unknown", "unindexed"}

Of(p) == {r \in rows : r.by = p}
ClientRow(p) == Row(p, key[p])
GrantRows(p) == {Row(p, <<key[p], s>>) : s \in job[p].grants}

(* The rows of a client are those of the attempt at hand, as far as it is. *)
ClientIsWhole(p) ==
    /\ pc[p] \in {"start", "save", "grants", "commit", "done", "unknown", "failed"}
    /\ pc[p] \notin {"done", "unknown"} => Of(p) = {}
    /\ pc[p] \in {"start", "save"} => pending[p] = {}
    /\ pc[p] = "grants" => pending[p] = {ClientRow(p)}
    /\ pc[p] = "commit" => pending[p] = {ClientRow(p)} \cup GrantRows(p)
    /\ pc[p] \in {"done", "unknown"} => Of(p) = {ClientRow(p)} \cup GrantRows(p)

IsWhole(p) ==
    /\ \A r \in pending[p] : r.by = p
    /\ Of(p) # {} => pc[p] \in After
    /\ job[p].kind # "client" => \A r \in pending[p] \cup Of(p) : r.name \notin Keys
    /\ job[p].kind = "client" => ClientIsWhole(p)

Provenance == \A p \in Commands : IsWhole(p)

---------------------------------------------------------------------------
(* A step of p leaves the rows of the others alone.                        *)
LEMMA OthersStayWhole ==
    ASSUME RegistrationTypeOK, Provenance, NEW p \in Commands, NEW q \in Commands, q # p,
           UNCHANGED job,
           pc'[q] = pc[q], pending'[q] = pending[q], key'[q] = key[q], attempt'[q] = attempt[q],
           rows' = rows \/ rows' = rows \cup pending[p]
    PROVE  IsWhole(q)'
<1>1. IsWhole(q) /\ \A r \in pending[p] : r.by = p
  BY DEF Provenance, IsWhole
<1>2. Of(q)' = Of(q)
  BY <1>1 DEF Of
<1>3. ClientRow(q)' = ClientRow(q) /\ GrantRows(q)' = GrantRows(q)
  BY DEF ClientRow, GrantRows, Row
<1> QED  BY <1>1, <1>2, <1>3 DEF IsWhole, ClientIsWhole

(* A statement of a command that creates no client.                        *)
LEMMA StatementIsWhole ==
    ASSUME RegistrationTypeOK, NEW p \in Commands, IsWhole(p), UNCHANGED <<job, rows>>,
           job[p].kind # "client",
           \A r \in pending'[p] : r \in pending[p] \/ (r.by = p /\ r.name \notin Keys),
           pc[p] \in After => pc'[p] \in After
    PROVE  IsWhole(p)'
<1>1. Of(p)' = Of(p)
  BY DEF Of
<1> QED  BY <1>1 DEF IsWhole

LEMMA CommitIsWhole ==
    ASSUME RegistrationTypeOK, NEW p \in Commands, IsWhole(p), UNCHANGED <<job, key, attempt>>,
           pc[p] = "commit", NEW end, end \in After,
           job[p].kind = "client" => end \in {"done", "unknown"},
           Commit(p, end)
    PROVE  IsWhole(p)'
<1>1. /\ rows' = rows \cup pending[p] /\ pending'[p] = {} /\ pc'[p] = end
  BY DEF RegistrationTypeOK, Commit, Goto
<1>2. Of(p)' = Of(p) \cup pending[p]
  BY <1>1 DEF Of, IsWhole
<1>3. CASE job[p].kind # "client"
  BY <1>1, <1>2, <1>3 DEF IsWhole
<1>4. CASE job[p].kind = "client"
  <2>1. Of(p)' = {ClientRow(p)} \cup GrantRows(p)
    BY <1>2, <1>4 DEF IsWhole, ClientIsWhole
  <2>2. ClientRow(p)' = ClientRow(p) /\ GrantRows(p)' = GrantRows(p)
    BY DEF ClientRow, GrantRows, Row
  <2> QED  BY <1>1, <1>4, <2>1, <2>2 DEF IsWhole, ClientIsWhole
<1> QED  BY <1>3, <1>4

(* What the kinds of statements do to the rows.                            *)
LEMMA Effects ==
    ASSUME RegistrationTypeOK, NEW p \in Commands, NEW next,
           \/ Undo(p, next)
           \/ Step(p, next)
           \/ \E n : Insert(p, n, next) \/ Find(p, n, next)
    PROVE  /\ pc'[p] = next /\ rows' = rows
           /\ \A q \in Commands \ {p} : pc'[q] = pc[q] /\ pending'[q] = pending[q]
           /\ Undo(p, next) => pending'[p] = {}
           /\ Step(p, next) \/ (\E n : Find(p, n, next)) => pending'[p] = pending[p]
           /\ \A n : Insert(p, n, next) => pending'[p] = pending[p] \cup {Row(p, n)}
<1>1. pc = [q \in Commands |-> pc[q]] /\ pending = [q \in Commands |-> pending[q]]
  BY DEF RegistrationTypeOK
<1>2. pc'[p] = next /\ rows' = rows
  BY <1>1 DEF Undo, Step, Insert, Find, Goto
<1>3. \A q \in Commands \ {p} : pc'[q] = pc[q] /\ pending'[q] = pending[q]
  BY <1>1 DEF Undo, Step, Insert, Find, Goto
<1>4. Undo(p, next) => pending'[p] = {}
  BY <1>1 DEF Undo
<1>5. Step(p, next) \/ (\E n : Find(p, n, next)) => pending'[p] = pending[p]
  BY <1>1 DEF Step, Find
<1>6. \A n : Insert(p, n, next) => pending'[p] = pending[p] \cup {Row(p, n)}
  BY <1>1 DEF Insert
<1> QED  BY <1>2, <1>3, <1>4, <1>5, <1>6

LEMMA OtherStatementIsWhole ==
    ASSUME RegistrationTypeOK, NEW p \in Commands, IsWhole(p), NEW next, UNCHANGED job,
           job[p].kind # "client", pc[p] \in After => next \in After,
           \/ Undo(p, next)
           \/ Step(p, next)
           \/ \E n : Find(p, n, next) \/ (n \notin Keys /\ Insert(p, n, next))
    PROVE  IsWhole(p)'
<1>1. pc'[p] = next /\ rows' = rows
  BY Effects
<1>2. \A r \in pending'[p] : r \in pending[p] \/ (r.by = p /\ r.name \notin Keys)
  <2>1. CASE Undo(p, next)
    BY <2>1, Effects
  <2>2. CASE Step(p, next) \/ \E n : Find(p, n, next)
    BY <2>2, Effects
  <2>3. ASSUME NEW n, n \notin Keys, Insert(p, n, next)
        PROVE  \A r \in pending'[p] : r \in pending[p] \/ (r.by = p /\ r.name \notin Keys)
    <3>1. pending'[p] = pending[p] \cup {Row(p, n)}
      BY <2>3, Effects
    <3> QED  BY <2>3, <3>1 DEF Row
  <2> QED  BY <2>1, <2>2, <2>3
<1> QED  BY <1>1, <1>2, StatementIsWhole

LEMMA OthersAtCommit ==
    ASSUME RegistrationTypeOK, NEW p \in Commands, NEW end, Commit(p, end)
    PROVE  /\ rows' = rows \cup pending[p]
           /\ \A q \in Commands \ {p} : pc'[q] = pc[q] /\ pending'[q] = pending[q]
<1> QED  BY DEF RegistrationTypeOK, Commit, Goto

LEMMA IndexIsWhole ==
    ASSUME RegistrationAssumption, RegistrationTypeOK, Provenance, NEW p \in Commands, Index(p),
           UNCHANGED <<job, attempt, key>>
    PROVE  Provenance'
<1> DEFINE Calm == \A q \in Commands \ {p} : pc'[q] = pc[q] /\ pending'[q] = pending[q]
<1>1. job[p].kind = "index" /\ IsWhole(p)
  BY DEF Index, AdoptSource, MissSource, InsertSource, FindConfig, InsertConfig,
         CommitConfiguration, TryBuild, CreateRun, EndBuild, Is, Provenance
<1>2. job[p].source \notin Keys /\ job[p].config \notin Keys
  BY <1>1 DEF RegistrationAssumption, RegistrationTypeOK, Jobs
<1>3. ASSUME NEW next, pc[p] \in After => next \in After,
             \/ Undo(p, next)
             \/ Step(p, next)
             \/ \E n : Find(p, n, next) \/ (n \notin Keys /\ Insert(p, n, next))
      PROVE  IsWhole(p)' /\ Calm /\ rows' = rows
  <2>1. IsWhole(p)'
    BY <1>1, <1>3, OtherStatementIsWhole
  <2> QED  BY <1>3, <2>1, Effects
<1>4. CASE AdoptSource(p)
  <2>1. Find(p, job[p].source, "config") /\ pc[p] \notin After
    BY <1>4 DEF AdoptSource, Is, After
  <2> QED  BY <1>3, <2>1, OthersStayWhole DEF Provenance
<1>5. CASE MissSource(p)
  <2>1. Step(p, "insert") /\ pc[p] \notin After
    BY <1>5 DEF MissSource, Is, After
  <2> QED  BY <1>3, <2>1, OthersStayWhole DEF Provenance
<1>6. CASE InsertSource(p)
  <2>1. /\ Insert(p, job[p].source, "config") \/ Undo(p, "failed")
        /\ pc[p] \notin After
    BY <1>6 DEF InsertSource, Is, After
  <2> QED  BY <1>2, <1>3, <2>1, OthersStayWhole DEF Provenance
<1>7. CASE FindConfig(p)
  <2>1. Find(p, job[p].config, "commit") \/ Step(p, "store")
    BY <1>7 DEF FindConfig
  <2>2. pc[p] \notin After
    BY <1>7 DEF FindConfig, Is, After
  <2> QED  BY <1>3, <2>1, <2>2, OthersStayWhole DEF Provenance
<1>8. CASE InsertConfig(p)
  <2>1. Insert(p, job[p].config, "commit") \/ Undo(p, "failed")
    BY <1>8 DEF InsertConfig
  <2>2. pc[p] \notin After
    BY <1>8 DEF InsertConfig, Is, After
  <2> QED  BY <1>2, <1>3, <2>1, <2>2, OthersStayWhole DEF Provenance
<1>9. CASE CommitConfiguration(p)
  <2>1. Commit(p, "bound") /\ pc[p] = "commit"
    BY <1>9 DEF CommitConfiguration, Is
  <2>2. IsWhole(p)'
    BY <1>1, <2>1, CommitIsWhole DEF After
  <2> QED  BY <2>1, <2>2, OthersAtCommit, OthersStayWhole DEF Provenance
<1>10. CASE TryBuild(p) \/ CreateRun(p) \/ EndBuild(p)
  <2>1. PICK next \in After : Step(p, next)
    BY <1>10 DEF TryBuild, CreateRun, EndBuild, After
  <2> QED  BY <1>3, <2>1, OthersStayWhole DEF Provenance
<1> QED  BY <1>4, <1>5, <1>6, <1>7, <1>8, <1>9, <1>10 DEF Index

LEMMA ServeIsWhole ==
    ASSUME RegistrationAssumption, RegistrationTypeOK, Provenance, NEW p \in Commands, Serve(p),
           UNCHANGED <<job, attempt, key>>
    PROVE  Provenance'
<1>1. job[p].kind = "serve" /\ IsWhole(p)
  BY DEF Serve, Register, Resolve, CommitPolicy, Is, Provenance
<1>2. job[p].policy \notin Keys
  BY <1>1 DEF RegistrationAssumption, RegistrationTypeOK, Jobs
<1>3. CASE Register(p) \/ Resolve(p)
  <2>1. /\ pc[p] \notin After
        /\ \E next : \/ Undo(p, next)
                     \/ Step(p, next)
                     \/ Find(p, job[p].policy, next)
                     \/ Insert(p, job[p].policy, next)
    BY <1>3 DEF Register, Resolve, Is, After
  <2>2. PICK next : \/ Undo(p, next)
                    \/ Step(p, next)
                    \/ Find(p, job[p].policy, next)
                    \/ Insert(p, job[p].policy, next)
    BY <2>1
  <2>3. IsWhole(p)'
    BY <1>1, <1>2, <2>1, <2>2, OtherStatementIsWhole
  <2>4. /\ rows' = rows
        /\ \A q \in Commands \ {p} : pc'[q] = pc[q] /\ pending'[q] = pending[q]
    BY <2>2, Effects
  <2> QED  BY <2>3, <2>4, OthersStayWhole DEF Provenance
<1>4. CASE CommitPolicy(p)
  <2>1. Commit(p, "done") /\ pc[p] = "commit"
    BY <1>4 DEF CommitPolicy, Is
  <2>2. IsWhole(p)'
    BY <1>1, <2>1, CommitIsWhole DEF After
  <2> QED  BY <2>1, <2>2, OthersAtCommit, OthersStayWhole DEF Provenance
<1> QED  BY <1>3, <1>4 DEF Serve

(* An attempt that ends leaves nothing; the key it drew may be replaced.   *)
LEMMA DroppedIsWhole ==
    ASSUME RegistrationTypeOK, NEW p \in Commands, IsWhole(p), job[p].kind = "client", UNCHANGED job,
           pc[p] \notin After, NEW next \in {"start", "failed"}, Undo(p, next)
    PROVE  IsWhole(p)'
<1>1. pc'[p] = next /\ rows' = rows /\ pending'[p] = {}
  BY Effects
<1>2. Of(p)' = {}
  BY <1>1 DEF Of, IsWhole
<1> QED  BY <1>1, <1>2 DEF IsWhole, ClientIsWhole

LEMMA CreateIsWhole ==
    ASSUME RegistrationAssumption, RegistrationTypeOK, Provenance, NEW p \in Commands, Create(p),
           UNCHANGED job
    PROVE  Provenance'
<1>1. job[p].kind = "client" /\ IsWhole(p) /\ ClientIsWhole(p) /\ key[p] \in Keys
  BY DEF Create, ResolveGrants, InsertClient, InsertGrants, CommitClient, Is, Provenance,
         IsWhole, RegistrationTypeOK
<1>2. \A q \in Commands \ {p} : key'[q] = key[q] /\ attempt'[q] = attempt[q]
  BY DEF Create, ResolveGrants, InsertClient, Collide, RegistrationTypeOK
<1>3. ASSUME NEW next, Undo(p, next) \/ Step(p, next) \/ \E n : Insert(p, n, next)
      PROVE  /\ rows' = rows /\ pc'[p] = next
             /\ \A q \in Commands \ {p} : pc'[q] = pc[q] /\ pending'[q] = pending[q]
  BY <1>3, Effects
<1>4. CASE ResolveGrants(p) /\ UNCHANGED attempt
  <2>1. pc[p] = "start" /\ (Step(p, "save") \/ Undo(p, "failed"))
    BY <1>4 DEF ResolveGrants, Is
  <2>2. CASE Step(p, "save")
    <3>1. pc'[p] = "save" /\ rows' = rows /\ pending'[p] = pending[p]
      BY <2>2, Effects
    <3>2. Of(p)' = {} /\ pending'[p] = {}
      BY <1>1, <2>1, <3>1 DEF Of, ClientIsWhole
    <3>3. IsWhole(p)'
      BY <1>1, <3>1, <3>2 DEF IsWhole, ClientIsWhole
    <3> QED  BY <1>2, <1>3, <2>2, <3>3, OthersStayWhole DEF Provenance
  <2>3. CASE Undo(p, "failed")
    <3>1. IsWhole(p)'
      BY <1>1, <2>1, <2>3, DroppedIsWhole DEF After
    <3> QED  BY <1>2, <1>3, <2>3, <3>1, OthersStayWhole DEF Provenance
  <2> QED  BY <2>1, <2>2, <2>3
<1>5. CASE InsertClient(p) /\ UNCHANGED key
  <2>1. /\ pc[p] = "save"
        /\ \/ Insert(p, key[p], "grants") /\ UNCHANGED attempt
           \/ \E next \in {"start", "failed"} : Undo(p, next)
    BY <1>5 DEF InsertClient, Collide, Is
  <2>2. CASE Insert(p, key[p], "grants") /\ UNCHANGED attempt
    <3>1. pc'[p] = "grants" /\ rows' = rows /\ pending'[p] = pending[p] \cup {ClientRow(p)}
      BY <2>2, Effects DEF ClientRow
    <3>2. Of(p)' = {} /\ pending'[p] = {ClientRow(p)} /\ ClientRow(p)' = ClientRow(p)
      BY <1>1, <1>5, <2>1, <2>2, <3>1 DEF Of, ClientIsWhole, ClientRow, Row
    <3>3. ClientRow(p).by = p
      BY DEF ClientRow, Row
    <3>4. IsWhole(p)'
      BY <1>1, <3>1, <3>2, <3>3 DEF IsWhole, ClientIsWhole
    <3> QED  BY <1>2, <1>3, <2>2, <3>4, OthersStayWhole DEF Provenance
  <2>3. ASSUME NEW next \in {"start", "failed"}, Undo(p, next)  PROVE Provenance'
    <3>1. IsWhole(p)'
      BY <1>1, <2>1, <2>3, DroppedIsWhole DEF After
    <3> QED  BY <1>2, <1>3, <2>3, <3>1, OthersStayWhole DEF Provenance
  <2> QED  BY <2>1, <2>2, <2>3
<1>6. CASE InsertGrants(p) /\ UNCHANGED <<attempt, key>>
  <2>1. /\ pc[p] = "grants" /\ pc' = [pc EXCEPT ![p] = "commit"] /\ rows' = rows
        /\ pending' = [pending EXCEPT ![p] = @ \cup GrantRows(p)]
    BY <1>6 DEF InsertGrants, Is, Goto, GrantRows
  <2> HIDE DEF GrantRows
  <2>2. /\ pc'[p] = "commit" /\ pending'[p] = {ClientRow(p)} \cup GrantRows(p)
        /\ \A q \in Commands \ {p} : pc'[q] = pc[q] /\ pending'[q] = pending[q]
    BY <1>1, <2>1 DEF RegistrationTypeOK, ClientIsWhole
  <2>3. ClientRow(p)' = ClientRow(p) /\ GrantRows(p)' = GrantRows(p)
    BY <1>6 DEF ClientRow, GrantRows, Row
  <2>4. Of(p)' = {}
    BY <1>1, <2>1 DEF Of, ClientIsWhole
  <2>5. \A r \in {ClientRow(p)} \cup GrantRows(p) : r.by = p
    BY DEF ClientRow, GrantRows, Row
  <2>6. IsWhole(p)'
    BY <1>1, <2>2, <2>3, <2>4, <2>5 DEF IsWhole, ClientIsWhole
  <2> QED  BY <1>2, <2>1, <2>2, <2>6, OthersStayWhole DEF Provenance
<1>7. CASE CommitClient(p) /\ UNCHANGED <<attempt, key>>
  <2>1. Commit(p, "done") /\ pc[p] = "commit"
    BY <1>7 DEF CommitClient, Is
  <2>2. IsWhole(p)'
    BY <1>1, <1>7, <2>1, CommitIsWhole DEF After
  <2> QED  BY <1>2, <2>1, <2>2, OthersAtCommit, OthersStayWhole DEF Provenance
<1> QED  BY <1>4, <1>5, <1>6, <1>7 DEF Create

LEMMA FaultIsWhole ==
    ASSUME RegistrationAssumption, RegistrationTypeOK, Provenance, NEW p \in Commands, Fault(p)
    PROVE  Provenance'
<1>1. UNCHANGED <<job, key, attempt>> /\ IsWhole(p)
  BY DEF Fault, LoseAnswer, Provenance
<1>2. CASE LoseAnswer(p)
  <2>1. Commit(p, "unknown") /\ pc[p] = "commit"
    BY <1>2 DEF LoseAnswer
  <2>2. IsWhole(p)'
    BY <1>1, <2>1, CommitIsWhole DEF After
  <2> QED  BY <1>1, <2>1, <2>2, OthersAtCommit, OthersStayWhole DEF Provenance
<1>3. CASE LoseConnection(p)
  <2>1. \/ pc[p] \in {"bound", "locked", "building"} /\ Step(p, "unindexed")
        \/ pc[p] \notin After /\ Undo(p, "failed")
    BY <1>3 DEF LoseConnection, After, Ends
  <2>2. CASE pc[p] \in {"bound", "locked", "building"} /\ Step(p, "unindexed")
    <3>1. job[p].kind # "client"
      BY <1>1, <2>2 DEF IsWhole, ClientIsWhole
    <3>2. IsWhole(p)'
      BY <1>1, <2>2, <3>1, OtherStatementIsWhole DEF After
    <3> QED  BY <1>1, <2>2, <3>2, Effects, OthersStayWhole DEF Provenance
  <2>3. CASE pc[p] \notin After /\ Undo(p, "failed")
    <3>1. IsWhole(p)'
      BY <1>1, <2>3, OtherStatementIsWhole, DroppedIsWhole
    <3> QED  BY <1>1, <2>3, <3>1, Effects, OthersStayWhole DEF Provenance
  <2> QED  BY <2>1, <2>2, <2>3
<1> QED  BY <1>2, <1>3 DEF Fault

LEMMA NextIsWhole ==
    ASSUME RegistrationAssumption, RegistrationTypeOK, Provenance, [RegistrationNext]_registrationVars
    PROVE  Provenance'
<1>1. ASSUME NEW p \in Commands, Proceed(p)  PROVE Provenance'
  <2>1. CASE Revoke(p) /\ UNCHANGED <<job, attempt, key, adopts, faults>>
    <3>1. /\ job[p].kind = "revoke" /\ IsWhole(p)
          /\ Step(p, "done") \/ Find(p, job[p].key, "done")
      BY <2>1 DEF Revoke, Is, Provenance
    <3>2. IsWhole(p)'
      BY <2>1, <3>1, OtherStatementIsWhole DEF After
    <3> QED  BY <2>1, <3>1, <3>2, Effects, OthersStayWhole DEF Provenance
  <2> QED  BY <1>1, <2>1, IndexIsWhole, ServeIsWhole, CreateIsWhole DEF Proceed
<1>2. ASSUME NEW p \in Commands, Fault(p)  PROVE Provenance'
  BY <1>2, FaultIsWhole
<1>3. CASE UNCHANGED registrationVars
  BY <1>3 DEF registrationVars, Provenance, IsWhole, ClientIsWhole, Of, ClientRow, GrantRows, Row
<1> QED  BY <1>1, <1>2, <1>3 DEF RegistrationNext

LEMMA InitIsWhole == ASSUME RegistrationAssumption, RegistrationInit PROVE Provenance
<1>1. \A r \in rows : r.by = Earlier
  BY DEF RegistrationInit
<1>2. \A p \in Commands : Of(p) = {} /\ pending[p] = {} /\ pc[p] = "start"
  BY <1>1 DEF RegistrationInit, Of, RegistrationAssumption
<1> QED  BY <1>2 DEF Provenance, IsWhole, ClientIsWhole

LEMMA ProvenanceHolds ==
    ASSUME RegistrationAssumption PROVE RegistrationSpec => [](RegistrationTypeOK /\ Provenance)
<1>1. RegistrationInit => RegistrationTypeOK /\ Provenance
  BY InitTypes, InitIsWhole
<1>2. RegistrationTypeOK /\ Provenance /\ [RegistrationNext]_registrationVars => (RegistrationTypeOK /\ Provenance)'
  BY NextTypes, NextIsWhole
<1> QED  BY <1>1, <1>2, PTL DEF RegistrationSpec

---------------------------------------------------------------------------
(* A command that is told it failed has left no row, be it after any       *)
(* number of collisions, and none leaves two clients, be its answer lost   *)
(* or not (admin/service.py, create_client; repository_auth.py,            *)
(* save_client).                                                           *)
THEOREM FailedCommandsLeaveNothing ==
    ASSUME RegistrationAssumption PROVE RegistrationSpec => []FailuresLeaveNothing
<1>1. ASSUME RegistrationTypeOK, Provenance, NEW p \in Commands
      PROVE  /\ pc[p] = "failed" => Of(p) = {}
             /\ \A r, q \in Of(p) : r.name \in Keys /\ q.name \in Keys => r = q
  <2>1. IsWhole(p)
    BY <1>1 DEF Provenance
  <2>2. pc[p] = "failed" => Of(p) = {}
    BY <2>1 DEF IsWhole, After
  <2>3. CASE job[p].kind = "client"
    <3>1. Of(p) \subseteq {ClientRow(p)} \cup GrantRows(p)
      BY <2>1, <2>3 DEF IsWhole, ClientIsWhole
    <3>2. \A r \in GrantRows(p) : r.name \notin Keys
      BY <1>1, <2>3, NamesOfJobs DEF GrantRows, Row, RegistrationAssumption
    <3> QED  BY <2>2, <3>1, <3>2
  <2>4. CASE job[p].kind # "client"
    BY <2>1, <2>2, <2>4 DEF IsWhole
  <2> QED  BY <2>3, <2>4
<1>2. RegistrationTypeOK /\ Provenance => FailuresLeaveNothing
  BY <1>1 DEF FailuresLeaveNothing, Of
<1> QED  BY <1>2, ProvenanceHolds, PTL

(* A stored client has the grants it was asked with, all of them and no    *)
(* others: it is stored in one transaction (repository_auth.py,            *)
(* save_client).                                                           *)
THEOREM ClientsHaveTheirGrants ==
    ASSUME RegistrationAssumption PROVE RegistrationSpec => []GrantsAreWhole
<1>1. ASSUME RegistrationTypeOK, Provenance, NEW r \in rows, r.name \in Keys, r.by \in Commands,
             NEW s \in SourceKeys
      PROVE  ([r EXCEPT !.name = <<r.name, s>>] \in rows) <=> s \in job[r.by].grants
  <2> DEFINE p == r.by
             g == [r EXCEPT !.name = <<r.name, s>>]
  <2>1. IsWhole(p) /\ r \in Of(p)
    BY <1>1 DEF Provenance, Of
  <2>2. job[p].kind = "client"
    BY <1>1, <2>1 DEF IsWhole
  <2>3. Of(p) = {ClientRow(p)} \cup GrantRows(p)
    BY <2>1, <2>2 DEF IsWhole, ClientIsWhole
  <2>4. \A t \in job[p].grants : <<key[p], t>> \notin Keys /\ t \in SourceKeys
    BY <1>1, <2>2, NamesOfJobs DEF RegistrationAssumption
  <2>5. r = ClientRow(p)
    BY <1>1, <2>1, <2>3, <2>4 DEF GrantRows, Row
  <2>6. g = Row(p, <<key[p], s>>) /\ g.by = p
    BY <2>5 DEF ClientRow, Row
  <2>7. g \in rows <=> g \in Of(p)
    BY <2>6 DEF Of
  <2>8. g # ClientRow(p)
    <3>1. key[p] \in Keys
      BY <1>1 DEF RegistrationTypeOK
    <3>2. <<key[p], s>> \notin Keys
      BY <3>1 DEF RegistrationAssumption
    <3> QED  BY <2>6, <3>1, <3>2 DEF ClientRow, Row
  <2>9. g \in GrantRows(p) <=> s \in job[p].grants
    BY <2>6 DEF GrantRows, Row
  <2> QED  BY <2>3, <2>7, <2>8, <2>9
<1>2. RegistrationTypeOK /\ Provenance => GrantsAreWhole
  BY <1>1 DEF GrantsAreWhole
<1> QED  BY <1>2, ProvenanceHolds, PTL

---------------------------------------------------------------------------
(***************************************************************************)
(* What a command goes on with.  A name is stored at most once, by what is *)
(* committed and what is not (NamesAreUnique): whoever inserts it waits    *)
(* for the others that have and is refused when one of them commits.  So   *)
(* what a command has found or inserted (Knows) is all there is to find.   *)
(***************************************************************************)
Plain == SourceKeys \cup Configs \cup Policies \cup Keys

Held(r) == r \in rows \/ \E p \in Commands : r \in pending[p]

NamesAreUnique == \A r, q : Held(r) /\ Held(q) /\ r.name = q.name /\ r.name \in Plain => r = q

NamesOf(p) == {r.name : r \in result[p]}

Knows(p) ==
    /\ \A r \in result[p] : r \in rows \/ r \in pending[p]
    /\ job[p].kind # "client" => pending[p] \subseteq result[p]
    /\ pc[p] \in After => result[p] \subseteq rows
    /\ pc[p] \in {"start", "insert", "save", "failed"} => result[p] = {}
    /\ pc[p] \in {"config", "store"} => NamesOf(p) = {job[p].source}
    /\ pc[p] \in {"grants", "resolve", "commit", "bound", "locked", "building", "done",
                  "unknown", "unindexed"} => NamesOf(p) = Asked(p)

Informed == NamesAreUnique /\ \A p \in Commands : Knows(p)

(* Where a row of its name was missed, only a concurrent command has it.   *)
Missed(p) ==
    /\ Is(p, "index", "insert") => Written(job[p].source, Earlier) = {}
    /\ Is(p, "index", "store") => Written(job[p].config, Earlier) = {}

LEMMA ResultEffects ==
    ASSUME RegistrationTypeOK, NEW p \in Commands, NEW next
    PROVE  /\ Undo(p, next) => result'[p] = {}
           /\ Step(p, next) => result'[p] = result[p]
           /\ \A n : Find(p, n, next) => result'[p] = result[p] \cup Seen(p, n)
           /\ \A n : Insert(p, n, next) => result'[p] = result[p] \cup {Row(p, n)}
           /\ Undo(p, next) \/ Step(p, next) \/ (\E n : Insert(p, n, next) \/ Find(p, n, next))
                => \A q \in Commands \ {p} : result'[q] = result[q]
<1>1. result = [q \in Commands |-> result[q]]
  BY DEF RegistrationTypeOK
<1> QED  BY <1>1 DEF Undo, Step, Find, Insert

(* A statement that inserts nothing.                                       *)
LEMMA QuietStaysUnique ==
    ASSUME RegistrationTypeOK, NEW p \in Commands, NEW next, NamesAreUnique,
           Undo(p, next) \/ Step(p, next) \/ \E n : Find(p, n, next)
    PROVE  NamesAreUnique'
<1>1. \A r : Held(r)' => Held(r)
  BY Effects DEF Held
<1> QED  BY <1>1 DEF NamesAreUnique

(* The insertion of a name that nobody has.                                *)
LEMMA InsertStaysUnique ==
    ASSUME RegistrationTypeOK, NEW p \in Commands, NEW n, NEW next, NamesAreUnique,
           Insert(p, n, next), Named(n, rows) = {}, ~Waits(p, n),
           \A r \in pending[p] : r.name # n
    PROVE  NamesAreUnique'
<1>1. \A r : Held(r)' => Held(r) \/ r = Row(p, n)
  BY Effects DEF Held
<1>2. \A r : Held(r) => r.name # n
  BY DEF Held, Named, Waits
<1>3. Row(p, n).name = n
  BY DEF Row
<1> QED  BY <1>1, <1>2, <1>3 DEF NamesAreUnique

LEMMA CommitStaysUnique ==
    ASSUME RegistrationTypeOK, NEW p \in Commands, NEW end, NamesAreUnique, Commit(p, end)
    PROVE  NamesAreUnique'
<1>1. pending'[p] = {}
  BY DEF RegistrationTypeOK, Commit
<1>2. \A r : Held(r)' => Held(r)
  BY <1>1, OthersAtCommit DEF Held
<1> QED  BY <1>2 DEF NamesAreUnique

(* What the others know does not depend on the rows of p.                  *)
LEMMA OthersStillKnow ==
    ASSUME NEW p \in Commands, NEW q \in Commands, q # p, Knows(q), UNCHANGED job,
           pc'[q] = pc[q], pending'[q] = pending[q], key'[q] = key[q], result'[q] = result[q],
           rows \subseteq rows'
    PROVE  Knows(q)'
<1>1. NamesOf(q)' = NamesOf(q) /\ Asked(q)' = Asked(q)
  BY DEF NamesOf, Asked
<1> QED  BY <1>1 DEF Knows

(* A row that is found is the only one of its name.                        *)
LEMMA SeenIsKnown ==
    ASSUME NEW p \in Commands, NEW n, Named(n, rows) # {}
    PROVE  /\ {r.name : r \in Seen(p, n)} = {n}
           /\ \A r \in Seen(p, n) : r \in rows \/ r \in pending[p]
<1> QED  BY DEF Seen, Named

Backed(p) ==
    /\ \A r \in result[p] : r \in rows \/ r \in pending[p]
    /\ job[p].kind # "client" => pending[p] \subseteq result[p]

LEMMA StatementKnows ==
    ASSUME RegistrationTypeOK, NEW p \in Commands, NEW next, Backed(p), UNCHANGED job
    PROVE  /\ Undo(p, next) => Backed(p)' /\ result'[p] = {} /\ NamesOf(p)' = {}
           /\ Step(p, next) => Backed(p)' /\ result'[p] = result[p] /\ NamesOf(p)' = NamesOf(p)
           /\ \A n : Find(p, n, next) /\ Named(n, rows) # {} =>
                 Backed(p)' /\ NamesOf(p)' = NamesOf(p) \cup {n}
           /\ \A n : Insert(p, n, next) => Backed(p)' /\ NamesOf(p)' = NamesOf(p) \cup {n}
<1>1. ASSUME Undo(p, next)  PROVE Backed(p)' /\ result'[p] = {} /\ NamesOf(p)' = {}
  <2>1. result'[p] = {} /\ pending'[p] = {}
    BY <1>1, Effects, ResultEffects
  <2> QED  BY <2>1 DEF Backed, NamesOf
<1>2. ASSUME Step(p, next)
      PROVE  Backed(p)' /\ result'[p] = result[p] /\ NamesOf(p)' = NamesOf(p)
  <2>1. result'[p] = result[p] /\ pending'[p] = pending[p] /\ rows' = rows
    BY <1>2, Effects, ResultEffects
  <2> QED  BY <2>1 DEF Backed, NamesOf
<1>3. ASSUME NEW n, Find(p, n, next), Named(n, rows) # {}
      PROVE  Backed(p)' /\ NamesOf(p)' = NamesOf(p) \cup {n}
  <2>1. result'[p] = result[p] \cup Seen(p, n) /\ pending'[p] = pending[p] /\ rows' = rows
    BY <1>3, Effects, ResultEffects
  <2>2. {r.name : r \in Seen(p, n)} = {n} /\ \A r \in Seen(p, n) : r \in rows \/ r \in pending[p]
    BY <1>3, SeenIsKnown
  <2> QED  BY <2>1, <2>2 DEF Backed, NamesOf
<1>4. ASSUME NEW n, Insert(p, n, next)
      PROVE  Backed(p)' /\ NamesOf(p)' = NamesOf(p) \cup {n}
  <2>1. /\ result'[p] = result[p] \cup {Row(p, n)} /\ rows' = rows
        /\ pending'[p] = pending[p] \cup {Row(p, n)}
    BY <1>4, Effects, ResultEffects
  <2>2. Row(p, n).name = n
    BY DEF Row
  <2> QED  BY <2>1, <2>2 DEF Backed, NamesOf
<1> QED  BY <1>1, <1>2, <1>3, <1>4

LEMMA CommitKnows ==
    ASSUME RegistrationTypeOK, NEW p \in Commands, NEW end \in {"bound", "done", "unknown"},
           Knows(p), pc[p] = "commit", Commit(p, end), UNCHANGED <<job, key, result>>
    PROVE  Knows(p)'
<1>1. pc'[p] = end /\ pending'[p] = {} /\ rows' = rows \cup pending[p]
  BY DEF RegistrationTypeOK, Commit, Goto
<1>2. NamesOf(p)' = NamesOf(p) /\ Asked(p)' = Asked(p)
  BY DEF NamesOf, Asked
<1> QED  BY <1>1, <1>2 DEF Knows

LEMMA CommitInforms ==
    ASSUME RegistrationTypeOK, Informed, NEW p \in Commands,
           NEW end \in {"bound", "done", "unknown"},
           pc[p] = "commit", Commit(p, end), UNCHANGED <<job, key, result>>
    PROVE  Informed'
<1>1. Knows(p)' /\ NamesAreUnique'
  BY CommitKnows, CommitStaysUnique DEF Informed
<1>2. \A q \in Commands \ {p} : Knows(q)'
  BY OthersAtCommit, OthersStillKnow DEF Informed
<1> QED  BY <1>1, <1>2 DEF Informed

(* A statement after which p knows what it should.                         *)
LEMMA StatementInforms ==
    ASSUME RegistrationTypeOK, Informed, NEW p \in Commands, NEW next,
           UNCHANGED job, \A q \in Commands \ {p} : key'[q] = key[q],
           \/ Undo(p, next)
           \/ Step(p, next)
           \/ \E n : Find(p, n, next)
           \/ \E n : /\ Insert(p, n, next) /\ Named(n, rows) = {} /\ ~Waits(p, n)
                     /\ \A r \in pending[p] : r.name # n,
           Knows(p)'
    PROVE  Informed'
<1>1. NamesAreUnique'
  BY QuietStaysUnique, InsertStaysUnique DEF Informed
<1>2. \A q \in Commands \ {p} : Knows(q)'
  BY Effects, ResultEffects, OthersStillKnow DEF Informed
<1> QED  BY <1>1, <1>2 DEF Informed

LEMMA IndexInforms ==
    ASSUME RegistrationAssumption, RegistrationTypeOK, Informed, NEW p \in Commands, Index(p),
           UNCHANGED <<job, attempt, key>>
    PROVE  Informed'
<1>1. job[p].kind = "index" /\ Knows(p) /\ Backed(p)
  BY DEF Index, AdoptSource, MissSource, InsertSource, FindConfig, InsertConfig,
         CommitConfiguration, TryBuild, CreateRun, EndBuild, Is, Informed, Knows, Backed
<1>2. job[p].source # job[p].config
  BY <1>1, IndexJobs DEF RegistrationAssumption, RegistrationTypeOK, Jobs
<1>3. Asked(p) = {job[p].source, job[p].config} /\ Asked(p)' = Asked(p)
  BY <1>1 DEF Asked
<1>4. CASE AdoptSource(p)
  <2>1. pc[p] = "start" /\ Find(p, job[p].source, "config") /\ Named(job[p].source, rows) # {}
    BY <1>4 DEF AdoptSource, Is
  <2>2. NamesOf(p) = {}
    BY <1>1, <2>1 DEF Knows, NamesOf
  <2>3. pc'[p] = "config" /\ Backed(p)' /\ NamesOf(p)' = NamesOf(p) \cup {job[p].source}
    BY <1>1, <2>1, Effects, StatementKnows
  <2>4. Knows(p)'
    BY <2>2, <2>3 DEF Knows, Backed, After
  <2> QED  BY <2>1, <2>4, StatementInforms
<1>5. CASE MissSource(p)
  <2>1. pc[p] = "start" /\ Step(p, "insert")
    BY <1>5 DEF MissSource, Is
  <2>2. pc'[p] = "insert" /\ result'[p] = {} /\ Backed(p)'
    BY <1>1, <2>1, Effects, StatementKnows DEF Knows
  <2>3. Knows(p)'
    BY <2>2 DEF Knows, Backed, After
  <2> QED  BY <2>1, <2>3, StatementInforms
<1>6. CASE InsertSource(p)
  <2>1. pc[p] = "insert" /\ NamesOf(p) = {} /\ pending[p] = {}
    BY <1>1, <1>6 DEF InsertSource, Is, Knows, NamesOf
  <2>2. CASE Undo(p, "failed")
    <3>1. pc'[p] = "failed" /\ result'[p] = {} /\ Backed(p)'
      BY <1>1, <2>2, Effects, StatementKnows
    <3>2. Knows(p)'
      BY <3>1 DEF Knows, Backed, After
    <3> QED  BY <2>2, <3>2, StatementInforms
  <2>3. CASE /\ Insert(p, job[p].source, "config") /\ Named(job[p].source, rows) = {}
             /\ ~Waits(p, job[p].source)
    <3>1. pc'[p] = "config" /\ NamesOf(p)' = NamesOf(p) \cup {job[p].source} /\ Backed(p)'
      BY <1>1, <2>3, Effects, StatementKnows
    <3>2. Knows(p)'
      BY <2>1, <3>1 DEF Knows, Backed, After
    <3> QED  BY <2>1, <2>3, <3>2, StatementInforms
  <2> QED  BY <1>6, <2>2, <2>3 DEF InsertSource
<1>7. CASE FindConfig(p)
  <2>1. /\ pc[p] = "config"
        /\ \/ Find(p, job[p].config, "commit") /\ Named(job[p].config, rows) # {}
           \/ Step(p, "store")
    BY <1>7 DEF FindConfig, Is
  <2>2. Knows(p)'
    <3>1. Backed(p)' /\ NamesOf(p) = {job[p].source}
      BY <1>1, <2>1, StatementKnows DEF Knows
    <3>2. CASE Find(p, job[p].config, "commit") /\ Named(job[p].config, rows) # {}
      <4>1. pc'[p] = "commit" /\ NamesOf(p)' = NamesOf(p) \cup {job[p].config}
        BY <1>1, <3>2, Effects, StatementKnows
      <4> QED  BY <1>3, <3>1, <4>1 DEF Knows, Backed, After
    <3>3. CASE Step(p, "store")
      <4>1. pc'[p] = "store" /\ NamesOf(p)' = NamesOf(p)
        BY <1>1, <3>3, Effects, StatementKnows
      <4> QED  BY <3>1, <4>1 DEF Knows, Backed, After
    <3> QED  BY <2>1, <3>2, <3>3
  <2> QED  BY <2>1, <2>2, StatementInforms
<1>8. CASE InsertConfig(p)
  <2>1. /\ pc[p] = "store" /\ NamesOf(p) = {job[p].source}
        /\ \/ /\ Insert(p, job[p].config, "commit") /\ Named(job[p].config, rows) = {}
              /\ ~Waits(p, job[p].config)
           \/ Undo(p, "failed")
    BY <1>1, <1>8 DEF InsertConfig, Is, Knows
  <2>2. \A r \in pending[p] : r.name # job[p].config
    BY <1>1, <1>2, <2>1 DEF Backed, NamesOf
  <2>3. CASE Undo(p, "failed")
    <3>1. pc'[p] = "failed" /\ result'[p] = {} /\ Backed(p)'
      BY <1>1, <2>3, Effects, StatementKnows
    <3>2. Knows(p)'
      BY <3>1 DEF Knows, Backed, After
    <3> QED  BY <2>3, <3>2, StatementInforms
  <2>4. CASE /\ Insert(p, job[p].config, "commit") /\ Named(job[p].config, rows) = {}
             /\ ~Waits(p, job[p].config)
    <3>1. pc'[p] = "commit" /\ NamesOf(p)' = NamesOf(p) \cup {job[p].config} /\ Backed(p)'
      BY <1>1, <2>4, Effects, StatementKnows
    <3>2. Knows(p)'
      BY <1>3, <2>1, <3>1 DEF Knows, Backed, After
    <3> QED  BY <2>2, <2>4, <3>2, StatementInforms
  <2> QED  BY <2>1, <2>3, <2>4
<1>9. CASE CommitConfiguration(p)
  BY <1>9, CommitInforms DEF CommitConfiguration, Is
<1>10. CASE TryBuild(p) \/ CreateRun(p) \/ EndBuild(p)
  <2>1. /\ pc[p] \in {"bound", "locked", "building"}
        /\ \E next \in {"locked", "building", "done", "unindexed"} : Step(p, next)
    BY <1>10 DEF TryBuild, CreateRun, EndBuild, Is
  <2>2. PICK next \in {"locked", "building", "done", "unindexed"} : Step(p, next)
    BY <2>1
  <2>3. /\ pc'[p] = next /\ NamesOf(p)' = Asked(p)' /\ Backed(p)'
        /\ result'[p] = result[p] /\ rows' = rows
    BY <1>1, <1>3, <2>1, <2>2, Effects, StatementKnows DEF Knows
  <2>4. Knows(p)'
    BY <1>1, <2>1, <2>3 DEF Knows, Backed, After
  <2> QED  BY <2>2, <2>4, StatementInforms
<1> QED  BY <1>4, <1>5, <1>6, <1>7, <1>8, <1>9, <1>10 DEF Index

LEMMA ServeInforms ==
    ASSUME RegistrationTypeOK, Informed, NEW p \in Commands, Serve(p),
           UNCHANGED <<job, attempt, key>>
    PROVE  Informed'
<1>1. job[p].kind = "serve" /\ Knows(p) /\ Backed(p)
  BY DEF Serve, Register, Resolve, CommitPolicy, Is, Informed, Knows, Backed
<1>2. Asked(p) = {job[p].policy} /\ Asked(p)' = Asked(p)
  BY <1>1 DEF Asked
<1>3. CASE Register(p)
  <2>1. /\ pc[p] = "start" /\ ~Waits(p, job[p].policy)
        /\ \/ Insert(p, job[p].policy, "resolve") /\ Named(job[p].policy, rows) = {}
           \/ Find(p, job[p].policy, "resolve") /\ Named(job[p].policy, rows) # {}
    BY <1>3 DEF Register, Is
  <2>2. NamesOf(p) = {} /\ pending[p] = {}
    BY <1>1, <2>1 DEF Knows, NamesOf
  <2>3. pc'[p] = "resolve" /\ NamesOf(p)' = NamesOf(p) \cup {job[p].policy} /\ Backed(p)'
    BY <1>1, <2>1, Effects, StatementKnows
  <2>4. Knows(p)'
    BY <1>2, <2>2, <2>3 DEF Knows, Backed, After
  <2> QED  BY <2>1, <2>2, <2>4, StatementInforms
<1>4. CASE Resolve(p)
  <2>1. pc[p] = "resolve" /\ (Step(p, "commit") \/ Undo(p, "failed"))
    BY <1>4 DEF Resolve, Is
  <2>2. CASE Step(p, "commit")
    <3>1. pc'[p] = "commit" /\ NamesOf(p)' = Asked(p)' /\ Backed(p)'
      BY <1>1, <1>2, <2>1, <2>2, Effects, StatementKnows DEF Knows
    <3>2. Knows(p)'
      BY <3>1 DEF Knows, Backed, After
    <3> QED  BY <2>2, <3>2, StatementInforms
  <2>3. CASE Undo(p, "failed")
    <3>1. pc'[p] = "failed" /\ result'[p] = {} /\ Backed(p)'
      BY <1>1, <2>3, Effects, StatementKnows
    <3>2. Knows(p)'
      BY <3>1 DEF Knows, Backed, After
    <3> QED  BY <2>3, <3>2, StatementInforms
  <2> QED  BY <2>1, <2>2, <2>3
<1>5. CASE CommitPolicy(p)
  BY <1>5, CommitInforms DEF CommitPolicy, Is
<1> QED  BY <1>3, <1>4, <1>5 DEF Serve

(* An attempt begins with nothing.                                         *)
LEMMA DroppedInforms ==
    ASSUME RegistrationTypeOK, Informed, NEW p \in Commands, NEW next \in {"start", "failed"},
           UNCHANGED job, \A q \in Commands \ {p} : key'[q] = key[q], Undo(p, next)
    PROVE  Informed'
<1>1. Backed(p)
  BY DEF Informed, Knows, Backed
<1>2. pc'[p] = next /\ result'[p] = {} /\ Backed(p)'
  BY <1>1, Effects, StatementKnows
<1>3. Knows(p)'
  BY <1>2 DEF Knows, Backed, After
<1> QED  BY <1>3, StatementInforms

LEMMA GrantsInform ==
    ASSUME RegistrationAssumption, RegistrationTypeOK, Informed, NEW p \in Commands,
           InsertGrants(p), UNCHANGED <<job, attempt, key>>
    PROVE  Informed'
<1>1. job[p].kind = "client" /\ pc[p] = "grants" /\ Knows(p)
  BY DEF InsertGrants, Is, Informed
<1>2. /\ pc' = [pc EXCEPT ![p] = "commit"] /\ rows' = rows /\ result' = result
      /\ pending' = [pending EXCEPT ![p] = @ \cup GrantRows(p)]
  BY DEF InsertGrants, Goto, GrantRows
<1>3. \A r \in GrantRows(p) : r.name \notin Plain
  <2>1. key[p] \in Keys /\ job[p].grants \subseteq SourceKeys
    BY <1>1, NamesOfJobs
  <2> QED  BY <2>1 DEF GrantRows, Row, Plain, RegistrationAssumption
<1> HIDE DEF GrantRows
<1>4. /\ pc'[p] = "commit" /\ pending'[p] = pending[p] \cup GrantRows(p)
      /\ \A q \in Commands \ {p} : pc'[q] = pc[q] /\ pending'[q] = pending[q]
  BY <1>2 DEF RegistrationTypeOK
<1>5. NamesAreUnique'
  <2>1. \A r : Held(r)' => Held(r) \/ r.name \notin Plain
    BY <1>2, <1>3, <1>4 DEF Held
  <2> QED  BY <2>1 DEF Informed, NamesAreUnique
<1>6. Knows(p)'
  <2>1. NamesOf(p)' = NamesOf(p) /\ Asked(p)' = Asked(p)
    BY <1>2 DEF NamesOf, Asked
  <2> QED  BY <1>1, <1>2, <1>4, <2>1 DEF Knows, After
<1>7. \A q \in Commands \ {p} : Knows(q)'
  BY <1>2, <1>4, OthersStillKnow DEF Informed
<1> QED  BY <1>5, <1>6, <1>7 DEF Informed

LEMMA CreateInforms ==
    ASSUME RegistrationAssumption, RegistrationTypeOK, Provenance, Informed, NEW p \in Commands,
           Create(p), UNCHANGED job
    PROVE  Informed'
<1>1. job[p].kind = "client" /\ Knows(p) /\ Backed(p)
  BY DEF Create, ResolveGrants, InsertClient, InsertGrants, CommitClient, Is, Informed, Knows,
         Backed
<1>2. \A q \in Commands \ {p} : key'[q] = key[q]
  BY DEF Create, ResolveGrants, RegistrationTypeOK
<1>3. CASE ResolveGrants(p)
  <2>1. pc[p] = "start" /\ (Step(p, "save") \/ Undo(p, "failed"))
    BY <1>3 DEF ResolveGrants, Is
  <2>2. CASE Step(p, "save")
    <3>1. pc'[p] = "save" /\ result'[p] = {} /\ Backed(p)'
      BY <1>1, <2>1, <2>2, Effects, StatementKnows DEF Knows
    <3>2. Knows(p)'
      BY <3>1 DEF Knows, Backed, After
    <3> QED  BY <1>2, <2>2, <3>2, StatementInforms
  <2> QED  BY <1>2, <2>1, <2>2, DroppedInforms
<1>4. CASE InsertClient(p) /\ UNCHANGED key
  <2>1. /\ pc[p] = "save"
        /\ \/ /\ Insert(p, key[p], "grants") /\ Named(key[p], rows) = {} /\ ~Waits(p, key[p])
           \/ \E next \in {"start", "failed"} : Undo(p, next)
    BY <1>4 DEF InsertClient, Collide, Is
  <2>2. CASE Insert(p, key[p], "grants") /\ Named(key[p], rows) = {} /\ ~Waits(p, key[p])
    <3>1. NamesOf(p) = {} /\ pending[p] = {}
      BY <1>1, <2>1 DEF Knows, NamesOf, Provenance, IsWhole, ClientIsWhole
    <3>2. pc'[p] = "grants" /\ NamesOf(p)' = NamesOf(p) \cup {key[p]} /\ Backed(p)'
      BY <1>1, <2>2, Effects, StatementKnows
    <3>3. Asked(p)' = {key[p]}
      BY <1>1, <1>4 DEF Asked
    <3>4. Knows(p)'
      BY <3>1, <3>2, <3>3 DEF Knows, Backed, After
    <3> QED  BY <1>2, <2>2, <3>1, <3>4, StatementInforms
  <2> QED  BY <1>2, <2>1, <2>2, DroppedInforms
<1>5. CASE InsertGrants(p) /\ UNCHANGED <<attempt, key>>
  BY <1>5, GrantsInform
<1>6. CASE CommitClient(p) /\ UNCHANGED <<attempt, key>>
  BY <1>6, CommitInforms DEF CommitClient, Is
<1> QED  BY <1>3, <1>4, <1>5, <1>6 DEF Create

LEMMA RevokeInforms ==
    ASSUME RegistrationTypeOK, Informed, NEW p \in Commands, Revoke(p), UNCHANGED <<job, key>>
    PROVE  Informed'
<1>1. job[p].kind = "revoke" /\ pc[p] = "start" /\ Knows(p) /\ Backed(p) /\ NamesOf(p) = {}
  BY DEF Revoke, Is, Informed, Knows, Backed, NamesOf
<1>2. \/ Find(p, job[p].key, "done") /\ Named(job[p].key, rows) # {}
      \/ Step(p, "done")
  BY DEF Revoke
<1>3. pc'[p] = "done" /\ Backed(p)' /\ NamesOf(p)' \subseteq {job[p].key}
  BY <1>1, <1>2, Effects, StatementKnows
<1>4. Asked(p)' = {job[p].key} \cap NamesOf(p)'
  BY <1>1 DEF Asked, NamesOf
<1>5. result'[p] \subseteq rows'
  <2>1. pending[p] = {} /\ result[p] = {}
    BY <1>1 DEF Knows
  <2> QED  BY <1>2, <2>1, Effects, ResultEffects DEF Seen, Named
<1>6. Knows(p)'
  BY <1>3, <1>4, <1>5 DEF Knows, Backed, After
<1> QED  BY <1>2, <1>6, StatementInforms

LEMMA FaultInforms ==
    ASSUME RegistrationTypeOK, Informed, NEW p \in Commands, Fault(p)
    PROVE  Informed'
<1>1. UNCHANGED <<job, key>> /\ Knows(p) /\ Backed(p)
  BY DEF Fault, Informed, Knows, Backed
<1>2. CASE LoseAnswer(p)
  BY <1>1, <1>2, CommitInforms DEF LoseAnswer
<1>3. CASE LoseConnection(p)
  <2>1. \/ pc[p] \in {"bound", "locked", "building"} /\ Step(p, "unindexed")
        \/ Undo(p, "failed")
    BY <1>3 DEF LoseConnection
  <2>2. CASE pc[p] \in {"bound", "locked", "building"} /\ Step(p, "unindexed")
    <3>1. /\ pc'[p] = "unindexed" /\ NamesOf(p)' = Asked(p) /\ Backed(p)'
          /\ result'[p] = result[p] /\ rows' = rows
      BY <1>1, <2>2, Effects, StatementKnows DEF Knows
    <3>2. Asked(p)' = Asked(p)
      BY <1>1, <3>1 DEF Asked
    <3>3. Knows(p)'
      BY <1>1, <2>2, <3>1, <3>2 DEF Knows, Backed, After
    <3> QED  BY <1>1, <2>2, <3>3, StatementInforms
  <2> QED  BY <1>1, <2>1, <2>2, DroppedInforms
<1> QED  BY <1>2, <1>3 DEF Fault

LEMMA NextInforms ==
    ASSUME RegistrationAssumption, RegistrationTypeOK, Provenance, Informed,
           [RegistrationNext]_registrationVars
    PROVE  Informed'
<1>1. ASSUME NEW p \in Commands, Proceed(p)  PROVE Informed'
  BY <1>1, IndexInforms, ServeInforms, CreateInforms, RevokeInforms DEF Proceed
<1>2. ASSUME NEW p \in Commands, Fault(p)  PROVE Informed'
  BY <1>2, FaultInforms
<1>3. CASE UNCHANGED registrationVars
  BY <1>3 DEF registrationVars, Informed, NamesAreUnique, Held, Knows, NamesOf, Asked
<1> QED  BY <1>1, <1>2, <1>3 DEF RegistrationNext

LEMMA InitInforms == ASSUME RegistrationAssumption, RegistrationInit PROVE Informed
<1>1. PICK found \in Installed : rows = [name : found, by : {Earlier}, attempt : {1}]
  BY DEF RegistrationInit
<1>2. \A p \in Commands : pc[p] = "start" /\ pending[p] = {} /\ result[p] = {}
  BY DEF RegistrationInit
<1>3. NamesAreUnique
  BY <1>1, <1>2 DEF NamesAreUnique, Held
<1> QED  BY <1>2, <1>3 DEF Informed, Knows

LEMMA InformedHolds ==
    ASSUME RegistrationAssumption
    PROVE  RegistrationSpec => [](RegistrationTypeOK /\ Provenance /\ Informed)
<1>1. RegistrationInit => Informed
  BY InitInforms
<1>2. RegistrationTypeOK /\ Provenance /\ Informed /\ [RegistrationNext]_registrationVars => Informed'
  BY NextInforms
<1> QED  BY <1>1, <1>2, ProvenanceHolds, PTL DEF RegistrationSpec

(* The coordinates a command goes on with are those of the one row that is *)
(* stored under each name; so processes that registered the same thing     *)
(* agree on it, and a token that was shown authenticates                   *)
(* (repository_config.py: ensure; repository_policy.py: register).         *)
THEOREM CommandsAgree ==
    ASSUME RegistrationAssumption PROVE RegistrationSpec => []ResultsAreStored
<1>1. ASSUME RegistrationTypeOK, Provenance, Informed, NEW p \in Commands,
             pc[p] \in {"bound", "locked", "building", "done"}
      PROVE  NamesOf(p) = Asked(p) /\ \A r \in result[p] : Named(r.name, rows) = {r}
  <2>1. Knows(p) /\ NamesOf(p) = Asked(p)
    BY <1>1 DEF Informed, Knows
  <2>2. Asked(p) \subseteq Plain
    <3>1. job[p] \in Jobs /\ key[p] \in Keys
      BY <1>1 DEF RegistrationTypeOK
    <3> QED  BY <3>1 DEF Asked, Plain, Jobs
  <2>3. ASSUME NEW r \in result[p]  PROVE Named(r.name, rows) = {r}
    <3>1. r.name \in Plain /\ Held(r) /\ \A q \in rows : Held(q)
      BY <2>1, <2>2, <2>3 DEF NamesOf, Knows, Held
    <3>2. \A q \in rows : q.name = r.name => q = r
      BY <1>1, <3>1 DEF Informed, NamesAreUnique
    <3>3. r \in rows
      BY <1>1, <2>1, <2>3 DEF Knows, After
    <3> QED  BY <3>2, <3>3 DEF Named
  <2> QED  BY <2>1, <2>3
<1>2. RegistrationTypeOK /\ Provenance /\ Informed => ResultsAreStored
  BY <1>1 DEF ResultsAreStored, NamesOf
<1> QED  BY <1>2, InformedHolds, PTL

---------------------------------------------------------------------------
(***************************************************************************)
(* Why commands fail.  What a command has missed was not there when it     *)
(* began (Missed): what is there now is of a concurrent command.           *)
(***************************************************************************)
Cause(p) ==
    pc[p] = "failed" /\ p \notin faults =>
        /\ job[p].kind = "serve" => job[p].policy \notin Readable
        /\ job[p].kind = "index" => \E r \in rows : /\ r.name \in {job[p].source, job[p].config}
                                                    /\ r.by \in Commands \ {p}
        /\ job[p].kind = "client" => \/ \E s \in job[p].grants : Written(s, Earlier) = {}
                                     \/ attempt[p] = MaxAttempts /\ Named(key[p], rows) # {}
        /\ job[p].kind # "revoke"

Excused == \A p \in Commands : Missed(p) /\ Cause(p)

(* Nobody writes what was there at the start.                              *)
LEMMA EarlierStays ==
    ASSUME RegistrationAssumption, RegistrationTypeOK, Provenance, NEW n,
           rows' = rows \/ \E p \in Commands : rows' = rows \cup pending[p]
    PROVE  rows \subseteq rows' /\ Written(n, Earlier)' = Written(n, Earlier)
<1>1. \A p \in Commands : \A r \in pending[p] : r.by # Earlier
  BY DEF Provenance, IsWhole, RegistrationAssumption
<1> QED  BY <1>1 DEF Written, Named

(* The reasons of the others remain.                                       *)
LEMMA OthersStayExcused ==
    ASSUME NEW q \in Commands, Missed(q), Cause(q), UNCHANGED job,
           pc'[q] = pc[q], key'[q] = key[q], attempt'[q] = attempt[q],
           rows \subseteq rows', faults \subseteq faults',
           \A n : Written(n, Earlier)' = Written(n, Earlier)
    PROVE  Missed(q)' /\ Cause(q)'
<1>1. Missed(q)'
  BY DEF Missed, Is
<1>2. Named(key[q], rows) # {} => Named(key'[q], rows') # {}
  BY DEF Named
<1>3. Cause(q)'
  BY <1>2 DEF Cause
<1> QED  BY <1>1, <1>3

(* A row of a name that p has missed is of another command.                *)
LEMMA MissedIsOthers ==
    ASSUME RegistrationTypeOK, Provenance, NEW p \in Commands, pc[p] \notin After,
           NEW n, Written(n, Earlier) = {}, Named(n, rows) # {}
    PROVE  \E r \in rows : r.name = n /\ r.by \in Commands \ {p}
<1>1. PICK r \in rows : r.name = n /\ r.by # Earlier
  BY DEF Named, Written
<1>2. r.by \in Commands
  BY <1>1 DEF RegistrationTypeOK, Rows
<1>3. r.by # p
  BY <1>1 DEF Provenance, IsWhole, Of
<1> QED  BY <1>1, <1>2, <1>3

LEMMA IndexIsExcused ==
    ASSUME RegistrationTypeOK, Provenance, NEW p \in Commands, Index(p), Missed(p), UNCHANGED job,
           \A n : Written(n, Earlier)' = Written(n, Earlier)
    PROVE  Missed(p)' /\ Cause(p)'
<1>1. job[p].kind = "index"
  BY DEF Index, AdoptSource, MissSource, InsertSource, FindConfig, InsertConfig,
         CommitConfiguration, TryBuild, CreateRun, EndBuild, Is
<1>2. CASE MissSource(p)
  <2>1. Named(job[p].source, rows) = {} /\ pc'[p] = "insert"
    BY <1>2, Effects DEF MissSource
  <2> QED  BY <2>1 DEF Missed, Cause, Is, Written, Named
<1>3. CASE FindConfig(p)
  <2>1. pc'[p] = "commit" \/ (pc'[p] = "store" /\ Named(job[p].config, rows) = {})
    BY <1>3, Effects DEF FindConfig
  <2> QED  BY <2>1 DEF Missed, Cause, Is, Written, Named
<1>4. CASE InsertSource(p)
  <2>1. pc[p] = "insert" /\ Written(job[p].source, Earlier) = {}
    BY <1>1, <1>4 DEF InsertSource, Missed, Is
  <2>2. \/ pc'[p] = "config"
        \/ pc'[p] = "failed" /\ rows' = rows /\ Named(job[p].source, rows) # {}
    BY <1>4, Effects DEF InsertSource
  <2>3. CASE pc'[p] = "failed" /\ rows' = rows /\ Named(job[p].source, rows) # {}
    <3>1. \E r \in rows : r.name = job[p].source /\ r.by \in Commands \ {p}
      BY <2>1, <2>3, MissedIsOthers DEF After
    <3> QED  BY <1>1, <2>3, <3>1 DEF Missed, Cause, Is
  <2> QED  BY <2>2, <2>3 DEF Missed, Cause, Is
<1>5. CASE InsertConfig(p)
  <2>1. pc[p] = "store" /\ Written(job[p].config, Earlier) = {}
    BY <1>1, <1>5 DEF InsertConfig, Missed, Is
  <2>2. \/ pc'[p] = "commit"
        \/ pc'[p] = "failed" /\ rows' = rows /\ Named(job[p].config, rows) # {}
    BY <1>5, Effects DEF InsertConfig
  <2>3. CASE pc'[p] = "failed" /\ rows' = rows /\ Named(job[p].config, rows) # {}
    <3>1. \E r \in rows : r.name = job[p].config /\ r.by \in Commands \ {p}
      BY <2>1, <2>3, MissedIsOthers DEF After
    <3> QED  BY <1>1, <2>3, <3>1 DEF Missed, Cause, Is
  <2> QED  BY <2>2, <2>3 DEF Missed, Cause, Is
<1>6. CASE AdoptSource(p) \/ CommitConfiguration(p) \/ TryBuild(p) \/ CreateRun(p) \/ EndBuild(p)
  <2>1. pc'[p] \in {"config", "bound", "locked", "building", "done", "unindexed"}
    BY <1>6, Effects DEF RegistrationTypeOK, AdoptSource, CommitConfiguration, Commit, Goto,
                         TryBuild, CreateRun, EndBuild
  <2> QED  BY <2>1 DEF Missed, Cause, Is
<1> QED  BY <1>2, <1>3, <1>4, <1>5, <1>6 DEF Index

(* A policy that is registered is found as it was written or found, so it  *)
(* is refused only for what PostgreSQL makes of it.                        *)
LEMMA ServeIsExcused ==
    ASSUME RegistrationAssumption, RegistrationTypeOK, Informed, NEW p \in Commands, Serve(p),
           UNCHANGED job
    PROVE  Missed(p)' /\ Cause(p)'
<1>1. job[p].kind = "serve" /\ job[p].policy \in Plain
  <2>1. job[p].kind = "serve" /\ job[p] \in Jobs
    BY DEF Serve, Register, Resolve, CommitPolicy, Is, RegistrationTypeOK
  <2> QED  BY <2>1 DEF Jobs, Plain
<1>2. CASE Register(p)
  <2>1. pc'[p] = "resolve"
    BY <1>2, Effects DEF Register
  <2> QED  BY <1>1, <2>1 DEF Missed, Cause, Is
<1>3. CASE Resolve(p)
  <2>1. pc[p] = "resolve"
    BY <1>3 DEF Resolve, Is
  <2>2. NamesOf(p) = {job[p].policy} /\ \A r \in result[p] : r \in rows \/ r \in pending[p]
    BY <1>1, <2>1 DEF Informed, Knows, Asked
  <2>3. \A r, q \in rows \cup pending[p] : r.name = job[p].policy /\ q.name = r.name => r = q
    BY <1>1 DEF Informed, NamesAreUnique, Held
  <2>4. Seen(p, job[p].policy) = result[p]
    BY <2>2, <2>3 DEF Seen, Named, NamesOf
  <2>5. pc'[p] = "commit" \/ (pc'[p] = "failed" /\ job[p].policy \notin Readable)
    BY <1>3, <2>4, Effects DEF Resolve
  <2> QED  BY <1>1, <2>5 DEF Missed, Cause, Is
<1>4. CASE CommitPolicy(p)
  <2>1. pc'[p] = "done"
    BY <1>4 DEF RegistrationTypeOK, CommitPolicy, Commit, Goto
  <2> QED  BY <2>1 DEF Missed, Cause, Is
<1> QED  BY <1>2, <1>3, <1>4 DEF Serve

LEMMA CreateIsExcused ==
    ASSUME RegistrationAssumption, RegistrationTypeOK, NEW p \in Commands, Create(p),
           UNCHANGED job, \A n : Written(n, Earlier)' = Written(n, Earlier)
    PROVE  Missed(p)' /\ Cause(p)'
<1>1. job[p].kind = "client" /\ Missed(p)'
  BY DEF Create, ResolveGrants, InsertClient, InsertGrants, CommitClient, Is, Missed
<1>2. CASE ResolveGrants(p)
  <2>1. \/ pc'[p] = "save"
        \/ pc'[p] = "failed" /\ \E s \in job[p].grants : Named(s, rows) = {}
    BY <1>2, Effects DEF ResolveGrants
  <2>2. \A s : Named(s, rows) = {} => Written(s, Earlier) = {}
    BY DEF Written
  <2> QED  BY <1>1, <2>1, <2>2 DEF Cause
<1>3. CASE InsertClient(p) /\ UNCHANGED key
  <2>1. \/ pc'[p] \in {"grants", "start"}
        \/ /\ pc'[p] = "failed" /\ rows' = rows /\ UNCHANGED <<attempt, key>>
           /\ Named(key[p], rows) # {} /\ ~(attempt[p] < MaxAttempts)
    BY <1>3, Effects DEF InsertClient, Collide
  <2>2. ~(attempt[p] < MaxAttempts) => attempt[p] = MaxAttempts
    BY DEF RegistrationTypeOK, RegistrationAssumption
  <2> QED  BY <1>1, <2>1, <2>2 DEF Cause, Named
<1>4. CASE InsertGrants(p) \/ CommitClient(p)
  <2>1. pc'[p] \in {"commit", "done"}
    BY <1>4 DEF RegistrationTypeOK, InsertGrants, CommitClient, Commit, Goto
  <2> QED  BY <1>1, <2>1 DEF Cause
<1> QED  BY <1>2, <1>3, <1>4 DEF Create

(* Whatever a step does to the rows, it does nothing to the other commands.*)
LEMMA StepOfOne ==
    ASSUME RegistrationTypeOK, NEW p \in Commands, Proceed(p) \/ Fault(p)
    PROVE  /\ UNCHANGED job
           /\ rows' = rows \/ rows' = rows \cup pending[p]
           /\ \A q \in Commands \ {p} :
                 pc'[q] = pc[q] /\ key'[q] = key[q] /\ attempt'[q] = attempt[q]
           /\ faults \subseteq faults'
<1>1. /\ pc = [q \in Commands |-> pc[q]] /\ key = [q \in Commands |-> key[q]]
      /\ attempt = [q \in Commands |-> attempt[q]]
  BY DEF RegistrationTypeOK
<1>2. ASSUME NEW next, Undo(p, next) \/ Step(p, next) \/ \E n : Insert(p, n, next) \/ Find(p, n, next)
      PROVE  rows' = rows /\ \A q \in Commands \ {p} : pc'[q] = pc[q]
  BY <1>2, Effects
<1>3. ASSUME NEW end, Commit(p, end)
      PROVE  rows' = rows \cup pending[p] /\ \A q \in Commands \ {p} : pc'[q] = pc[q]
  BY <1>3, OthersAtCommit
<1>4. CASE Index(p) /\ UNCHANGED <<job, attempt, key, revoked, faults>>
  BY <1>2, <1>3, <1>4 DEF Index, AdoptSource, MissSource, InsertSource, FindConfig, InsertConfig,
         CommitConfiguration, TryBuild, CreateRun, EndBuild, Fault
<1>5. CASE Serve(p) /\ UNCHANGED <<job, attempt, key, revoked, faults>>
  <2>1. rows' = rows \/ rows' = rows \cup pending[p]
    BY <1>2, <1>3, <1>5 DEF Serve, Register, Resolve, CommitPolicy
  <2>2. \A q \in Commands \ {p} : pc'[q] = pc[q]
    BY <1>2, <1>3, <1>5 DEF Serve, Register, Resolve, CommitPolicy
  <2> QED  BY <1>5, <2>1, <2>2
<1>6. CASE Create(p) /\ UNCHANGED <<job, revoked, faults>>
  BY <1>1, <1>2, <1>3, <1>6 DEF Create, ResolveGrants, InsertClient, Collide, InsertGrants,
         CommitClient, Goto
<1>7. CASE Revoke(p) /\ UNCHANGED <<job, attempt, key, adopts, faults>>
  BY <1>2, <1>7 DEF Revoke
<1>8. CASE Fault(p)
  BY <1>2, <1>3, <1>8 DEF Fault, LoseAnswer, LoseConnection
<1> QED  BY <1>4, <1>5, <1>6, <1>7, <1>8 DEF Proceed

(* Nobody fails at a revocation, and what fails with its connection has    *)
(* its cause in that.                                                      *)
LEMMA RevokeIsExcused ==
    ASSUME RegistrationTypeOK, NEW p \in Commands, Revoke(p), UNCHANGED job
    PROVE  Missed(p)' /\ Cause(p)'
<1>1. pc'[p] = "done"
  BY Effects DEF Revoke
<1> QED  BY <1>1 DEF Missed, Cause, Is

LEMMA FaultIsExcused ==
    ASSUME RegistrationTypeOK, NEW p \in Commands, Fault(p)
    PROVE  Missed(p)' /\ Cause(p)'
<1>1. p \in faults'
  BY DEF Fault
<1>2. pc'[p] \in {"unknown", "unindexed", "failed"}
  <2>1. CASE LoseAnswer(p)
    BY <2>1 DEF RegistrationTypeOK, LoseAnswer, Commit, Goto
  <2>2. CASE LoseConnection(p)
    BY <2>2, Effects DEF LoseConnection
  <2> QED  BY <2>1, <2>2 DEF Fault
<1> QED  BY <1>1, <1>2 DEF Missed, Cause, Is

LEMMA NextIsExcused ==
    ASSUME RegistrationAssumption, RegistrationTypeOK, Provenance, Informed, Excused,
           [RegistrationNext]_registrationVars
    PROVE  Excused'
<1>1. ASSUME NEW p \in Commands, Proceed(p) \/ Fault(p)  PROVE Excused'
  <2>1. /\ rows' = rows \/ rows' = rows \cup pending[p]
        /\ UNCHANGED job /\ faults \subseteq faults'
        /\ \A q \in Commands \ {p} : pc'[q] = pc[q] /\ key'[q] = key[q] /\ attempt'[q] = attempt[q]
    BY <1>1, StepOfOne
  <2>2. rows \subseteq rows' /\ \A n : Written(n, Earlier)' = Written(n, Earlier)
    <3>1. rows' = rows \/ \E q \in Commands : rows' = rows \cup pending[q]
      BY <2>1
    <3> QED  BY <3>1, EarlierStays
  <2>3. ASSUME NEW q \in Commands \ {p}  PROVE Missed(q)' /\ Cause(q)'
    <3>1. Missed(q) /\ Cause(q) /\ pc'[q] = pc[q] /\ key'[q] = key[q] /\ attempt'[q] = attempt[q]
      BY <2>1, <2>3 DEF Excused
    <3> QED  BY <2>1, <2>2, <2>3, <3>1, OthersStayExcused
  <2>4. Missed(p)' /\ Cause(p)'
    <3>1. Missed(p)
      BY DEF Excused
    <3>2. CASE Fault(p)
      BY <3>2, FaultIsExcused
    <3>3. CASE Index(p)
      BY <2>1, <2>2, <3>1, <3>3, IndexIsExcused
    <3>4. CASE Serve(p)
      BY <2>1, <3>4, ServeIsExcused
    <3>5. CASE Create(p)
      BY <2>1, <2>2, <3>5, CreateIsExcused
    <3>6. CASE Revoke(p)
      BY <2>1, <3>6, RevokeIsExcused
    <3> QED  BY <1>1, <3>2, <3>3, <3>4, <3>5, <3>6 DEF Proceed
  <2> QED  BY <2>3, <2>4 DEF Excused
<1>2. CASE UNCHANGED registrationVars
  BY <1>2 DEF registrationVars, Excused, Missed, Cause, Is, Written, Named
<1> QED  BY <1>1, <1>2 DEF RegistrationNext

LEMMA InitIsExcused == ASSUME RegistrationInit PROVE Excused
<1>1. \A p \in Commands : pc[p] = "start"
  BY DEF RegistrationInit
<1> QED  BY <1>1 DEF Excused, Missed, Cause, Is

(* A command that fails with its connection intact has a reason of its     *)
(* own: never, for an API process, that others register its policy, and    *)
(* for an index command only a row of a concurrent one                     *)
(* (repository_policy.py: register; repository_config.py: ensure).         *)
THEOREM FailuresAreExplained ==
    ASSUME RegistrationAssumption PROVE RegistrationSpec => []FailuresHaveCause
<1>1. RegistrationInit => Excused
  BY InitIsExcused
<1>2. RegistrationTypeOK /\ Provenance /\ Informed /\ Excused /\ [RegistrationNext]_registrationVars
        => Excused'
  BY NextIsExcused
<1>3. RegistrationTypeOK /\ Excused => FailuresHaveCause
  <2>1. ASSUME RegistrationTypeOK, NEW p \in Commands
        PROVE  job[p].kind \in {"index", "serve", "client", "revoke"}
    <3>1. job[p] \in Jobs
      BY <2>1 DEF RegistrationTypeOK
    <3> QED  BY <3>1 DEF Jobs
  <2> QED  BY <2>1 DEF Excused, Cause, FailuresHaveCause
<1> QED  BY <1>1, <1>2, <1>3, InformedHolds, PTL DEF RegistrationSpec

(* The three together: what registrations leave and go on with.            *)
THEOREM RegistrationIsWhole ==
    ASSUME RegistrationAssumption PROVE RegistrationSpec => []RegistrationsAreWhole
<1>1. ResultsAreStored /\ FailuresLeaveNothing /\ GrantsAreWhole => RegistrationsAreWhole
  BY DEF RegistrationsAreWhole
<1> QED  BY <1>1, CommandsAgree, FailedCommandsLeaveNothing, ClientsHaveTheirGrants, PTL
===========================================================================
