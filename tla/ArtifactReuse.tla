--------------------------- MODULE ArtifactReuse ---------------------------
(***************************************************************************)
(* How builds of several sources share what they compute: service.py's     *)
(* IndexService goes through the files of a commit, repository_artifacts.  *)
(* py stores one parse for a content and one vector for a chunk, and reuses*)
(* what other builds have stored.  Builds are transactions of PostgreSQL   *)
(* in READ COMMITTED isolation: they see what is committed and their own   *)
(* rows, and wait when they insert a key that another transaction has      *)
(* inserted; a circular wait is broken by cancelling one of them.          *)
(*                                                                         *)
(* Locks, runs and their activation are in IndexTransactions.  A chunk is  *)
(* a content and a place in it; its text is its hash.                      *)
(***************************************************************************)
EXTENDS Naturals, Sequences, FiniteSets

CONSTANTS
    Builds,         \* index commands, each of a source of its own
    Contents,       \* document contents, by content hash
    Files,          \* the contents of the files of each build, by path order
    Hashes,         \* chunk_hash: chunks with the same search text
    ChunksOf,       \* the hashes of the chunks of each content; none if empty
    Vectors,        \* what the model may answer for each hash
    NoVector,
    MaxFaults       \* bound on failures of the parser or the model

ReuseAssumption ==
    /\ ChunksOf \in [Contents -> Seq(Hashes)]
    /\ Files \in [Builds -> Seq(Contents)]
    /\ NoVector \notin UNION {Vectors[h] : h \in Hashes}
    /\ MaxFaults \in Nat

(* The model always answers the same. *)
SingleAnswers == \A h \in Hashes : \A v, w \in Vectors[h] : v = w

Chunks == UNION {{<<c, i>> : i \in DOMAIN ChunksOf[c]} : c \in Contents}
Hash(k) == ChunksOf[k[1]][k[2]]

VARIABLES
    contents,   \* document_contents, committed
    parses,     \* contents that have a document_parses row, committed
    vectors,    \* chunk_embeddings of each chunk, committed
    linked,     \* contents some committed run has an occurrence of
    tx,         \* the transaction of each build
    faults      \* failures so far

committed == <<contents, parses, vectors, linked>>
reuseVars == <<committed, tx, faults>>

None == [k \in Chunks |-> NoVector]

Steps == {"upsert", "link", "parse", "store", "chunks", "embed", "embed_done", "save", "insert",
          "ready", "committed", "failed"}

Reasons == {"none", "collected", "parse_failure", "embedding_failure", "conflict", "cancelled"}

Stored == {NoVector} \cup UNION {Vectors[h] : h \in Hashes}

Transactions ==
    [step : Steps, file : Nat \ {0}, contents : SUBSET Contents, parses : SUBSET Contents,
     vectors : [Chunks -> Stored], linked : SUBSET Contents, chunk : Nat \ {0},
     missing : SUBSET Chunks, answer : [Hashes -> Stored], after : {"chunks", "embed_done"},
     why : Reasons]

(* What is stored, and what a build has at hand. *)
ReuseTypeOK ==
    /\ contents \subseteq Contents /\ parses \subseteq Contents /\ linked \subseteq Contents
    /\ vectors \in [Chunks -> Stored]
    /\ tx \in [Builds -> Transactions]
    /\ \A b \in Builds : tx[b].file \in DOMAIN Files[b] \cup {1}
    /\ faults \in 0..MaxFaults

(* A build at its first file, if there is one.                             *)
Begun(b) ==
    [step |-> IF Files[b] = <<>> THEN "ready" ELSE "upsert",
     file |-> 1,                \* the file at hand
     contents |-> {},           \* rows inserted, not yet committed
     parses |-> {},
     vectors |-> None,
     linked |-> {},
     chunk |-> 1,               \* the chunk at hand
     missing |-> {},            \* missing_by_hash
     answer |-> [h \in Hashes |-> NoVector],  \* what the model answered
     after |-> "chunks",        \* where a saved vector leads back to
     why |-> "none"]            \* why it failed

(* What builds with another parser or model have left.                     *)
ReuseInit ==
    /\ contents \in SUBSET Contents
    /\ parses \in SUBSET {c \in contents : ChunksOf[c] # <<>>}
    /\ vectors = None /\ linked = {}
    /\ tx = [b \in Builds |-> Begun(b)]
    /\ faults = 0

---------------------------------------------------------------------------
Content(b) == Files[b][tx[b].file]
Chunk(b) == <<Content(b), tx[b].chunk>>

At(b, step) == tx[b].step = step

(* What a build sees: what is committed and its own rows.                  *)
HasContent(b, c) == c \in contents \cup tx[b].contents
HasParse(b, c) == c \in parses \cup tx[b].parses
Vector(b, k) == IF tx[b].vectors[k] # NoVector THEN tx[b].vectors[k] ELSE vectors[k]
Reusable(b, h) == {Vector(b, k) : k \in {k \in Chunks : Hash(k) = h}} \ {NoVector}

(* The builds that have inserted the key that b is about to insert.        *)
InTheWay(b) ==
    {o \in Builds \ {b} :
        \/ At(b, "upsert") /\ Content(b) \in tx[o].contents
        \/ At(b, "store") /\ Content(b) \in tx[o].parses
        \/ At(b, "insert") /\ tx[o].vectors[Chunk(b)] # NoVector}

MustWait(b) == InTheWay(b) # {}

(* A circle of builds of which b is one: each waits for one of them.       *)
Deadlocked(b) ==
    \E circle \in SUBSET Builds :
        /\ b \in circle
        /\ \A o \in circle : /\ InTheWay(o) \cap circle # {}
                             /\ \E q \in circle : o \in InTheWay(q)

(* A step of build b that may have to wait, and the fields it changes.     *)
Change(b, t) == tx' = [tx EXCEPT ![b] = t]

Go(b, step) == Change(b, [tx[b] EXCEPT !.step = step])

(* A transaction that ends without effect but for the reason.              *)
Fail(b, why) == Change(b, [Begun(b) EXCEPT !.step = "failed", !.why = why])

(* Mutant: the loop runs once more. *)
NextFileAndOneMore(t, b) ==
    [t EXCEPT !.step = IF t.file > Len(Files[b]) THEN "ready" ELSE "upsert",
              !.file = @ + 1, !.chunk = 1]

NextFile(t, b) ==
    [t EXCEPT !.step = IF t.file = Len(Files[b]) THEN "ready" ELSE "upsert",
              !.file = IF t.file = Len(Files[b]) THEN t.file ELSE t.file + 1,
              !.chunk = 1]

---------------------------------------------------------------------------
UpsertContent(b) ==
    /\ At(b, "upsert") /\ ~ MustWait(b)
    /\ Change(b, [tx[b] EXCEPT !.step = "link",
                               !.contents = IF HasContent(b, Content(b)) THEN @
                                            ELSE @ \cup {Content(b)}])
    /\ UNCHANGED <<committed, faults>>

(* create_occurrence.  The row may have been collected in between.         *)
Link(b) ==
    /\ At(b, "link")
    /\ IF ~ HasContent(b, Content(b))
       THEN Fail(b, "collected")
       ELSE LET t == [tx[b] EXCEPT !.linked = @ \cup {Content(b)}]
            IN IF ChunksOf[Content(b)] = <<>>
               THEN Change(b, NextFile(t, b))
               ELSE Change(b, [t EXCEPT !.step = "parse"])
    /\ UNCHANGED <<committed, faults>>

FindParse(b) ==
    /\ At(b, "parse")
    /\ \/ Go(b, IF HasParse(b, Content(b)) THEN "chunks" ELSE "store") /\ UNCHANGED faults
       \/ /\ ~ HasParse(b, Content(b))
          /\ faults < MaxFaults /\ faults' = faults + 1
          /\ Fail(b, "parse_failure")
    /\ UNCHANGED committed

(* save_parse: the rows of parse, sections and chunks, or those that are   *)
(* already there.                                                          *)
SaveParse(b) ==
    /\ At(b, "store") /\ ~ MustWait(b)
    /\ Change(b, [tx[b] EXCEPT !.step = "chunks",
                               !.parses = IF HasParse(b, Content(b)) THEN @
                                          ELSE @ \cup {Content(b)}])
    /\ UNCHANGED <<committed, faults>>

(* Mutant: a chunk whose text another chunk of the file has is left out. *)
SkipRepeated(b) ==
    /\ At(b, "chunks") /\ tx[b].chunk <= Len(ChunksOf[Content(b)])
    /\ LET t == tx[b]
           next == [t EXCEPT !.chunk = @ + 1]
           reusable == Reusable(b, Hash(Chunk(b)))
       IN IF Vector(b, Chunk(b)) # NoVector THEN Change(b, next)
          ELSE IF reusable = {}
          THEN Change(b, IF \E k \in t.missing : Hash(k) = Hash(Chunk(b)) THEN next
                         ELSE [next EXCEPT !.missing = @ \cup {Chunk(b)}])
          ELSE IF Cardinality(reusable) > 1 THEN Fail(b, "conflict")
          ELSE Change(b, [t EXCEPT !.step = "save", !.after = "chunks",
                                   !.answer[Hash(Chunk(b))] = CHOOSE v \in reusable : TRUE])
    /\ UNCHANGED <<committed, faults>>

(* A chunk has its vector (find_embedding), or can have that of another    *)
(* chunk with its text (find_reusable_embedding), or is missing.           *)
FindVector(b) ==
    /\ At(b, "chunks") /\ tx[b].chunk <= Len(ChunksOf[Content(b)])
    /\ LET t == tx[b]
           next == [t EXCEPT !.chunk = @ + 1]
           reusable == Reusable(b, Hash(Chunk(b)))
       IN IF Vector(b, Chunk(b)) # NoVector THEN Change(b, next)
          ELSE IF reusable = {}
          THEN Change(b, [next EXCEPT !.missing = @ \cup {Chunk(b)}])
          ELSE IF Cardinality(reusable) > 1 THEN Fail(b, "conflict")
          ELSE Change(b, [t EXCEPT !.step = "save", !.after = "chunks",
                                   !.answer[Hash(Chunk(b))] = CHOOSE v \in reusable : TRUE])
    /\ UNCHANGED <<committed, faults>>

AllFound(b) ==
    /\ At(b, "chunks") /\ tx[b].chunk > Len(ChunksOf[Content(b)])
    /\ Change(b, IF tx[b].missing = {} THEN NextFile(tx[b], b)
                 ELSE [tx[b] EXCEPT !.step = "embed"])
    /\ UNCHANGED <<committed, faults>>

(* embed_documents: one vector for each text.                              *)
Embed(b) ==
    /\ At(b, "embed")
    /\ \/ /\ \E answer \in [{Hash(k) : k \in tx[b].missing} ->
                                UNION {Vectors[h] : h \in Hashes}] :
               /\ \A h \in DOMAIN answer : answer[h] \in Vectors[h]
               /\ Change(b, [tx[b] EXCEPT !.step = "embed_done",
                                          !.answer = [h \in Hashes |->
                                              IF h \in DOMAIN answer THEN answer[h] ELSE @[h]]])
          /\ UNCHANGED faults
       \/ /\ faults < MaxFaults /\ faults' = faults + 1
          /\ Fail(b, "embedding_failure")
    /\ UNCHANGED committed

(* The first place of the text of chunk k in its content.                  *)
First(k) ==
    CHOOSE i \in DOMAIN ChunksOf[k[1]] :
        /\ ChunksOf[k[1]][i] = Hash(k)
        /\ \A j \in DOMAIN ChunksOf[k[1]] : ChunksOf[k[1]][j] = Hash(k) => i <= j

Before(k, l) ==
    \/ First(k) < First(l)
    \/ First(k) = First(l) /\ k[2] <= l[2]

(* The missing chunks one after the other, those of one text together.     *)
NextMissing(b) ==
    /\ At(b, "embed_done")
    /\ \/ tx[b].missing = {} /\ Change(b, NextFile(tx[b], b))
       \/ \E k \in tx[b].missing :
            /\ \A l \in tx[b].missing : Before(k, l)
            /\ Change(b, [tx[b] EXCEPT !.step = "save", !.after = "embed_done",
                                       !.chunk = k[2], !.missing = @ \ {k}])
    /\ UNCHANGED <<committed, faults>>

Saved(b, t) ==
    Change(b, [t EXCEPT !.step = t.after, !.chunk = IF t.after = "chunks" THEN @ + 1 ELSE @])

Given(b) == tx[b].answer[Hash(Chunk(b))]

(* save_embedding: what is stored agrees with the vector, *)
CheckVector(b) ==
    /\ At(b, "save")
    /\ LET stored == Vector(b, Chunk(b))
       IN IF stored # NoVector
          THEN IF stored = Given(b) THEN Saved(b, tx[b]) ELSE Fail(b, "conflict")
          ELSE IF Reusable(b, Hash(Chunk(b))) \subseteq {Given(b)}
          THEN Go(b, "insert")
          ELSE Fail(b, "conflict")
    /\ UNCHANGED <<committed, faults>>

(* and the vector is inserted, or is there meanwhile and agrees.           *)
InsertVector(b) ==
    /\ At(b, "insert") /\ ~ MustWait(b)
    /\ LET stored == Vector(b, Chunk(b))
       IN IF stored = NoVector
          THEN Saved(b, [tx[b] EXCEPT !.vectors[Chunk(b)] = Given(b)])
          ELSE IF stored = Given(b) THEN Saved(b, tx[b])
          ELSE Fail(b, "conflict")
    /\ UNCHANGED <<committed, faults>>

(* PostgreSQL cancels one of those that wait for each other.               *)
Cancel(b) ==
    /\ Deadlocked(b)
    /\ Fail(b, "cancelled")
    /\ UNCHANGED <<committed, faults>>

(* mark_ready, and the commit of the whole build.                          *)
Commit(b) ==
    /\ At(b, "ready")
    /\ contents' = contents \cup tx[b].contents
    /\ parses' = parses \cup tx[b].parses
    /\ vectors' = [k \in Chunks |-> Vector(b, k)]
    /\ linked' = linked \cup tx[b].linked
    /\ Change(b, [Begun(b) EXCEPT !.step = "committed"])
    /\ UNCHANGED faults

(* The retention of another source collects a content that no run has, and *)
(* with it its parse and vectors.                                          *)
Collect(c) ==
    /\ c \in contents \ linked
    /\ \A b \in Builds : c \notin tx[b].linked
    /\ contents' = contents \ {c}
    /\ parses' = parses \ {c}
    /\ vectors' = [k \in Chunks |-> IF k[1] = c THEN NoVector ELSE vectors[k]]
    /\ UNCHANGED <<linked, tx, faults>>

Build(b) ==
    \/ UpsertContent(b) \/ Link(b) \/ FindParse(b) \/ SaveParse(b)
    \/ FindVector(b) \/ AllFound(b) \/ Embed(b) \/ NextMissing(b)
    \/ CheckVector(b) \/ InsertVector(b) \/ Cancel(b) \/ Commit(b)

ReuseNext == (\E b \in Builds : Build(b)) \/ (\E c \in Contents : Collect(c))

(* A command goes on unless it waits for the row of another. *)
ReuseSpec == ReuseInit /\ [][ReuseNext]_reuseVars /\ \A b \in Builds : WF_reuseVars(Build(b))

---------------------------------------------------------------------------
(* Whatever a committed run links can be searched: it is parsed, and every *)
(* chunk of it has a vector, whoever computed it.                          *)
LinkedIsSearchable ==
    \A c \in linked :
        /\ c \in contents
        /\ ChunksOf[c] # <<>> => c \in parses
        /\ \A i \in DOMAIN ChunksOf[c] : vectors[<<c, i>>] # NoVector

(* "Load one calculation shared by identical chunk content and config."    *)
(* (repository_artifacts.py:290)                                           *)
OneVectorPerText ==
    \A k \in Chunks, l \in Chunks :
        Hash(k) = Hash(l) /\ NoVector \notin {vectors[k], vectors[l]} => vectors[k] = vectors[l]

(* What one build stores never makes another one fail, in whatever order   *)
(* their statements come, if the model always answers the same.            *)
SharingIsHarmless == \A b \in Builds : tx[b].why # "conflict"

(* The vector of a chunk is one the model answered for its text, although  *)
(* it may have been given for another chunk, or by another build.          *)
VectorsAreOfTheirText ==
    \A k \in Chunks : vectors[k] # NoVector => vectors[k] \in Vectors[Hash(k)]

(* Whatever a committed run links can be searched, by vectors of its own   *)
(* texts, and what one build stores never makes another one fail.          *)
ReuseIsSafe == LinkedIsSearchable /\ VectorsAreOfTheirText /\ SharingIsHarmless

(* Every build ends, those that wait for each other included. *)
BuildsEnd == \A b \in Builds : <>(tx[b].step \in {"committed", "failed"})
===========================================================================
