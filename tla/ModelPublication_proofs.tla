---------------------- MODULE ModelPublication_proofs ---------------------
(***************************************************************************)
(* Preparations implement PublishedModel, for any number of processes,     *)
(* contents, faults, kills and power losses: a model that was reported     *)
(* prepared is there for ever, it can be loaded, and a preparation that    *)
(* fails puts back what it found.                                          *)
(*                                                                         *)
(* The lock is the argument: whoever has begun holds it, so that what a    *)
(* preparation has learned of the manifest is what PublishedModel says of  *)
(* the one publication (Knows).  That a model can be loaded rests on what  *)
(* stands on the disk, which no step but a move that is cut off endangers  *)
(* (Stands, Settled, Named, Seen); that a failure restores, on what the    *)
(* inode of the manifest tells a rollback (Restores).                      *)
(***************************************************************************)
EXTENDS ModelPublication, TLAPS

Downloaded == (Body \ {"download"}) \cup {"reopen"} \cup Recorded
Written == {"reopen"} \cup Recorded
Synchronized == {"revalidate", "commit", "final"}

(* What the process that holds the lock may rely on, by its step.          *)
Knows ==
    \A p \in Preparers :
        /\ pc[p] \in Downloaded => content[p] \in Contents
        /\ pc[p] \in Written => manifest.names # NoModel
        /\ pc[p] \in Synchronized => NoModel \notin Durable

Inv == TypeOK /\ Knows

(* What PublishedModel keeps of itself beside PreparedStays.               *)
Kept ==
    /\ manifest.names \in Durable /\ NoModel \notin Intact
    /\ Phase # "none" => Verified # NoModel
    /\ prepared =>
           NoModel \notin Durable /\ (Phase \in {"observed", "published"} => Prior # NoModel)

(* The snapshot of c is there, now and after a power loss, unless its move *)
(* was once cut off.                                                       *)
Stands(c) == c \in unsettled \/ "absent" \notin onDisk[c] \cup {snapshot[c]}

(* A snapshot stands, or is just being moved, and one that is about to be  *)
(* published stands.                                                       *)
Settled ==
    /\ \A c \in Contents : snapshot[c] # "absent" =>
           Stands(c) \/ \E p \in Preparers : pc[p] = "settle" /\ content[p] = c
    /\ \A p \in Preparers :
           /\ pc[p] = "settle" => snapshot[content[p]] # "absent"
           /\ pc[p] \in {"backup", "replace"} => Stands(content[p])

(* Every manifest that is in place, may come back after a power loss or    *)
(* may be put back by a rollback names a snapshot that stands; none has an *)
(* inode that is still to be used.                                         *)
Entries == survivors \cup {manifest} \cup {previous[p] : p \in Preparers}
IsNamed(entry) ==
    /\ entry.inode \in 0 .. inodes
    /\ entry = NoManifest \/ (entry.names \in Contents /\ Stands(entry.names))
Named ==
    /\ \A entry \in Entries : IsNamed(entry)
    /\ \A p \in Preparers :
           /\ published[p] \in 0 .. inodes
           /\ pc[p] \in {"recheck", "rewrite"} => previous[p] # NoManifest

(* So does every manifest a reader has open.                               *)
Seen ==
    \A r \in Readers : stands[r] \in {"read", "hash"} =>
        reading[r].names \in Contents /\ Stands(reading[r].names)

(* What a failure finds to put back, by the step of the preparation: the   *)
(* manifest is untouched, or it is the one just published and the one kept *)
(* is what was found.  At the steps in between it may be either, and the   *)
(* code looks which.                                                       *)
Untouched == {"download", "compare", "settle", "pin", "backup", "replace"}
InDoubt == {"reopen", "rollback", "recheck"} \cup Recorded
Restores(p) ==
    /\ pc[p] \in Untouched \cup {"resync"} \/ (pc[p] = "cleanup" /\ failed[p]) =>
           manifest.names = found[p]
    /\ pc[p] \in Untouched \cup {"reopen"} \cup Recorded => ~failed[p]
    /\ pc[p] \in Replacing => previous[p].names = found[p]
    /\ pc[p] \in InDoubt => IF OwnsManifest(p) THEN previous[p].names = found[p]
                             ELSE manifest.names = found[p]
Restorable == \A p \in Preparers : ~spoiled[p] => Restores(p)

---------------------------------------------------------------------------
(* The holder of the lock is whoever has begun.                            *)
LEMMA Exclusive ==
    ASSUME NullsAssumption, TypeOK, NEW p \in Preparers, pc[p] # "idle"
    PROVE  /\ lock = p /\ lock # Nobody
           /\ \A q \in Preparers : q # p => pc[q] = "idle" /\ ~backup[q] /\ ~failed[q]
<1> QED  BY DEF TypeOK, NullsAssumption

LEMMA ForgetTypes ==
    ASSUME TypeOK, NEW ps, Forget(ps)
    PROVE  /\ pc' \in [Preparers -> Steps]
           /\ content' \in [Preparers -> Contents \cup {NoModel}]
           /\ previous' \in [Preparers -> Manifests] /\ published' \in [Preparers -> Nat]
           /\ backup' \in [Preparers -> BOOLEAN] /\ failed' \in [Preparers -> BOOLEAN]
           /\ found' \in [Preparers -> Contents \cup {NoModel}]
           /\ spoiled' \in [Preparers -> BOOLEAN]
           /\ \A p \in Preparers :
                 /\ p \in ps => pc'[p] = "idle" /\ ~backup'[p] /\ ~failed'[p]
                 /\ p \notin ps =>
                       pc'[p] = pc[p] /\ backup'[p] = backup[p] /\ failed'[p] = failed[p]
<1> USE DEF TypeOK, Forget
<1>1. pc' \in [Preparers -> Steps]
  BY DEF Steps
<1>2. content' \in [Preparers -> Contents \cup {NoModel}]
  OBVIOUS
<1>3. previous' \in [Preparers -> Manifests]
  BY DEF Manifests, NoManifest
<1>4. published' \in [Preparers -> Nat]
  OBVIOUS
<1>5. backup' \in [Preparers -> BOOLEAN] /\ failed' \in [Preparers -> BOOLEAN]
  OBVIOUS
<1>6. /\ found' \in [Preparers -> Contents \cup {NoModel}]
      /\ spoiled' \in [Preparers -> BOOLEAN]
  OBVIOUS
<1> QED  BY <1>1, <1>2, <1>3, <1>4, <1>5, <1>6

LEMMA TouchTypes ==
    ASSUME TypeOK, NEW ids, Touch(ids)
    PROVE  disturbed' \in [Readers -> BOOLEAN]
<1> QED  BY DEF TypeOK, Touch

LEMMA SpendTypes ==
    ASSUME TypeOK, NEW event \in DOMAIN Limits, Spend(event)
    PROVE  used' \in [DOMAIN Limits -> Nat]
<1> QED  BY DEF TypeOK, Spend, Limits

---------------------------------------------------------------------------
(* Type correctness.                                                       *)
LEMMA InitTypes == ASSUME NullsAssumption, Init PROVE TypeOK
<1>1. NoManifest \in Manifests
  BY DEF NoManifest, Manifests
<1>2. used \in [DOMAIN Limits -> Nat]
  BY DEF Init
<1> QED  BY <1>1, <1>2 DEF Init, TypeOK, NullsAssumption, States, Steps

(* The step of p may cut off a move.                                       *)
LEMMA CutOffTypes ==
    ASSUME Inv, NEW p \in Preparers, CutOff(p)
    PROVE  unsettled' \subseteq Contents
<1>1. pc[p] = "settle" => content[p] \in Contents
  BY DEF Inv, Knows, Downloaded, Body
<1> QED  BY <1>1 DEF Inv, TypeOK, CutOff

LEMMA NextTypes == ASSUME NullsAssumption, Inv, [Next]_vars PROVE TypeOK'
<1>0. TypeOK
  BY DEF Inv
<1> USE <1>0
<1> USE DEF NullsAssumption, TypeOK, files, prepare, readers, Steps, Body, Recorded, Undoing,
            States, Manifests, NoManifest, Limits, Spend, Goto
<1>1. ASSUME NEW p \in Preparers, TakeLock(p)  PROVE TypeOK'
  BY <1>1 DEF TakeLock
<1>2. ASSUME NEW p \in Preparers, RefuseLock(p)  PROVE TypeOK'
  BY <1>2 DEF RefuseLock
<1>3. ASSUME NEW p \in Preparers, Download(p)  PROVE TypeOK'
  BY <1>3 DEF Download
<1>4. ASSUME NEW p \in Preparers, MoveStage(p)  PROVE TypeOK'
  BY <1>4 DEF MoveStage
<1>5. ASSUME NEW p \in Preparers, ReuseSnapshot(p)  PROVE TypeOK'
  BY <1>5 DEF ReuseSnapshot
<1>6. ASSUME NEW p \in Preparers, SettleSnapshot(p)  PROVE TypeOK'
  BY <1>6 DEF SettleSnapshot
<1>7. ASSUME NEW p \in Preparers, Pin(p)  PROVE TypeOK'
  BY <1>7 DEF Pin
<1>8. ASSUME NEW p \in Preparers, KeepPrevious(p)  PROVE TypeOK'
  BY <1>8 DEF KeepPrevious, Touch, FsyncManifest
<1>9. ASSUME NEW p \in Preparers, ReplaceManifest(p)  PROVE TypeOK'
  BY <1>9 DEF ReplaceManifest, Touch, PutManifest
<1>10. ASSUME NEW p \in Preparers, RecordPublication(p)  PROVE TypeOK'
  BY <1>10 DEF RecordPublication
<1>11. ASSUME NEW p \in Preparers, SynchronizeManifest(p)  PROVE TypeOK'
  BY <1>11 DEF SynchronizeManifest, FsyncManifest
<1>12. ASSUME NEW p \in Preparers, Revalidate(p)  PROVE TypeOK'
  BY <1>12 DEF Revalidate
<1>13. ASSUME NEW p \in Preparers, RemoveBackup(p)  PROVE TypeOK'
  <2>1. disturbed' \in [Readers -> BOOLEAN] /\ survivors' \subseteq Manifests
    BY <1>13 DEF RemoveBackup, Touch, FsyncManifest
  <2> QED  BY <1>13, <2>1 DEF RemoveBackup
<1>14. ASSUME NEW p \in Preparers, ReportPrepared(p)  PROVE TypeOK'
  BY <1>14 DEF ReportPrepared
<1>15. ASSUME NEW p \in Preparers, RefuseSnapshot(p)  PROVE TypeOK'
  BY <1>15 DEF RefuseSnapshot, Fail, Handler
<1>16. ASSUME NEW p \in Preparers, BeginRollback(p)  PROVE TypeOK'
  BY <1>16 DEF BeginRollback
<1>17. ASSUME NEW p \in Preparers, PutBack(p)  PROVE TypeOK'
  BY <1>17 DEF PutBack, Touch, PutManifest
<1>18. ASSUME NEW p \in Preparers, RecheckManifest(p)  PROVE TypeOK'
  BY <1>18 DEF RecheckManifest, FsyncManifest
<1>19. ASSUME NEW p \in Preparers, RewritePrevious(p)  PROVE TypeOK'
  BY <1>19 DEF RewritePrevious, Touch, PutManifest
<1>20. ASSUME NEW p \in Preparers, Resynchronize(p)  PROVE TypeOK'
  BY <1>20 DEF Resynchronize, FsyncManifest
<1>21. ASSUME NEW p \in Preparers, Fault(p)  PROVE TypeOK'
  <2>1. unsettled' \subseteq Contents
    BY <1>21, CutOffTypes DEF Fault
  <2> QED  BY <1>21, <2>1 DEF Fault, Fail, Handler, Fragile
<1>22. ASSUME NEW p \in Preparers, CleanUp(p) \/ Kill(p)  PROVE TypeOK'
  <2>1. /\ Forget({p}) /\ lock' = Nobody
        /\ UNCHANGED <<manifest, survivors, snapshot, onDisk, inodes, prepared, reading, stands,
                       expects>>
    BY <1>22 DEF CleanUp, Kill
  <2>2. disturbed' \in [Readers -> BOOLEAN] /\ used' \in [DOMAIN Limits -> Nat]
    <3>1. CASE CleanUp(p)
      BY <3>1 DEF CleanUp, Touch
    <3>2. CASE Kill(p)
      BY <3>2 DEF Kill
    <3> QED  BY <1>22, <3>1, <3>2
  <2>3. \A q \in Preparers : pc'[q] = "idle" /\ ~backup'[q] /\ ~failed'[q]
    <3>1. pc[p] # "idle"
      BY <1>22 DEF CleanUp, Kill
    <3>2. \A q \in Preparers : q # p => pc[q] = "idle" /\ ~backup[q] /\ ~failed[q]
      BY <3>1, Exclusive
    <3> QED  BY <2>1, <3>2, ForgetTypes
  <2>4. unsettled' \subseteq Contents
    BY <1>22, CutOffTypes DEF CleanUp, Kill
  <2> HIDE DEF Limits, Steps, Manifests, Spend
  <2> QED  BY <2>1, <2>2, <2>3, <2>4, ForgetTypes
<1>23. ASSUME NEW r \in Readers, OpenManifest(r)  PROVE TypeOK'
  BY <1>23 DEF OpenManifest, Answer
<1>24. ASSUME NEW r \in Readers, ReadManifest(r)  PROVE TypeOK'
  BY <1>24 DEF ReadManifest, Answer
<1>25. ASSUME NEW r \in Readers, RefuseRead(r)  PROVE TypeOK'
  BY <1>25 DEF RefuseRead, Answer
<1>26. ASSUME NEW r \in Readers, HashSnapshot(r)  PROVE TypeOK'
  BY <1>26 DEF HashSnapshot, Answer
<1>27. ASSUME NEW c \in Contents, WriteBack(c)  PROVE TypeOK'
  BY <1>27 DEF WriteBack
<1>28. ASSUME NEW c \in Contents, ReplaceByHand(c)  PROVE TypeOK'
  BY <1>28 DEF ReplaceByHand, PutManifest, Touch, Replacing
<1>29. ASSUME NEW c \in Contents, Damage(c)  PROVE TypeOK'
  BY <1>29 DEF Damage
<1>30. CASE LosePower
  <2>1. Forget(Preparers) /\ lock' = Nobody
    BY <1>30 DEF LosePower
  <2>2. \A q \in Preparers : pc'[q] = "idle" /\ ~backup'[q] /\ ~failed'[q]
    BY <2>1, ForgetTypes
  <2>3. /\ manifest' \in Manifests /\ survivors' \subseteq Manifests
        /\ snapshot' \in [Contents -> States] /\ onDisk' \in [Contents -> SUBSET States]
        /\ stands' \in [Readers -> {"idle", "read", "hash", "found", "missed"}]
        /\ used' \in [DOMAIN Limits -> Nat]
        /\ UNCHANGED <<unsettled, inodes, prepared, reading, disturbed, expects>>
    BY <1>30 DEF LosePower
  <2> HIDE DEF Limits, Steps, Manifests, Spend, States
  <2> QED  BY <2>1, <2>2, <2>3, ForgetTypes
<1>31. CASE UNCHANGED vars
  BY <1>31 DEF vars
<1> QED
  BY <1>1, <1>2, <1>3, <1>4, <1>5, <1>6, <1>7, <1>8, <1>9, <1>10, <1>11, <1>12, <1>13, <1>14,
     <1>15, <1>16, <1>17, <1>18, <1>19, <1>20, <1>21, <1>22, <1>23, <1>24, <1>25, <1>26, <1>27,
     <1>28, <1>29, <1>30, <1>31
  DEF Next, Prepare, Read

---------------------------------------------------------------------------
(* What the holder of the lock relies on.                                  *)
LEMMA PublicationOfHolder ==
    ASSUME NullsAssumption, NEW p \in Preparers
    PROVE  /\ lock = p =>
                /\ Phase = PhaseOf(pc[p])
                /\ Verified = IF PhaseOf(pc[p]) = "none" THEN NoModel ELSE content[p]
                /\ Prior = IF PhaseOf(pc[p]) \in {"observed", "published"}
                           THEN previous[p].names ELSE NoModel
           /\ lock' = p =>
                /\ Phase' = PhaseOf(pc'[p])
                /\ Verified' = IF PhaseOf(pc'[p]) = "none" THEN NoModel ELSE content'[p]
                /\ Prior' = IF PhaseOf(pc'[p]) \in {"observed", "published"}
                            THEN previous'[p].names ELSE NoModel
<1>1. p # Nobody
  BY DEF NullsAssumption
<1> QED  BY <1>1 DEF Phase, Verified, Prior

LEMMA NoPublication ==
    /\ lock = Nobody => Phase = "none" /\ Verified = NoModel /\ Prior = NoModel
    /\ lock' = Nobody => Phase' = "none" /\ Verified' = NoModel /\ Prior' = NoModel
    /\ Phase = "none" => Verified = NoModel /\ Prior = NoModel
<1> QED  BY DEF Phase, Verified, Prior

LEMMA DurableFacts ==
    /\ UNCHANGED survivors => Durable' = Durable
    /\ FsyncManifest /\ UNCHANGED manifest => Durable' = {manifest.names}
    /\ \A entry : PutManifest(entry) =>
           /\ manifest' = entry
           /\ Durable' = Durable \cup {entry.names}
<1> QED  BY DEF Durable, FsyncManifest, PutManifest

(* Nobody puts a manifest there, and no snapshot comes or is damaged.      *)
KeepsIntact == Intact' = Intact /\ used'["replacement"] = used["replacement"]

LEMMA IntactSteps ==
    ASSUME TypeOK
    PROVE  /\ UNCHANGED <<snapshot, used>> => KeepsIntact
           /\ \A event \in {"prepare", "read", "fault", "kill"} :
                  UNCHANGED snapshot /\ Spend(event) => KeepsIntact
<1>1. UNCHANGED snapshot => Intact' = Intact
  BY DEF Intact
<1>2. ASSUME NEW event \in {"prepare", "read", "fault", "kill"}, Spend(event)
      PROVE  used'["replacement"] = used["replacement"]
  BY <1>2 DEF Spend, TypeOK, Limits
<1> QED  BY <1>1, <1>2 DEF KeepsIntact

(* A step that leaves the manifest, what is durable of it, and what was    *)
(* reported alone, and stays in its phase, is none of PublishedModel's.    *)
LEMMA Stutter ==
    ASSUME UNCHANGED <<manifest, prepared>>, Durable' = Durable, KeepsIntact,
           Phase' = Phase, Verified' = Verified, Prior' = Prior
    PROVE  UNCHANGED Model!vars
<1> QED  BY DEF Model!vars, KeepsIntact

(* The end of a publication, with or without a synchronization.            *)
LEMMA Ending ==
    ASSUME UNCHANGED manifest, Durable' \in {Durable, {manifest.names}}, KeepsIntact,
           Phase # "none", Phase' = "none", Verified' = NoModel, Prior' = NoModel,
           \/ UNCHANGED prepared
           \/ /\ prepared' = TRUE /\ NoModel \notin Durable
              /\ Phase = "published" /\ manifest.names = Verified /\ Verified \in Intact,
           prepared \in BOOLEAN
    PROVE  Model!Next
<1>1. CASE UNCHANGED prepared
  <2>1. Model!End(FALSE)
    BY <1>1 DEF Model!End, Model!Synchronized, KeepsIntact
  <2> QED  BY <2>1 DEF Model!Next
<1>2. CASE /\ prepared' = TRUE /\ NoModel \notin Durable
           /\ Phase = "published" /\ manifest.names = Verified /\ Verified \in Intact
  <2>1. Model!End(TRUE)
    BY <1>2 DEF Model!End, Model!Synchronized, KeepsIntact
  <2> QED  BY <2>1 DEF Model!Next
<1> QED  BY <1>1, <1>2

---------------------------------------------------------------------------
(* What a preparation relies on stays true: only it writes the manifest,   *)
(* and whoever replaces it by hand puts a model there.                     *)
LEMMA InitKnows == ASSUME Init PROVE Knows
<1> QED  BY DEF Init, Knows, Downloaded, Written, Synchronized, Body, Recorded

(* A preparation that goes on need only look at itself.                    *)
LEMMA KnowsOfHolder ==
    ASSUME NullsAssumption, TypeOK, NEW p \in Preparers, pc[p] # "idle",
           \A q \in Preparers : q # p => pc'[q] = pc[q],
           pc'[p] \in Downloaded => content'[p] \in Contents,
           pc'[p] \in Written => manifest'.names # NoModel,
           pc'[p] \in Synchronized => NoModel \notin Durable'
    PROVE  Knows'
<1>1. \A q \in Preparers : q # p => pc'[q] = "idle"
  BY Exclusive
<1>2. "idle" \notin Downloaded \cup Written \cup Synchronized
  BY DEF Downloaded, Written, Synchronized, Body, Recorded
<1> HIDE DEF Downloaded, Written, Synchronized
<1> QED  BY <1>1, <1>2 DEF Knows

LEMMA NextKnows == ASSUME NullsAssumption, Inv, [Next]_vars PROVE Knows'
<1> DEFINE Aside(p) == /\ pc[p] # "idle"
                       /\ \A q \in Preparers : q # p => pc'[q] = pc[q]
<1> USE DEF Downloaded, Written, Synchronized, Body, Recorded
<1>1. TypeOK /\ Knows
  BY DEF Inv
<1>2. /\ pc \in [Preparers -> Steps] /\ content \in [Preparers -> Contents \cup {NoModel}]
      /\ NoModel \notin Contents
  BY <1>1 DEF TypeOK, NullsAssumption
<1>3. ASSUME NEW p \in Preparers, Aside(p), UNCHANGED <<manifest, survivors, content>>,
             pc'[p] \in Downloaded => pc[p] \in Downloaded,
             pc'[p] \in Written => pc[p] \in Written,
             pc'[p] \in Synchronized => pc[p] \in Synchronized
      PROVE  Knows'
  <2>1. content'[p] = content[p] /\ manifest'.names = manifest.names /\ Durable' = Durable
    BY <1>3, DurableFacts
  <2> HIDE DEF Downloaded, Written, Synchronized
  <2> QED  BY <1>1, <1>3, <2>1, KnowsOfHolder DEF Knows
<1>4. ASSUME NEW p \in Preparers, TakeLock(p)  PROVE Knows'
  <2>1. /\ \A q \in Preparers : pc'[q] # pc[q] => pc'[q] = "download"
        /\ UNCHANGED <<files, content>>
    BY <1>2, <1>4 DEF TakeLock, Goto
  <2>2. Durable' = Durable
    BY <2>1, DurableFacts DEF files
  <2> QED  BY <1>1, <2>1, <2>2 DEF Knows, files
<1>5. ASSUME NEW p \in Preparers, RefuseLock(p)  PROVE Knows'
  <2>1. UNCHANGED <<files, content, pc>>
    BY <1>5 DEF RefuseLock, prepare
  <2>2. Durable' = Durable
    BY <2>1, DurableFacts DEF files
  <2> QED  BY <1>1, <2>1, <2>2 DEF Knows, files
<1>6. ASSUME NEW p \in Preparers, Download(p)  PROVE Knows'
  <2>1. Aside(p) /\ pc'[p] = "compare" /\ content'[p] \in Contents
    BY <1>2, <1>6 DEF Download, Goto
  <2> QED  BY <1>1, <2>1, KnowsOfHolder
<1>7. ASSUME NEW p \in Preparers, ReuseSnapshot(p)  PROVE Knows'
  <2>1. /\ Aside(p) /\ UNCHANGED <<manifest, survivors, content>>
        /\ pc'[p] \in Downloaded => pc[p] \in Downloaded
        /\ pc'[p] \in Written => pc[p] \in Written
        /\ pc'[p] \in Synchronized => pc[p] \in Synchronized
    BY <1>2, <1>7 DEF ReuseSnapshot, Goto, files, prepare
  <2> QED  BY <1>3, <2>1
<1>8. ASSUME NEW p \in Preparers, Pin(p)  PROVE Knows'
  <2>1. /\ Aside(p) /\ UNCHANGED <<manifest, survivors, content>>
        /\ pc'[p] \in Downloaded => pc[p] \in Downloaded
        /\ pc'[p] \in Written => pc[p] \in Written
        /\ pc'[p] \in Synchronized => pc[p] \in Synchronized
    BY <1>2, <1>8 DEF Pin, Goto, files, prepare
  <2> QED  BY <1>3, <2>1
<1>9. ASSUME NEW p \in Preparers, RecordPublication(p)  PROVE Knows'
  <2>1. /\ Aside(p) /\ UNCHANGED <<manifest, survivors, content>>
        /\ pc'[p] \in Downloaded => pc[p] \in Downloaded
        /\ pc'[p] \in Written => pc[p] \in Written
        /\ pc'[p] \in Synchronized => pc[p] \in Synchronized
    BY <1>2, <1>9 DEF RecordPublication, Goto, files, prepare
  <2> QED  BY <1>3, <2>1
<1>10. ASSUME NEW p \in Preparers, BeginRollback(p)  PROVE Knows'
  <2>1. /\ Aside(p) /\ UNCHANGED <<manifest, survivors, content>>
        /\ pc'[p] \in Downloaded => pc[p] \in Downloaded
        /\ pc'[p] \in Written => pc[p] \in Written
        /\ pc'[p] \in Synchronized => pc[p] \in Synchronized
    BY <1>2, <1>10 DEF BeginRollback, Goto, files, prepare
  <2> QED  BY <1>3, <2>1
<1>11. ASSUME NEW p \in Preparers, Revalidate(p)  PROVE Knows'
  <2>1. /\ Aside(p) /\ UNCHANGED <<manifest, survivors, content>>
        /\ pc'[p] \in Downloaded => pc[p] \in Downloaded
        /\ pc'[p] \in Written => pc[p] \in Written
        /\ pc'[p] \in Synchronized => pc[p] \in Synchronized
    BY <1>2, <1>11 DEF Revalidate, Goto, files, prepare
  <2> QED  BY <1>3, <2>1
<1>12. ASSUME NEW p \in Preparers, ReportPrepared(p)  PROVE Knows'
  <2>1. /\ Aside(p) /\ UNCHANGED <<manifest, survivors, content>>
        /\ pc'[p] \in Downloaded => pc[p] \in Downloaded
        /\ pc'[p] \in Written => pc[p] \in Written
        /\ pc'[p] \in Synchronized => pc[p] \in Synchronized
    BY <1>2, <1>12 DEF ReportPrepared, Goto, files, prepare
  <2> QED  BY <1>3, <2>1
<1>13. ASSUME NEW p \in Preparers, RefuseSnapshot(p) \/ Fault(p)  PROVE Knows'
  <2>1. Fail(p) /\ UNCHANGED <<manifest, survivors, content>> /\ pc[p] # "idle"
    BY <1>13 DEF RefuseSnapshot, Fault, files, prepare
  <2>2. Aside(p) /\ pc'[p] \in {"rollback", "cleanup"}
    BY <1>2, <2>1 DEF Fail, Handler, Goto
  <2> QED  BY <1>3, <2>1, <2>2
<1>14. ASSUME NEW p \in Preparers, MoveStage(p) \/ SettleSnapshot(p)  PROVE Knows'
  <2>1. /\ Aside(p) /\ pc[p] \in Downloaded /\ pc'[p] \in {"settle", "pin"}
        /\ UNCHANGED <<manifest, survivors, content>>
    BY <1>2, <1>14 DEF MoveStage, SettleSnapshot, Goto, prepare
  <2>2. content[p] \in Contents
    BY <1>1, <2>1 DEF Knows
  <2> QED  BY <1>1, <2>1, <2>2, KnowsOfHolder
<1>15. ASSUME NEW p \in Preparers, KeepPrevious(p)  PROVE Knows'
  <2>1. Aside(p) /\ pc[p] = "backup" /\ pc'[p] = "replace" /\ content' = content
    BY <1>2, <1>15 DEF KeepPrevious, Goto
  <2>2. content[p] \in Contents
    BY <1>1, <2>1 DEF Knows
  <2> QED  BY <1>1, <2>1, <2>2, KnowsOfHolder
<1>16. ASSUME NEW p \in Preparers, ReplaceManifest(p)  PROVE Knows'
  <2>1. /\ Aside(p) /\ pc[p] = "replace" /\ pc'[p] = "reopen" /\ content' = content
        /\ PutManifest([inode |-> inodes + 1, names |-> content[p]])
    BY <1>2, <1>16 DEF ReplaceManifest, Goto
  <2>2. content[p] \in Contents
    BY <1>1, <2>1 DEF Knows
  <2>3. manifest'.names # NoModel
    BY <1>2, <2>1, <2>2 DEF PutManifest
  <2> QED  BY <1>1, <2>1, <2>2, <2>3, KnowsOfHolder
<1>17. ASSUME NEW p \in Preparers, SynchronizeManifest(p)  PROVE Knows'
  <2>1. /\ Aside(p) /\ pc[p] = "synchronize" /\ pc'[p] = "revalidate"
        /\ FsyncManifest /\ UNCHANGED <<manifest, content>>
    BY <1>2, <1>17 DEF SynchronizeManifest, Goto, prepare
  <2>2. content[p] \in Contents /\ manifest.names # NoModel
    BY <1>1, <2>1 DEF Knows
  <2>3. Durable' = {manifest.names}
    BY <2>1, DurableFacts
  <2> QED  BY <1>1, <2>1, <2>2, <2>3, KnowsOfHolder
<1>18. ASSUME NEW p \in Preparers, RemoveBackup(p)  PROVE Knows'
  <2>1. /\ Aside(p) /\ pc[p] = "commit" /\ pc'[p] = "final"
        /\ UNCHANGED <<manifest, content>> /\ (FsyncManifest \/ UNCHANGED survivors)
    BY <1>2, <1>18 DEF RemoveBackup, Goto
  <2>2. content[p] \in Contents /\ manifest.names # NoModel /\ NoModel \notin Durable
    BY <1>1, <2>1 DEF Knows
  <2>3. NoModel \notin Durable'
    BY <2>1, <2>2, DurableFacts
  <2> QED  BY <1>1, <2>1, <2>2, <2>3, KnowsOfHolder
<1>19. ASSUME NEW p \in Preparers,
              PutBack(p) \/ RecheckManifest(p) \/ RewritePrevious(p) \/ Resynchronize(p)
       PROVE  Knows'
  <2>1. Aside(p) /\ pc'[p] \in {"rewrite", "resync", "cleanup"}
    BY <1>2, <1>19 DEF PutBack, RecheckManifest, RewritePrevious, Resynchronize, Goto
  <2> QED  BY <1>1, <2>1, KnowsOfHolder
<1>20. ASSUME NEW p \in Preparers, CleanUp(p) \/ Kill(p)  PROVE Knows'
  <2>1. Aside(p) /\ pc'[p] = "idle"
    BY <1>1, <1>20, ForgetTypes DEF CleanUp, Kill
  <2> QED  BY <1>1, <2>1, KnowsOfHolder
<1>21. ASSUME NEW r \in Readers, Read(r)  PROVE Knows'
  <2>1. UNCHANGED <<files, content, pc>>
    BY <1>21 DEF Read, OpenManifest, ReadManifest, RefuseRead, HashSnapshot, prepare
  <2>2. Durable' = Durable
    BY <2>1, DurableFacts DEF files
  <2> QED  BY <1>1, <2>1, <2>2 DEF Knows, files
<1>22. ASSUME NEW c \in Contents, WriteBack(c) \/ Damage(c)  PROVE Knows'
  <2>1. UNCHANGED <<manifest, survivors, content, pc>>
    BY <1>22 DEF WriteBack, Damage, prepare
  <2>2. Durable' = Durable
    BY <2>1, DurableFacts
  <2> QED  BY <1>1, <2>1, <2>2 DEF Knows
<1>23. ASSUME NEW c \in Contents, ReplaceByHand(c)  PROVE Knows'
  <2>1. UNCHANGED <<content, pc>> /\ PutManifest([inode |-> inodes + 1, names |-> c])
    BY <1>23 DEF ReplaceByHand, prepare
  <2>2. manifest'.names = c /\ Durable' = Durable \cup {c}
    BY <2>1, DurableFacts
  <2> QED  BY <1>1, <1>2, <2>1, <2>2 DEF Knows
<1>24. CASE LosePower
  <2>1. \A p \in Preparers : pc'[p] = "idle"
    BY <1>1, <1>24, ForgetTypes DEF LosePower
  <2> QED  BY <2>1 DEF Knows
<1>25. CASE UNCHANGED vars
  BY <1>1, <1>25 DEF vars, files, prepare, Knows, Durable
<1> HIDE DEF Aside
<1> QED
  BY <1>4, <1>5, <1>6, <1>7, <1>8, <1>9, <1>10, <1>11, <1>12, <1>13, <1>14, <1>15, <1>16, <1>17,
     <1>18, <1>19, <1>20, <1>21, <1>22, <1>23, <1>24, <1>25
  DEF Next, Prepare

LEMMA InvariantHolds == ASSUME NullsAssumption PROVE Spec => []Inv
<1>1. Init => Inv
  BY InitTypes, InitKnows DEF Inv
<1>2. Inv /\ [Next]_vars => Inv'
  BY NextTypes, NextKnows DEF Inv
<1> QED  BY <1>1, <1>2, PTL DEF Spec

---------------------------------------------------------------------------
(* Every step is one of PublishedModel, or leaves it alone.                *)
LEMMA InitRefines == ASSUME Init PROVE Model!Init
<1>1. lock = Nobody /\ manifest = NoManifest /\ survivors = {NoManifest} /\ prepared = FALSE
  BY DEF Init
<1>2. Durable = {NoModel}
  BY <1>1 DEF Durable, NoManifest
<1>3. Intact = {}
  BY DEF Init, Intact
<1>4. used["replacement"] = 0
  BY DEF Init, Limits
<1> QED  BY <1>1, <1>2, <1>3, <1>4, NoPublication DEF Model!Init, NoManifest

LEMMA NextRefines == ASSUME NullsAssumption, Inv, [Next]_vars PROVE [Model!Next]_(Model!vars)
<1> DEFINE Refines == [Model!Next]_(Model!vars)
<1> DEFINE Holds(p) == lock = p /\ lock' = p
<1>1. TypeOK /\ Knows
  BY DEF Inv
<1>2. /\ pc \in [Preparers -> Steps] /\ prepared \in BOOLEAN /\ NoModel \notin Contents
      /\ previous \in [Preparers -> Manifests] /\ content \in [Preparers -> Contents \cup {NoModel}]
      /\ snapshot \in [Contents -> States]
  BY <1>1 DEF TypeOK, NullsAssumption
<1>3. ASSUME NEW p \in Preparers, pc[p] # "idle"  PROVE lock = p /\ lock # Nobody
  BY <1>1, <1>3, Exclusive
\* A step within a phase that writes no manifest, and the end of a phase.
<1>4. ASSUME NEW p \in Preparers, Holds(p), UNCHANGED <<manifest, prepared>>, KeepsIntact,
             Durable' = Durable, PhaseOf(pc'[p]) = PhaseOf(pc[p]), previous'[p] = previous[p],
             content'[p] = content[p] \/ PhaseOf(pc[p]) = "none"
      PROVE  Refines
  <2>1. Phase' = Phase /\ Verified' = Verified /\ Prior' = Prior
    BY <1>4, PublicationOfHolder
  <2> QED  BY <1>4, <2>1, Stutter
<1>5. ASSUME NEW p \in Preparers, Holds(p), UNCHANGED manifest, KeepsIntact,
             Durable' \in {Durable, {manifest.names}},
             PhaseOf(pc[p]) # "none", PhaseOf(pc'[p]) = "none",
             \/ UNCHANGED prepared
             \/ /\ prepared' = TRUE /\ NoModel \notin Durable /\ PhaseOf(pc[p]) = "published"
                /\ manifest.names = content[p] /\ content[p] \in Intact
      PROVE  Refines
  <2>1. Phase = PhaseOf(pc[p]) /\ Verified = content[p]
    BY <1>5, PublicationOfHolder
  <2>2. Phase # "none" /\ Phase' = "none" /\ Verified' = NoModel /\ Prior' = NoModel
    BY <1>5, PublicationOfHolder
  <2>3. Model!Next
    BY <1>2, <1>5, <2>1, <2>2, Ending
  <2> QED  BY <2>3
<1>6. ASSUME NEW p \in Preparers, TakeLock(p)  PROVE Refines
  <2>1. /\ lock = Nobody /\ lock' = p /\ pc'[p] = "download" /\ Spend("prepare")
        /\ UNCHANGED <<manifest, survivors, snapshot, prepared>>
    BY <1>2, <1>6 DEF TakeLock, Goto, files
  <2>2. PhaseOf(pc'[p]) = "none"
    BY <2>1 DEF PhaseOf, Recorded, Undoing
  <2>3. Phase' = Phase /\ Verified' = Verified /\ Prior' = Prior
    BY <2>1, <2>2, NoPublication, PublicationOfHolder
  <2>4. KeepsIntact
    BY <1>1, <2>1, IntactSteps
  <2> QED  BY <2>1, <2>3, <2>4, Stutter, DurableFacts
<1>7. ASSUME NEW p \in Preparers, RefuseLock(p)  PROVE Refines
  <2>1. /\ UNCHANGED <<manifest, survivors, snapshot, lock, pc, content, previous, prepared>>
        /\ Spend("prepare")
    BY <1>7 DEF RefuseLock, files, prepare
  <2>2. KeepsIntact
    BY <1>1, <2>1, IntactSteps
  <2> QED  BY <2>1, <2>2, Stutter, DurableFacts DEF Phase, Verified, Prior
<1>8. ASSUME NEW p \in Preparers, Download(p) \/ ReuseSnapshot(p) \/ SettleSnapshot(p)
      PROVE  Refines
  <2>1. /\ pc[p] # "idle" /\ lock' = lock
        /\ UNCHANGED <<manifest, survivors, snapshot, used, prepared, previous>>
        /\ PhaseOf(pc'[p]) = "none" /\ PhaseOf(pc[p]) = "none"
    BY <1>2, <1>8 DEF Download, ReuseSnapshot, SettleSnapshot, Goto, files, prepare,
                PhaseOf, Recorded, Undoing
  <2>2. KeepsIntact
    BY <1>1, <2>1, IntactSteps
  <2> QED  BY <1>3, <1>4, <2>1, <2>2, DurableFacts
\* A snapshot comes; the one pinned is what this preparation has verified.
<1>9. ASSUME NEW p \in Preparers, MoveStage(p)  PROVE Refines
  <2>1. /\ pc[p] = "compare" /\ pc'[p] = "settle" /\ lock' = lock
        /\ snapshot' = [snapshot EXCEPT ![content[p]] = "intact"]
        /\ UNCHANGED <<manifest, survivors, used, prepared, previous, content>>
    BY <1>2, <1>9 DEF MoveStage, Goto, prepare
  <2>2. lock = p /\ content[p] \in Contents
    BY <1>1, <1>3, <2>1 DEF Knows, Downloaded, Body
  <2>3. PhaseOf(pc[p]) = "none" /\ PhaseOf(pc'[p]) = "none"
    BY <2>1 DEF PhaseOf, Recorded, Undoing
  <2>4. UNCHANGED <<Phase, Verified, Prior, Durable>>
    BY <2>1, <2>2, <2>3, PublicationOfHolder, DurableFacts
  <2>5. Intact' = Intact \cup {content[p]}
    BY <1>2, <2>1, <2>2 DEF Intact
  <2>6. Model!Store(content[p])
    BY <2>1, <2>4, <2>5 DEF Model!Store
  <2> QED  BY <2>2, <2>6 DEF Model!Next
<1>10. ASSUME NEW p \in Preparers, Pin(p)  PROVE Refines
  <2>1. /\ pc[p] = "pin" /\ pc'[p] = "backup" /\ lock' = lock
        /\ snapshot[content[p]] = "intact"
        /\ UNCHANGED <<manifest, survivors, snapshot, used, prepared, content>>
    BY <1>2, <1>10 DEF Pin, Goto, files, prepare
  <2>2. lock = p /\ content[p] \in Contents
    BY <1>1, <1>3, <2>1 DEF Knows, Downloaded, Body
  <2>3. PhaseOf(pc[p]) = "none" /\ PhaseOf(pc'[p]) = "verified"
    BY <2>1 DEF PhaseOf, Recorded, Undoing
  <2>4. /\ Phase = "none" /\ Phase' = "verified" /\ Verified' = content[p] /\ Prior' = Prior
        /\ Durable' = Durable
    BY <2>1, <2>2, <2>3, PublicationOfHolder, DurableFacts
  <2>5. content[p] \in Intact /\ KeepsIntact
    BY <1>1, <2>1, <2>2, IntactSteps DEF Intact
  <2>6. Model!Verify(content[p])
    BY <2>1, <2>4, <2>5 DEF Model!Verify, KeepsIntact
  <2> QED  BY <2>2, <2>6 DEF Model!Next
<1>11. ASSUME NEW p \in Preparers, RecordPublication(p) \/ Revalidate(p)  PROVE Refines
  <2>1. /\ pc[p] # "idle" /\ lock' = lock
        /\ UNCHANGED <<manifest, survivors, snapshot, used, prepared, previous, content>>
        /\ PhaseOf(pc'[p]) = PhaseOf(pc[p])
    BY <1>2, <1>11 DEF RecordPublication, Revalidate, Goto, files, prepare,
                PhaseOf, Recorded, Undoing
  <2>2. KeepsIntact
    BY <1>1, <2>1, IntactSteps
  <2> QED  BY <1>3, <1>4, <2>1, <2>2, DurableFacts
<1>12. ASSUME NEW p \in Preparers, KeepPrevious(p)  PROVE Refines
  <2>1. /\ pc[p] = "backup" /\ pc'[p] = "replace" /\ lock' = lock /\ FsyncManifest
        /\ previous'[p] = manifest /\ UNCHANGED <<manifest, snapshot, used, prepared, content>>
    BY <1>2, <1>12 DEF KeepPrevious, Goto
  <2>2. lock = p
    BY <1>3, <2>1
  <2>3. PhaseOf(pc[p]) = "verified" /\ PhaseOf(pc'[p]) = "observed"
    BY <2>1 DEF PhaseOf, Recorded, Undoing
  <2>4. /\ Phase = "verified" /\ Phase' = "observed" /\ Verified' = Verified
        /\ Prior' = manifest.names /\ Durable' = {manifest.names}
    BY <2>1, <2>2, <2>3, PublicationOfHolder, DurableFacts
  <2>5. KeepsIntact
    BY <1>1, <2>1, IntactSteps
  <2>6. Model!Observe
    BY <2>1, <2>4, <2>5 DEF Model!Observe, Model!Synchronized, KeepsIntact
  <2> QED  BY <2>6 DEF Model!Next
<1>13. ASSUME NEW p \in Preparers, ReplaceManifest(p)  PROVE Refines
  <2>1. /\ pc[p] = "replace" /\ pc'[p] = "reopen" /\ lock' = lock
        /\ PutManifest([inode |-> inodes + 1, names |-> content[p]])
        /\ UNCHANGED <<previous, snapshot, used, prepared, content>>
    BY <1>2, <1>13 DEF ReplaceManifest, Goto
  <2>2. lock = p
    BY <1>3, <2>1
  <2>3. PhaseOf(pc[p]) = "observed" /\ PhaseOf(pc'[p]) = "published"
    BY <2>1 DEF PhaseOf, Recorded, Undoing
  <2>4. /\ Phase = "observed" /\ Phase' = "published" /\ Verified = content[p]
        /\ Verified' = Verified /\ Prior' = Prior
    BY <2>1, <2>2, <2>3, PublicationOfHolder
  <2>5. manifest'.names = content[p] /\ Durable' = Durable \cup {content[p]} /\ KeepsIntact
    BY <1>1, <2>1, DurableFacts, IntactSteps
  <2>6. Model!Publish
    BY <2>1, <2>4, <2>5 DEF Model!Publish, KeepsIntact
  <2> QED  BY <2>6 DEF Model!Next
<1>14. ASSUME NEW p \in Preparers, SynchronizeManifest(p) \/ RemoveBackup(p)  PROVE Refines
  <2>1. /\ pc[p] # "idle" /\ lock' = lock /\ (FsyncManifest \/ UNCHANGED survivors)
        /\ UNCHANGED <<manifest, snapshot, used, prepared, previous, content>>
        /\ PhaseOf(pc'[p]) = PhaseOf(pc[p])
    BY <1>2, <1>14 DEF SynchronizeManifest, RemoveBackup, Goto, prepare, PhaseOf, Recorded, Undoing
  <2>2. lock = p /\ Durable' \in {Durable, {manifest.names}} /\ KeepsIntact
    BY <1>1, <1>3, <2>1, DurableFacts, IntactSteps
  <2>3. Phase' = Phase /\ Verified' = Verified /\ Prior' = Prior
    BY <2>1, <2>2, PublicationOfHolder
  <2>4. Model!Synchronize
    BY <2>1, <2>2, <2>3 DEF Model!Synchronize, Model!Synchronized, KeepsIntact
  <2> QED  BY <2>4 DEF Model!Next
<1>15. ASSUME NEW p \in Preparers, ReportPrepared(p)  PROVE Refines
  <2>1. /\ pc[p] = "final" /\ pc'[p] = "cleanup" /\ lock' = lock /\ prepared' = TRUE
        /\ manifest.names = content[p] /\ snapshot[content[p]] = "intact"
        /\ UNCHANGED <<manifest, survivors, snapshot, used>>
    BY <1>2, <1>15 DEF ReportPrepared, Goto, files
  <2>2. NoModel \notin Durable /\ content[p] \in Contents
    BY <1>1, <2>1 DEF Knows, Synchronized, Downloaded, Recorded
  <2>3. PhaseOf(pc[p]) = "published" /\ PhaseOf(pc'[p]) = "none"
    BY <2>1 DEF PhaseOf, Recorded, Undoing
  <2>4. content[p] \in Intact /\ KeepsIntact
    BY <1>1, <2>1, <2>2, IntactSteps DEF Intact
  <2>5. Holds(p) /\ Durable' = Durable
    BY <1>3, <2>1, DurableFacts
  <2> QED  BY <1>5, <2>1, <2>2, <2>3, <2>4, <2>5
<1>16. ASSUME NEW p \in Preparers, RefuseSnapshot(p) \/ Fault(p)  PROVE Refines
  <2>1. /\ pc[p] # "idle" /\ lock' = lock /\ Fail(p) /\ (UNCHANGED used \/ Spend("fault"))
        /\ UNCHANGED <<manifest, survivors, snapshot, prepared, previous, content>>
    BY <1>16 DEF RefuseSnapshot, Fault, files, prepare
  <2>2. PhaseOf(pc'[p]) \in {PhaseOf(pc[p]), "none"}
    BY <1>2, <2>1 DEF Fail, Handler, Goto, PhaseOf, Recorded, Undoing
  <2>3. lock = p /\ Durable' = Durable /\ KeepsIntact
    BY <1>1, <1>3, <2>1, DurableFacts, IntactSteps
  <2> QED  BY <1>4, <1>5, <2>1, <2>2, <2>3
<1>17. ASSUME NEW p \in Preparers, BeginRollback(p)  PROVE Refines
  <2>1. /\ pc[p] # "idle" /\ lock' = lock
        /\ UNCHANGED <<manifest, survivors, snapshot, used, prepared, previous, content>>
        /\ PhaseOf(pc'[p]) \in {PhaseOf(pc[p]), "none"}
    BY <1>2, <1>17 DEF BeginRollback, Goto, files, prepare, PhaseOf, Recorded, Undoing
  <2>2. lock = p /\ Durable' = Durable /\ KeepsIntact
    BY <1>1, <1>3, <2>1, DurableFacts, IntactSteps
  <2> QED  BY <1>4, <1>5, <2>1, <2>2
<1>18. ASSUME NEW p \in Preparers, PutBack(p) \/ RewritePrevious(p)  PROVE Refines
  <2>1. /\ pc[p] \in Undoing /\ pc'[p] = "resync" /\ lock' = lock
        /\ \E entry : PutManifest(entry) /\ entry.names = previous[p].names
        /\ UNCHANGED <<previous, snapshot, used, prepared, content>>
    <3>1. CASE PutBack(p)
      BY <1>2, <3>1 DEF PutBack, Goto, Undoing
    <3>2. CASE RewritePrevious(p)
      <4>1. PutManifest([inode |-> inodes + 1, names |-> previous[p].names])
        BY <3>2 DEF RewritePrevious
      <4> QED  BY <1>2, <3>2, <4>1 DEF RewritePrevious, Goto, Undoing, prepare
    <3> QED  BY <1>18, <3>1, <3>2
  <2>2. lock = p /\ KeepsIntact
    BY <1>1, <1>3, <2>1, IntactSteps DEF Undoing
  <2>3. PhaseOf(pc[p]) = "published" /\ PhaseOf(pc'[p]) = "published"
    BY <2>1 DEF PhaseOf, Recorded, Undoing
  <2>4. /\ Phase = "published" /\ Phase' = "published" /\ Verified' = Verified
        /\ Prior = previous[p].names /\ Prior' = Prior
    BY <2>1, <2>2, <2>3, PublicationOfHolder
  <2>5. manifest'.names = previous[p].names /\ Durable' = Durable \cup {previous[p].names}
    BY <2>1, DurableFacts
  <2>6. Model!Withdraw
    BY <2>1, <2>2, <2>4, <2>5 DEF Model!Withdraw, KeepsIntact
  <2> QED  BY <2>6 DEF Model!Next
<1>19. ASSUME NEW p \in Preparers, RecheckManifest(p) \/ Resynchronize(p)  PROVE Refines
  <2>1. /\ pc[p] \in Undoing /\ pc'[p] \in {"rewrite", "cleanup"} /\ lock' = lock
        /\ FsyncManifest /\ UNCHANGED <<manifest, previous, snapshot, used, prepared, content>>
    BY <1>2, <1>19 DEF RecheckManifest, Resynchronize, Goto, Undoing, prepare
  <2>2. lock = p /\ Durable' = {manifest.names} /\ KeepsIntact
    BY <1>1, <1>3, <2>1, DurableFacts, IntactSteps DEF Undoing
  <2>3. CASE pc'[p] = "cleanup"
    <3>1. PhaseOf(pc[p]) # "none" /\ PhaseOf(pc'[p]) = "none"
      BY <2>1, <2>3 DEF PhaseOf, Recorded, Undoing
    <3> QED  BY <1>5, <2>1, <2>2, <3>1
  <2>4. CASE pc'[p] = "rewrite"
    <3>1. PhaseOf(pc'[p]) = PhaseOf(pc[p])
      BY <2>1, <2>4 DEF PhaseOf, Recorded, Undoing
    <3>2. Phase' = Phase /\ Verified' = Verified /\ Prior' = Prior
      BY <2>1, <2>2, <3>1, PublicationOfHolder
    <3>3. Model!Synchronize
      BY <2>1, <2>2, <3>2 DEF Model!Synchronize, Model!Synchronized, KeepsIntact
    <3> QED  BY <3>3 DEF Model!Next
  <2> QED  BY <2>1, <2>3, <2>4
<1>20. ASSUME NEW p \in Preparers, CleanUp(p) \/ Kill(p)  PROVE Refines
  <2>1. /\ pc[p] # "idle" /\ lock' = Nobody /\ (UNCHANGED used \/ Spend("kill"))
        /\ UNCHANGED <<manifest, survivors, snapshot, prepared>>
    BY <1>20 DEF CleanUp, Kill, files
  <2>2. /\ Durable' = Durable /\ Phase' = "none" /\ Verified' = NoModel /\ Prior' = NoModel
        /\ KeepsIntact
    BY <1>1, <2>1, DurableFacts, NoPublication, IntactSteps
  <2>3. CASE Phase = "none"
    BY <2>1, <2>2, <2>3, NoPublication, Stutter
  <2>4. CASE Phase # "none"
    <3>1. Model!Next
      BY <1>2, <2>1, <2>2, <2>4, Ending
    <3> QED  BY <3>1
  <2> QED  BY <2>3, <2>4
<1>21. ASSUME NEW r \in Readers, Read(r)  PROVE Refines
  <2>1. /\ UNCHANGED <<manifest, survivors, snapshot, lock, pc, content, previous, prepared>>
        /\ UNCHANGED used \/ Spend("read")
    BY <1>21 DEF Read, OpenManifest, ReadManifest, RefuseRead, HashSnapshot, files, prepare
  <2>2. KeepsIntact
    BY <1>1, <2>1, IntactSteps
  <2> QED  BY <2>1, <2>2, Stutter, DurableFacts DEF Phase, Verified, Prior
<1>22. ASSUME NEW c \in Contents, WriteBack(c)  PROVE Refines
  <2>1. UNCHANGED <<manifest, survivors, snapshot, used, lock, pc, content, previous, prepared>>
    BY <1>22 DEF WriteBack, prepare
  <2>2. KeepsIntact
    BY <1>1, <2>1, IntactSteps
  <2> QED  BY <2>1, <2>2, Stutter, DurableFacts DEF Phase, Verified, Prior
<1>23. ASSUME NEW c \in Contents, Damage(c)  PROVE Refines
  <2>1. /\ UNCHANGED <<manifest, survivors, lock, pc, content, previous, prepared>>
        /\ Spend("damage") /\ snapshot' = [snapshot EXCEPT ![c] = "damaged"]
    BY <1>23 DEF Damage, prepare
  <2>2. UNCHANGED <<Phase, Verified, Prior, Durable>>
    BY <2>1, DurableFacts DEF Phase, Verified, Prior
  <2>3. Intact' = Intact \ {c}
    BY <1>2, <2>1 DEF Intact
  <2>4. used'["replacement"] = used["replacement"]
    BY <1>1, <2>1 DEF Spend, TypeOK, Limits
  <2>5. Model!Damage(c)
    BY <2>1, <2>2, <2>3, <2>4 DEF Model!Damage
  <2> QED  BY <2>5 DEF Model!Next
<1>24. ASSUME NEW c \in Contents, ReplaceByHand(c)  PROVE Refines
  <2>1. /\ UNCHANGED <<lock, pc, content, previous, snapshot, prepared>>
        /\ Spend("replacement") /\ snapshot[c] = "intact"
        /\ PutManifest([inode |-> inodes + 1, names |-> c])
    BY <1>24 DEF ReplaceByHand, prepare
  <2>2. UNCHANGED <<Phase, Verified, Prior, Intact>> /\ c \in Intact
    BY <2>1 DEF Phase, Verified, Prior, Intact
  <2>3. manifest'.names = c /\ Durable' = Durable \cup {c}
    BY <2>1, DurableFacts
  <2>4. used'["replacement"] = used["replacement"] + 1
    BY <1>1, <2>1 DEF Spend, TypeOK, Limits
  <2>5. Model!Replace(c)
    BY <2>1, <2>2, <2>3, <2>4 DEF Model!Replace
  <2> QED  BY <2>5 DEF Model!Next
<1>25. ASSUME LosePower  PROVE Refines
  <2>1. /\ manifest' \in survivors /\ survivors' = {manifest'} /\ lock' = Nobody
        /\ prepared' = prepared /\ Spend("power")
    BY <1>25 DEF LosePower
  <2>2. manifest'.names \in Durable /\ Durable' = {manifest'.names}
    BY <2>1 DEF Durable
  <2>3. Intact' \in SUBSET Contents
    BY DEF Intact
  <2>4. used'["replacement"] = used["replacement"]
    BY <1>1, <2>1 DEF Spend, TypeOK, Limits
  <2>5. Model!LosePower
    BY <2>1, <2>2, <2>3, <2>4, NoPublication DEF Model!LosePower
  <2> QED  BY <2>5 DEF Model!Next
<1>26. ASSUME UNCHANGED vars  PROVE Refines
  <2>1. UNCHANGED <<manifest, survivors, snapshot, used, lock, pc, content, previous, prepared>>
    BY <1>26 DEF vars, files, prepare
  <2>2. KeepsIntact
    BY <1>1, <2>1, IntactSteps
  <2> QED  BY <2>1, <2>2, Stutter, DurableFacts DEF Phase, Verified, Prior
<1> HIDE DEF Refines, Holds
<1>27. ASSUME NEW p \in Preparers, Prepare(p)  PROVE Refines
  BY <1>8, <1>9, <1>10, <1>11, <1>12, <1>13, <1>14, <1>15, <1>16, <1>17, <1>18, <1>19, <1>20,
     <1>27
  DEF Prepare
<1>28. ASSUME NEW p \in Preparers, TakeLock(p) \/ RefuseLock(p) \/ Fault(p) \/ Kill(p)
       PROVE  Refines
  BY <1>6, <1>7, <1>16, <1>20, <1>28
<1>29. Refines
  BY <1>21, <1>22, <1>23, <1>24, <1>25, <1>26, <1>27, <1>28 DEF Next
<1> QED  BY <1>29 DEF Refines

---------------------------------------------------------------------------
(* A snapshot that stands goes on standing: nobody removes one, and a      *)
(* power loss takes only what was not synchronized.                        *)
LEMMA SnapshotSteps ==
    ASSUME [Next]_vars
    PROVE  \/ UNCHANGED <<snapshot, onDisk>> /\ unsettled \subseteq unsettled'
           \/ \E p \in Preparers : MoveStage(p) \/ SettleSnapshot(p)
           \/ \E c \in Contents : WriteBack(c) \/ Damage(c)
           \/ LosePower
<1> DEFINE Keeps == UNCHANGED <<snapshot, onDisk>> /\ unsettled \subseteq unsettled'
<1>1. ASSUME NEW p \in Preparers, TakeLock(p) \/ RefuseLock(p) \/ Fault(p) \/ Kill(p)
      PROVE  Keeps
  BY <1>1 DEF TakeLock, RefuseLock, Fault, Kill, CutOff, files
<1>2. ASSUME NEW p \in Preparers, Prepare(p)  PROVE Keeps \/ MoveStage(p) \/ SettleSnapshot(p)
  <2>1. ASSUME Download(p) \/ ReuseSnapshot(p) \/ Pin(p) \/ RecordPublication(p) \/ Revalidate(p)
               \/ ReportPrepared(p) \/ RefuseSnapshot(p) \/ BeginRollback(p) \/ CleanUp(p)
        PROVE  Keeps
    BY <2>1 DEF Download, ReuseSnapshot, Pin, RecordPublication, Revalidate, ReportPrepared,
                RefuseSnapshot, BeginRollback, CleanUp, files
  <2>2. ASSUME KeepPrevious(p) \/ ReplaceManifest(p) \/ SynchronizeManifest(p) \/ RemoveBackup(p)
               \/ PutBack(p) \/ RecheckManifest(p) \/ RewritePrevious(p) \/ Resynchronize(p)
        PROVE  Keeps
    BY <2>2 DEF KeepPrevious, ReplaceManifest, SynchronizeManifest, RemoveBackup, PutBack,
                RecheckManifest, RewritePrevious, Resynchronize
  <2> HIDE DEF Keeps
  <2> QED  BY <1>2, <2>1, <2>2 DEF Prepare
<1>3. ASSUME NEW r \in Readers, Read(r)  PROVE Keeps
  BY <1>3 DEF Read, OpenManifest, ReadManifest, RefuseRead, HashSnapshot, files
<1>4. ASSUME NEW c \in Contents, ReplaceByHand(c)  PROVE Keeps
  BY <1>4 DEF ReplaceByHand
<1>5. ASSUME UNCHANGED vars  PROVE Keeps
  BY <1>5 DEF vars, files
<1> HIDE DEF Keeps
<1>6. \/ Keeps
      \/ \E p \in Preparers : MoveStage(p) \/ SettleSnapshot(p)
      \/ \E c \in Contents : WriteBack(c) \/ Damage(c)
      \/ LosePower
  BY <1>1, <1>2, <1>3, <1>4, <1>5 DEF Next
<1> QED  BY <1>6 DEF Keeps

LEMMA StandsStays ==
    ASSUME Inv, [Next]_vars, NEW c \in Contents, Stands(c)
    PROVE  Stands(c)'
<1>1. /\ snapshot \in [Contents -> States] /\ onDisk \in [Contents -> SUBSET States]
  BY DEF Inv, TypeOK
<1>2. CASE UNCHANGED <<snapshot, onDisk>> /\ unsettled \subseteq unsettled'
  BY <1>2 DEF Stands
<1>3. ASSUME NEW p \in Preparers, MoveStage(p)  PROVE Stands(c)'
  <2>1. /\ unsettled' = unsettled
        /\ c # content[p] => snapshot'[c] = snapshot[c] /\ onDisk'[c] = onDisk[c]
        /\ c = content[p] => snapshot[c] = "absent"
    BY <1>1, <1>3 DEF MoveStage
  <2> QED  BY <2>1 DEF Stands
<1>4. ASSUME NEW p \in Preparers, SettleSnapshot(p)  PROVE Stands(c)'
  <2>1. /\ UNCHANGED <<unsettled, snapshot>> /\ onDisk'[c] \subseteq onDisk[c]
    BY <1>1, <1>4 DEF SettleSnapshot
  <2> QED  BY <2>1 DEF Stands
<1>5. ASSUME NEW d \in Contents, WriteBack(d)  PROVE Stands(c)'
  <2>1. /\ UNCHANGED <<unsettled, snapshot>>
        /\ onDisk'[c] = onDisk[c] \/ onDisk'[c] = {snapshot[c]}
    BY <1>1, <1>5 DEF WriteBack
  <2> QED  BY <2>1 DEF Stands
<1>6. ASSUME NEW d \in Contents, Damage(d)  PROVE Stands(c)'
  <2>1. /\ unsettled' = unsettled
        /\ snapshot'[c] \in {snapshot[c], "damaged"}
        /\ onDisk'[c] = onDisk[c] \/ onDisk'[c] = onDisk[c] \cup {"damaged"}
    BY <1>1, <1>6 DEF Damage
  <2> QED  BY <2>1 DEF Stands
<1>7. CASE LosePower
  <2>1. unsettled' = unsettled /\ snapshot'[c] \in onDisk[c] /\ onDisk'[c] = {snapshot'[c]}
    BY <1>7 DEF LosePower
  <2> QED  BY <2>1 DEF Stands
<1> QED  BY <1>2, <1>3, <1>4, <1>5, <1>6, <1>7, SnapshotSteps

(* What is about to be published stands: its move was synchronized, or it  *)
(* was there when nobody was moving it.                                    *)
LEMMA NextSettled ==
    ASSUME NullsAssumption, Inv, Settled, [Next]_vars
    PROVE  Settled'
<1> DEFINE Moving == {"settle", "backup", "replace"}
<1> DEFINE Quiet == UNCHANGED <<snapshot, onDisk>> /\ unsettled \subseteq unsettled'
<1>1. /\ TypeOK /\ Knows
      /\ pc \in [Preparers -> Steps] /\ content \in [Preparers -> Contents \cup {NoModel}]
      /\ snapshot \in [Contents -> States] /\ onDisk \in [Contents -> SUBSET States]
  BY DEF Inv, TypeOK
<1>2. \A p \in Preparers : pc[p] \in Moving \cup {"pin"} => content[p] \in Contents
  BY <1>1 DEF Knows, Downloaded, Body
<1>3. \A c \in Contents : Stands(c) => Stands(c)'
  BY StandsStays
<1>4. ASSUME NEW p \in Preparers, pc[p] # "idle"
      PROVE  \A q \in Preparers : q # p => pc[q] = "idle"
  BY <1>1, <1>4, Exclusive
\* A step that neither begins nor ends a move, and that leads nobody to a publication.
<1>5. ASSUME Quiet,
             \A p \in Preparers : /\ pc[p] = "settle" <=> pc'[p] = "settle"
                                  /\ pc'[p] \in Moving => pc[p] \in Moving /\ content'[p] = content[p]
                                  /\ pc[p] = "settle" => content'[p] = content[p]
      PROVE  Settled'
  <2>1. ASSUME NEW c \in Contents, snapshot'[c] # "absent"
        PROVE  Stands(c)' \/ \E p \in Preparers : pc'[p] = "settle" /\ content'[p] = c
    BY <1>3, <1>5, <2>1 DEF Settled
  <2>2. ASSUME NEW p \in Preparers, pc'[p] = "settle"  PROVE snapshot'[content'[p]] # "absent"
    BY <1>5, <2>2 DEF Settled
  <2>3. ASSUME NEW p \in Preparers, pc'[p] \in {"backup", "replace"}  PROVE Stands(content[p])'
    <3>1. pc[p] \in {"backup", "replace"} /\ content'[p] = content[p] /\ content[p] \in Contents
      BY <1>2, <1>5, <2>3
    <3>2. Stands(content[p])
      BY <3>1 DEF Settled
    <3> QED  BY <1>5, <3>1, <3>2 DEF Stands
  <2> QED  BY <2>1, <2>2, <2>3 DEF Settled
<1>6. ASSUME NEW p \in Preparers,
             \/ TakeLock(p) \/ RefuseLock(p) \/ Download(p) \/ ReuseSnapshot(p)
             \/ RecordPublication(p) \/ Revalidate(p) \/ ReportPrepared(p) \/ RefuseSnapshot(p)
             \/ BeginRollback(p)
      PROVE  Settled'
  <2>1. Quiet
    BY <1>6 DEF TakeLock, RefuseLock, Download, ReuseSnapshot, RecordPublication, Revalidate,
                ReportPrepared, RefuseSnapshot, BeginRollback, files
  <2>2. /\ \A q \in Preparers : q # p => pc'[q] = pc[q] /\ content'[q] = content[q]
        /\ pc[p] # "settle" /\ (pc'[p] \in Moving => pc[p] \in Moving /\ content' = content)
        /\ pc'[p] # "settle"
    BY <1>1, <1>6 DEF TakeLock, RefuseLock, Download, ReuseSnapshot, RecordPublication, Revalidate,
                ReportPrepared, RefuseSnapshot, BeginRollback, Goto, Fail, Handler, Recorded, prepare
  <2> HIDE DEF Quiet, Moving
  <2> QED  BY <1>5, <2>1, <2>2
<1>7. ASSUME NEW p \in Preparers,
             \/ KeepPrevious(p) \/ ReplaceManifest(p) \/ SynchronizeManifest(p) \/ RemoveBackup(p)
             \/ PutBack(p) \/ RecheckManifest(p) \/ RewritePrevious(p) \/ Resynchronize(p)
      PROVE  Settled'
  <2>1. Quiet
    BY <1>7 DEF KeepPrevious, ReplaceManifest, SynchronizeManifest, RemoveBackup, PutBack,
                RecheckManifest, RewritePrevious, Resynchronize
  <2>2. /\ \A q \in Preparers : q # p => pc'[q] = pc[q]
        /\ pc[p] # "settle" /\ (pc'[p] \in Moving => pc[p] \in Moving)
        /\ pc'[p] # "settle" /\ content' = content
    BY <1>1, <1>7 DEF KeepPrevious, ReplaceManifest, SynchronizeManifest, RemoveBackup, PutBack,
                RecheckManifest, RewritePrevious, Resynchronize, Goto, prepare
  <2> HIDE DEF Quiet, Moving
  <2> QED  BY <1>5, <2>1, <2>2
<1>8. ASSUME NEW p \in Preparers, MoveStage(p)  PROVE Settled'
  <2>1. /\ pc[p] = "compare" /\ pc'[p] = "settle" /\ content' = content
        /\ \A q \in Preparers : q # p => pc'[q] = pc[q]
        /\ \A c \in Contents : c # content[p] => snapshot'[c] = snapshot[c]
        /\ snapshot'[content[p]] = "intact"
    <3>1. pc[p] = "compare" => content[p] \in Contents
      BY <1>1 DEF Knows, Downloaded, Body
    <3> QED  BY <1>1, <1>8, <3>1 DEF MoveStage, Goto, prepare
  <2>2. \A q \in Preparers : q # p => pc'[q] = "idle" /\ pc[q] = "idle"
    BY <1>4, <2>1
  <2>3. ASSUME NEW c \in Contents, snapshot'[c] # "absent", c # content[p]  PROVE Stands(c)'
    BY <1>3, <2>1, <2>2, <2>3 DEF Settled
  <2> QED  BY <2>1, <2>2, <2>3 DEF Settled
<1>9. ASSUME NEW p \in Preparers, SettleSnapshot(p)  PROVE Settled'
  <2>1. /\ pc[p] = "settle" /\ pc'[p] = "pin" /\ UNCHANGED <<content, snapshot, unsettled>>
        /\ \A q \in Preparers : q # p => pc'[q] = pc[q]
        /\ onDisk' = [onDisk EXCEPT ![content[p]] = @ \ {"absent"}]
    BY <1>1, <1>9 DEF SettleSnapshot, Goto, prepare
  <2>2. content[p] \in Contents /\ snapshot[content[p]] # "absent"
    BY <1>2, <2>1 DEF Settled
  <2>3. Stands(content[p])'
    BY <1>1, <2>1, <2>2 DEF Stands
  <2>4. \A q \in Preparers : q # p => pc'[q] = "idle" /\ pc[q] = "idle"
    BY <1>4, <2>1
  <2>5. ASSUME NEW c \in Contents, snapshot'[c] # "absent", c # content[p]  PROVE Stands(c)'
    BY <1>3, <2>1, <2>4, <2>5 DEF Settled
  <2>6. ASSUME NEW c \in Contents, snapshot'[c] # "absent"  PROVE Stands(c)'
    BY <2>1, <2>3, <2>5, <2>6 DEF Stands
  <2> QED  BY <2>1, <2>4, <2>6 DEF Settled
<1>10. ASSUME NEW p \in Preparers, Pin(p)  PROVE Settled'
  <2>1. /\ pc[p] = "pin" /\ pc'[p] = "backup" /\ snapshot[content[p]] = "intact"
        /\ UNCHANGED <<content, snapshot, onDisk, unsettled>>
        /\ \A q \in Preparers : q # p => pc'[q] = pc[q]
    BY <1>1, <1>10 DEF Pin, Goto, files, prepare
  <2>2. \A q \in Preparers : q # p => pc'[q] = "idle" /\ pc[q] = "idle"
    BY <1>4, <2>1
  <2>3. \A c \in Contents : snapshot[c] # "absent" => Stands(c)
    BY <2>1, <2>2 DEF Settled
  <2>4. Stands(content[p])'
    BY <1>2, <2>1, <2>3 DEF Stands
  <2> QED  BY <1>3, <2>1, <2>2, <2>3, <2>4 DEF Settled
<1>11. ASSUME NEW p \in Preparers, Fault(p) \/ CleanUp(p) \/ Kill(p)  PROVE Settled'
  <2>1. /\ pc[p] # "idle" /\ UNCHANGED <<snapshot, onDisk>> /\ unsettled \subseteq unsettled'
        /\ pc[p] = "settle" => content[p] \in unsettled'
    BY <1>11 DEF Fault, CleanUp, Kill, CutOff, files
  <2>2. pc'[p] \in {"idle", "rollback", "cleanup"} /\ \A q \in Preparers : q # p => pc'[q] = pc[q]
    <3>1. CASE Fault(p)
      BY <1>1, <3>1 DEF Fault, Fail, Handler, Goto
    <3>2. CASE CleanUp(p) \/ Kill(p)
      BY <1>1, <3>2, ForgetTypes DEF CleanUp, Kill
    <3> QED  BY <1>11, <3>1, <3>2
  <2>3. \A q \in Preparers : pc'[q] \notin Moving
    BY <1>4, <2>1, <2>2
  <2>4. ASSUME NEW c \in Contents, snapshot'[c] # "absent"  PROVE Stands(c)'
    <3>1. CASE Stands(c)
      BY <1>3, <3>1
    <3>2. CASE \E q \in Preparers : pc[q] = "settle" /\ content[q] = c
      BY <1>4, <2>1, <3>2 DEF Stands
    <3> QED  BY <2>1, <2>4, <3>1, <3>2 DEF Settled
  <2> QED  BY <2>3, <2>4 DEF Settled
<1>12. ASSUME NEW r \in Readers, Read(r)  PROVE Settled'
  <2>1. Quiet /\ UNCHANGED <<pc, content>>
    BY <1>12 DEF Read, OpenManifest, ReadManifest, RefuseRead, HashSnapshot, files, prepare
  <2> HIDE DEF Quiet
  <2> QED  BY <1>5, <2>1
<1>13. ASSUME NEW c \in Contents, ReplaceByHand(c)  PROVE Settled'
  <2>1. Quiet /\ UNCHANGED <<pc, content>>
    BY <1>13 DEF ReplaceByHand
  <2> HIDE DEF Quiet
  <2> QED  BY <1>5, <2>1
<1>14. ASSUME NEW d \in Contents, WriteBack(d) \/ Damage(d)  PROVE Settled'
  <2>1. /\ UNCHANGED <<pc, content, unsettled>>
        /\ \A c \in Contents : snapshot[c] = "absent" <=> snapshot'[c] = "absent"
    BY <1>1, <1>14 DEF WriteBack, Damage, prepare
  <2>2. ASSUME NEW p \in Preparers, pc'[p] \in {"backup", "replace"}  PROVE Stands(content[p])'
    <3>1. content[p] \in Contents /\ content' = content /\ Stands(content[p])
      BY <1>2, <2>1, <2>2 DEF Settled
    <3>2. \A c \in Contents : content'[p] = c => (Stands(c)' => Stands(content[p])')
      BY DEF Stands
    <3> QED  BY <1>3, <3>1, <3>2
  <2> QED  BY <1>2, <1>3, <2>1, <2>2 DEF Settled
<1>15. ASSUME LosePower  PROVE Settled'
  <2>1. \A p \in Preparers : pc'[p] = "idle"
    BY <1>1, <1>15, ForgetTypes DEF LosePower
  <2>2. \A c \in Contents : onDisk'[c] = {snapshot'[c]}
    BY <1>15 DEF LosePower
  <2> QED  BY <2>1, <2>2 DEF Settled, Stands
<1>16. ASSUME UNCHANGED vars  PROVE Settled'
  <2>1. Quiet /\ UNCHANGED <<pc, content>>
    BY <1>16 DEF vars, files, prepare
  <2> HIDE DEF Quiet
  <2> QED  BY <1>5, <2>1
<1> QED
  BY <1>6, <1>7, <1>8, <1>9, <1>10, <1>11, <1>12, <1>13, <1>14, <1>15, <1>16 DEF Next, Prepare

(* Every manifest written names what stands: the content whose move was    *)
(* just synchronized, one found there, or one put there by hand.           *)
LEMMA NextNamed ==
    ASSUME NullsAssumption, Inv, Settled, Named, [Next]_vars
    PROVE  Named'
<1>1. /\ TypeOK /\ Knows
      /\ pc \in [Preparers -> Steps] /\ content \in [Preparers -> Contents \cup {NoModel}]
      /\ previous \in [Preparers -> Manifests] /\ published \in [Preparers -> Nat]
      /\ inodes \in Nat /\ NoModel \notin Contents
  BY DEF Inv, TypeOK, NullsAssumption
<1>2. \A c \in Contents : Stands(c) => Stands(c)'
  BY StandsStays
<1>3. ASSUME inodes' \in {inodes, inodes + 1}, NEW entry, IsNamed(entry)
      PROVE  IsNamed(entry)'
  BY <1>1, <1>2, <1>3 DEF IsNamed
<1>4. IsNamed(NoManifest)
  BY <1>1 DEF IsNamed, NoManifest
\* Whatever a step leaves of the manifests, it names what it wrote.
<1>5. ASSUME inodes' \in {inodes, inodes + 1},
             \A entry \in survivors' \cup {manifest'} : entry \in Entries \/ IsNamed(entry)',
             \A p \in Preparers :
                 /\ previous'[p] \in Entries \cup {NoManifest}
                 /\ published'[p] \in {published[p], 0, inodes'}
                 /\ pc'[p] \in {"recheck", "rewrite"} => previous'[p] # NoManifest
      PROVE  Named'
  <2>1. ASSUME NEW entry \in Entries \cup {NoManifest}  PROVE IsNamed(entry)'
    BY <1>3, <1>4, <1>5, <2>1 DEF Named
  <2>2. ASSUME NEW entry, entry \in Entries'  PROVE IsNamed(entry)'
    BY <1>5, <2>1, <2>2 DEF Entries
  <2>3. ASSUME NEW p \in Preparers  PROVE published'[p] \in 0 .. inodes'
    BY <1>1, <1>5 DEF Named
  <2> QED  BY <1>5, <2>2, <2>3 DEF Named
<1>6. ASSUME NEW p \in Preparers
      PROVE  /\ pc[p] \in {"recheck", "rewrite"} => previous[p] # NoManifest
             /\ previous[p] \in Entries
  BY DEF Named, Entries
<1>7. manifest \in Entries /\ survivors \subseteq Entries
  BY DEF Entries
<1>8. ASSUME NEW c \in Contents, Stands(c), inodes' = inodes + 1,
              PutManifest([inode |-> inodes + 1, names |-> c])
       PROVE  \A entry \in survivors' \cup {manifest'} : entry \in Entries \/ IsNamed(entry)'
  <2>1. ASSUME NEW entry, entry = [inode |-> inodes + 1, names |-> c]  PROVE IsNamed(entry)'
    BY <1>1, <1>2, <1>8, <2>1 DEF IsNamed
  <2> QED  BY <1>7, <1>8, <2>1 DEF PutManifest
<1>9. ASSUME NEW p \in Preparers,
             \/ TakeLock(p) \/ RefuseLock(p) \/ Download(p) \/ MoveStage(p) \/ ReuseSnapshot(p)
             \/ SettleSnapshot(p) \/ Pin(p) \/ RecordPublication(p) \/ Revalidate(p)
             \/ ReportPrepared(p) \/ RefuseSnapshot(p) \/ Fault(p)
      PROVE  Named'
  <2>1. UNCHANGED <<manifest, survivors, inodes, previous, published>>
    BY <1>9 DEF TakeLock, RefuseLock, Download, MoveStage, ReuseSnapshot, SettleSnapshot, Pin,
                RecordPublication, Revalidate, ReportPrepared, RefuseSnapshot, Fault, files, prepare
  <2>2. \A q \in Preparers : pc'[q] \in {"recheck", "rewrite"} => pc'[q] = pc[q]
    BY <1>1, <1>9 DEF TakeLock, RefuseLock, Download, MoveStage, ReuseSnapshot, SettleSnapshot, Pin,
                RecordPublication, Revalidate, ReportPrepared, RefuseSnapshot, Fault, Goto, Fail, Handler
  <2> QED  BY <1>5, <1>6, <1>7, <2>1, <2>2
<1>10. ASSUME NEW p \in Preparers,
             \/ SynchronizeManifest(p) \/ RemoveBackup(p) \/ Resynchronize(p) \/ RecheckManifest(p)
             \/ BeginRollback(p) \/ KeepPrevious(p)
      PROVE  Named'
  <2>1. /\ UNCHANGED <<manifest, inodes, published>> /\ survivors' \subseteq survivors \cup {manifest}
        /\ previous' = previous \/ previous' = [previous EXCEPT ![p] = manifest]
    BY <1>10 DEF SynchronizeManifest, RemoveBackup, Resynchronize, RecheckManifest, BeginRollback,
                KeepPrevious, FsyncManifest, files, prepare
  <2>2. \A q \in Preparers : previous'[q] \in Entries
    BY <1>1, <1>6, <1>7, <2>1
  <2>3. ASSUME NEW q \in Preparers, pc'[q] \in {"recheck", "rewrite"}  PROVE previous'[q] # NoManifest
    <3>1. CASE KeepPrevious(p)
      <4>1. pc[p] = "backup" /\ pc' = [pc EXCEPT ![p] = "replace"]
        BY <3>1 DEF KeepPrevious, Goto
      <4>2. pc[q] = "idle" \/ q = p
        BY <1>1, <4>1, Exclusive
      <4> QED  BY <1>1, <2>3, <4>1, <4>2
    <3>2. CASE BeginRollback(p)
      <4>1. /\ previous' = previous
            /\ pc'[q] = pc[q] \/ previous[q] # NoManifest
        BY <1>1, <2>3, <3>2 DEF BeginRollback, Goto, prepare
      <4> QED  BY <1>6, <2>3, <4>1
    <3>3. CASE RecheckManifest(p)
      <4>1. previous' = previous /\ (pc'[q] = pc[q] \/ (q = p /\ pc[q] = "recheck"))
        BY <1>1, <2>3, <3>3 DEF RecheckManifest, Goto, prepare
      <4> QED  BY <1>6, <2>3, <4>1
    <3>4. CASE SynchronizeManifest(p) \/ RemoveBackup(p) \/ Resynchronize(p)
      <4>1. previous' = previous /\ pc'[q] = pc[q]
        BY <1>1, <2>3, <3>4 DEF SynchronizeManifest, RemoveBackup, Resynchronize, Goto, prepare
      <4> QED  BY <1>6, <2>3, <4>1
    <3> QED  BY <1>10, <3>1, <3>2, <3>3, <3>4
  <2> QED  BY <1>5, <1>7, <2>1, <2>2, <2>3
<1>11. ASSUME NEW p \in Preparers, ReplaceManifest(p) \/ RewritePrevious(p)  PROVE Named'
  <2>1. PICK c : /\ inodes' = inodes + 1 /\ PutManifest([inode |-> inodes + 1, names |-> c])
                 /\ c \in Contents /\ Stands(c)
    <3>1. CASE ReplaceManifest(p)
      <4>1. pc[p] = "replace"
        BY <3>1 DEF ReplaceManifest
      <4>2. content[p] \in Contents /\ Stands(content[p])
        BY <1>1, <4>1 DEF Settled, Knows, Downloaded, Body
      <4> QED  BY <3>1, <4>2 DEF ReplaceManifest
    <3>2. CASE RewritePrevious(p)
      <4>1. previous[p] # NoManifest /\ IsNamed(previous[p])
        BY <1>6, <3>2 DEF RewritePrevious, Named
      <4> QED  BY <3>2, <4>1 DEF RewritePrevious, IsNamed
    <3> QED  BY <1>11, <3>1, <3>2
  <2>2. \A entry \in survivors' \cup {manifest'} : entry \in Entries \/ IsNamed(entry)'
    BY <1>8, <2>1
  <2>3. /\ previous' = previous
        /\ \A q \in Preparers : /\ published'[q] \in {published[q], inodes'}
                                /\ pc'[q] \in {"recheck", "rewrite"} => pc'[q] = pc[q]
    BY <1>1, <1>11 DEF ReplaceManifest, RewritePrevious, Goto, prepare
  <2> QED  BY <1>5, <1>6, <2>1, <2>2, <2>3
<1>12. ASSUME NEW p \in Preparers, PutBack(p)  PROVE Named'
  <2>1. /\ UNCHANGED <<inodes, previous, published>>
        /\ manifest' = previous[p] /\ survivors' = survivors \cup {previous[p]}
        /\ \A q \in Preparers : pc'[q] \in {"recheck", "rewrite"} => pc'[q] = pc[q]
    BY <1>1, <1>12 DEF PutBack, PutManifest, Goto
  <2> QED  BY <1>5, <1>6, <1>7, <2>1
<1>13. ASSUME NEW p \in Preparers, CleanUp(p) \/ Kill(p)  PROVE Named'
  <2>1. UNCHANGED <<manifest, survivors, inodes>> /\ Forget({p})
    BY <1>13 DEF CleanUp, Kill, files
  <2>2. \A q \in Preparers : /\ previous'[q] \in {previous[q], NoManifest}
                             /\ published'[q] \in {published[q], 0}
                             /\ q = p => pc'[q] = "idle"
                             /\ q # p => pc'[q] = pc[q] /\ previous'[q] = previous[q]
    BY <2>1 DEF Forget
  <2> QED  BY <1>5, <1>6, <1>7, <2>1, <2>2
<1>14. ASSUME NEW r \in Readers, Read(r)  PROVE Named'
  <2>1. UNCHANGED <<manifest, survivors, inodes, pc, previous, published>>
    BY <1>14 DEF Read, OpenManifest, ReadManifest, RefuseRead, HashSnapshot, files, prepare
  <2> QED  BY <1>5, <1>6, <1>7, <2>1
<1>15. ASSUME NEW c \in Contents, WriteBack(c) \/ Damage(c)  PROVE Named'
  <2>1. UNCHANGED <<manifest, survivors, inodes, pc, previous, published>>
    BY <1>15 DEF WriteBack, Damage, prepare
  <2> QED  BY <1>5, <1>6, <1>7, <2>1
<1>16. ASSUME NEW c \in Contents, ReplaceByHand(c)  PROVE Named'
  <2>1. /\ inodes' = inodes + 1 /\ UNCHANGED <<pc, previous, published>>
        /\ PutManifest([inode |-> inodes + 1, names |-> c]) /\ Stands(c)
    BY <1>16 DEF ReplaceByHand, Stands
  <2>2. \A entry \in survivors' \cup {manifest'} : entry \in Entries \/ IsNamed(entry)'
    BY <1>8, <2>1
  <2> QED  BY <1>5, <1>6, <2>1, <2>2
<1>17. ASSUME LosePower  PROVE Named'
  <2>1. /\ inodes' = inodes /\ manifest' \in survivors /\ survivors' = {manifest'}
        /\ Forget(Preparers)
    BY <1>17 DEF LosePower
  <2>2. \A q \in Preparers : previous'[q] = NoManifest /\ published'[q] = 0 /\ pc'[q] = "idle"
    BY <2>1 DEF Forget
  <2> QED  BY <1>5, <1>7, <2>1, <2>2
<1>18. ASSUME UNCHANGED vars  PROVE Named'
  <2>1. UNCHANGED <<manifest, survivors, inodes, pc, previous, published>>
    BY <1>18 DEF vars, files, prepare
  <2> QED  BY <1>5, <1>6, <1>7, <2>1
<1> QED
  BY <1>9, <1>10, <1>11, <1>12, <1>13, <1>14, <1>15, <1>16, <1>17, <1>18 DEF Next, Prepare

(* Whoever has opened a manifest finds its snapshot, or learns why not.    *)
LEMMA NextSeen ==
    ASSUME NullsAssumption, Inv, Kept, Named, Seen, MissHasCause, [Next]_vars
    PROVE  Seen' /\ MissHasCause'
<1>1. /\ stands \in [Readers -> {"idle", "read", "hash", "found", "missed"}]
      /\ reading \in [Readers -> Manifests] /\ disturbed \in [Readers -> BOOLEAN]
      /\ expects \in [Readers -> BOOLEAN] /\ snapshot \in [Contents -> States]
      /\ unsettled \subseteq Contents
  BY DEF Inv, TypeOK
<1>2. \A c \in Contents : Stands(c) => Stands(c)'
  BY StandsStays
<1>3. ASSUME LosePower  PROVE Seen' /\ MissHasCause'
  BY <1>3 DEF LosePower, Seen, MissHasCause
<1>4. \/ LosePower
       \/ /\ unsettled \subseteq unsettled'
          /\ \A c \in Contents : snapshot[c] = "damaged" => snapshot'[c] = "damaged"
  <2>1. ASSUME NEW p \in Preparers, MoveStage(p) \/ SettleSnapshot(p)
        PROVE  /\ unsettled \subseteq unsettled'
               /\ \A c \in Contents : snapshot[c] = "damaged" => snapshot'[c] = "damaged"
    BY <1>1, <2>1 DEF MoveStage, SettleSnapshot
  <2>2. ASSUME NEW c \in Contents, WriteBack(c) \/ Damage(c)
        PROVE  /\ unsettled \subseteq unsettled'
               /\ \A d \in Contents : snapshot[d] = "damaged" => snapshot'[d] = "damaged"
    BY <1>1, <2>2 DEF WriteBack, Damage
  <2> QED  BY <2>1, <2>2, SnapshotSteps
\* What was a cause stays one, while the reader stands where it stood.
<1>5. ASSUME UNCHANGED <<reading, stands, expects>>,
             \A r \in Readers : disturbed[r] => disturbed'[r],
             unsettled \subseteq unsettled',
             \A c \in Contents : snapshot[c] = "damaged" => snapshot'[c] = "damaged"
      PROVE  Seen' /\ MissHasCause'
  <2>1. Seen'
    <3>1. ASSUME NEW r \in Readers, stands'[r] \in {"read", "hash"}
          PROVE  reading'[r].names \in Contents /\ Stands(reading[r].names)'
      <4>1. reading'[r] = reading[r] /\ reading[r].names \in Contents /\ Stands(reading[r].names)
        BY <1>5, <3>1 DEF Seen
      <4> QED  BY <1>2, <4>1 DEF Stands
    <3> QED  BY <3>1 DEF Seen
  <2> QED  BY <1>5, <2>1 DEF MissHasCause
<1>6. ASSUME NEW p \in Preparers, TakeLock(p) \/ RefuseLock(p) \/ Fault(p) \/ Kill(p) \/ Prepare(p)
      PROVE  Seen' /\ MissHasCause'
  <2>1. UNCHANGED <<reading, stands, expects>> /\ \A r \in Readers : disturbed[r] => disturbed'[r]
    <3>1. CASE TakeLock(p) \/ RefuseLock(p) \/ Fault(p) \/ Kill(p)
      BY <3>1 DEF TakeLock, RefuseLock, Fault, Kill, readers
    <3>2. CASE \/ Download(p) \/ MoveStage(p) \/ ReuseSnapshot(p) \/ SettleSnapshot(p) \/ Pin(p)
               \/ RecordPublication(p) \/ SynchronizeManifest(p) \/ Revalidate(p)
               \/ ReportPrepared(p) \/ RefuseSnapshot(p) \/ BeginRollback(p)
               \/ RecheckManifest(p) \/ Resynchronize(p)
      BY <3>2 DEF Download, MoveStage, ReuseSnapshot, SettleSnapshot, Pin, RecordPublication,
                  SynchronizeManifest, Revalidate, ReportPrepared, RefuseSnapshot, BeginRollback,
                  RecheckManifest, Resynchronize, readers
    <3>3. CASE KeepPrevious(p) \/ ReplaceManifest(p) \/ PutBack(p) \/ RewritePrevious(p)
      BY <1>1, <3>3 DEF KeepPrevious, ReplaceManifest, PutBack, RewritePrevious, Touch
    <3>4. CASE RemoveBackup(p) \/ CleanUp(p)
      BY <1>1, <3>4 DEF RemoveBackup, CleanUp, Touch
    <3> QED  BY <1>6, <3>1, <3>2, <3>3, <3>4 DEF Prepare
  <2> QED  BY <1>5, <1>3, <1>4, <2>1
<1>7. ASSUME NEW c \in Contents, WriteBack(c) \/ ReplaceByHand(c) \/ Damage(c)
      PROVE  Seen' /\ MissHasCause'
  <2>1. /\ UNCHANGED <<reading, stands, expects>>
        /\ \A r \in Readers : disturbed[r] => disturbed'[r]
    BY <1>1, <1>7 DEF WriteBack, ReplaceByHand, Damage, Touch, readers
  <2> QED  BY <1>5, <1>3, <1>4, <2>1
\* One reader takes a step.
<1>8. ASSUME NEW r \in Readers, UNCHANGED files,
             \A q \in Readers : q # r =>
                 /\ stands'[q] = stands[q] /\ reading'[q] = reading[q]
                 /\ disturbed'[q] = disturbed[q] /\ expects'[q] = expects[q],
             stands'[r] \in {"read", "hash"} =>
                 reading'[r].names \in Contents /\ Stands(reading'[r].names),
             stands'[r] = "missed" /\ expects'[r] =>
                 \/ disturbed'[r] \/ reading'[r].names \in unsettled
                 \/ \E c \in Contents : reading'[r].names = c /\ snapshot[c] = "damaged"
      PROVE  Seen' /\ MissHasCause'
  <2>1. Seen'
    BY <1>8 DEF Seen, Stands, files
  <2>2. MissHasCause'
    BY <1>8 DEF MissHasCause, files
  <2> QED  BY <2>1, <2>2
<1>9. ASSUME NEW r \in Readers, OpenManifest(r)  PROVE Seen' /\ MissHasCause'
  <2>1. /\ UNCHANGED files
        /\ \A q \in Readers : q # r =>
              /\ stands'[q] = stands[q] /\ reading'[q] = reading[q]
              /\ disturbed'[q] = disturbed[q] /\ expects'[q] = expects[q]
        /\ reading'[r] = manifest /\ expects'[r] = prepared
        /\ stands'[r] = IF manifest = NoManifest THEN "missed" ELSE "read"
    BY <1>1, <1>9 DEF OpenManifest, Answer
  <2>2. manifest # NoManifest => manifest.names \in Contents /\ Stands(manifest.names)
    BY DEF Named, Entries, IsNamed
  <2>3. prepared => manifest # NoManifest
    BY DEF Kept, NoManifest
  <2> QED  BY <1>8, <2>1, <2>2, <2>3
<1>10. ASSUME NEW r \in Readers, ReadManifest(r) \/ RefuseRead(r) \/ HashSnapshot(r)
      PROVE  Seen' /\ MissHasCause'
  <2>1. UNCHANGED files /\ UNCHANGED <<reading, disturbed, expects>>
    BY <1>10 DEF ReadManifest, RefuseRead, HashSnapshot
  <2>2. reading[r].names \in Contents /\ Stands(reading[r].names)
    BY <1>10 DEF ReadManifest, RefuseRead, HashSnapshot, Seen
  <2>3. /\ \A q \in Readers : q # r => stands'[q] = stands[q]
        /\ stands'[r] = "missed" =>
              disturbed[r] \/ (stands[r] = "hash" /\ snapshot[reading[r].names] # "intact")
    BY <1>1, <1>10 DEF ReadManifest, RefuseRead, HashSnapshot, Answer
  <2>4. snapshot[reading[r].names] # "intact" =>
            reading[r].names \in unsettled \/ snapshot[reading[r].names] = "damaged"
    BY <1>1, <2>2 DEF Stands, States
  <2> QED  BY <1>8, <2>1, <2>2, <2>3, <2>4
<1>11. ASSUME UNCHANGED vars  PROVE Seen' /\ MissHasCause'
  BY <1>5, <1>11 DEF vars, files, readers
<1> QED
  BY <1>3, <1>6, <1>7, <1>9, <1>10, <1>11 DEF Next, Read

(* What a failure would put back stays what was found: nobody else touches *)
(* the manifest, but by hand, and then the inode of the manifest tells.    *)
LEMMA NextRestorable ==
    ASSUME NullsAssumption, Inv, Named, Restorable, [Next]_vars
    PROVE  Restorable'
<1>1. /\ TypeOK /\ pc \in [Preparers -> Steps] /\ failed \in [Preparers -> BOOLEAN]
      /\ spoiled \in [Preparers -> BOOLEAN] /\ previous \in [Preparers -> Manifests]
      /\ published \in [Preparers -> Nat] /\ inodes \in Nat
      /\ found \in [Preparers -> Contents \cup {NoModel}]
  BY DEF Inv, TypeOK
<1>2. manifest.inode \in 0 .. inodes /\ \A p \in Preparers : published[p] \in 0 .. inodes
  BY DEF Named, Entries, IsNamed
<1>3. ASSUME NEW p \in Preparers, pc'[p] = "idle"  PROVE Restores(p)'
  BY <1>3 DEF Restores, Untouched, Replacing, InDoubt, Recorded
\* Only the holder of the lock is to be looked at.
<1>4. ASSUME NEW p \in Preparers, pc[p] # "idle",
             \A q \in Preparers : q # p => pc'[q] = pc[q],
             ~spoiled'[p] => Restores(p)'
      PROVE  Restorable'
  <2>1. \A q \in Preparers : q # p => pc'[q] = "idle"
    BY <1>1, <1>4, Exclusive
  <2> QED  BY <1>3, <1>4, <2>1 DEF Restorable
<1>5. ASSUME UNCHANGED <<manifest, pc, previous, published, failed, found, spoiled>>
      PROVE  Restorable'
  BY <1>5 DEF Restorable, Restores, OwnsManifest
\* A step of the holder that leaves the manifest and what is known of it alone.
<1>6. ASSUME NEW p \in Preparers,
             \/ Download(p) \/ MoveStage(p) \/ ReuseSnapshot(p) \/ SettleSnapshot(p) \/ Pin(p)
             \/ RecordPublication(p) \/ SynchronizeManifest(p) \/ Revalidate(p)
             \/ RemoveBackup(p) \/ ReportPrepared(p) \/ RefuseSnapshot(p) \/ BeginRollback(p)
             \/ RecheckManifest(p) \/ Resynchronize(p) \/ Fault(p)
      PROVE  Restorable'
  <2>1. /\ UNCHANGED <<manifest, previous, published, found>>
        /\ ~spoiled'[p] => ~spoiled[p]
        /\ \A q \in Preparers : q # p => pc'[q] = pc[q]
        /\ pc[p] # "idle"
    BY <1>1, <1>6
    DEF Download, MoveStage, ReuseSnapshot, SettleSnapshot, Pin, RecordPublication,
        SynchronizeManifest, Revalidate, RemoveBackup, ReportPrepared, RefuseSnapshot,
        BeginRollback, RecheckManifest, Resynchronize, Fault, Fail, Handler, Goto, files, prepare
  <2>2. ASSUME ~spoiled'[p]  PROVE Restores(p)'
    <3>1. Restores(p)
      BY <2>1, <2>2 DEF Restorable
    <3>2. CASE Download(p) \/ MoveStage(p) \/ ReuseSnapshot(p) \/ SettleSnapshot(p) \/ Pin(p)
      <4>1. pc[p] \in Untouched /\ pc'[p] \in Untouched \ {"replace"} /\ UNCHANGED failed
        BY <1>1, <3>2 DEF Download, MoveStage, ReuseSnapshot, SettleSnapshot, Pin, Goto, Untouched
      <4> QED  BY <2>1, <3>1, <4>1 DEF Restores, Untouched, Replacing, InDoubt, Recorded
    <3>3. CASE RecordPublication(p) \/ SynchronizeManifest(p) \/ Revalidate(p) \/ RemoveBackup(p)
      <4>1. pc[p] \in {"reopen"} \cup Recorded /\ pc'[p] \in Recorded /\ UNCHANGED failed
        BY <1>1, <3>3 DEF RecordPublication, SynchronizeManifest, Revalidate, RemoveBackup, Goto,
                    InDoubt, Recorded
      <4> QED  BY <2>1, <3>1, <4>1
               DEF Restores, Untouched, Replacing, InDoubt, Recorded, OwnsManifest
    <3>4. CASE ReportPrepared(p)
      <4>1. pc[p] = "final" /\ pc'[p] = "cleanup" /\ failed' = failed
        BY <1>1, <3>4 DEF ReportPrepared, Goto
      <4> QED  BY <3>1, <4>1 DEF Restores, Untouched, Replacing, InDoubt, Recorded
    <3>5. CASE BeginRollback(p)
      <4>1. /\ pc[p] = "rollback" /\ UNCHANGED failed
            /\ pc'[p] = IF ~ OwnsManifest(p) THEN "cleanup"
                        ELSE IF previous[p] # NoManifest /\ ~ backup[p] THEN "recheck" ELSE "undo"
        BY <1>1, <3>5 DEF BeginRollback, Goto
      <4> QED  BY <2>1, <3>1, <4>1
               DEF Restores, Untouched, Replacing, InDoubt, Recorded, OwnsManifest
    <3>6. CASE RecheckManifest(p) \/ Resynchronize(p)
      <4>1. /\ pc[p] \in {"recheck", "resync"} /\ UNCHANGED failed
            /\ pc[p] = "resync" => pc'[p] = "cleanup"
            /\ pc[p] = "recheck" => pc'[p] = IF OwnsManifest(p) THEN "rewrite" ELSE "cleanup"
        BY <1>1, <3>6 DEF RecheckManifest, Resynchronize, Goto
      <4> QED  BY <2>1, <3>1, <4>1
               DEF Restores, Untouched, Replacing, InDoubt, Recorded, OwnsManifest
    <3>7. CASE RefuseSnapshot(p)
      <4>1. /\ pc[p] \in Untouched \/ pc[p] \in Recorded \/ (pc[p] = "reopen" /\ ~ OwnsManifest(p))
            /\ pc'[p] = IF pc[p] \in Recorded THEN "rollback" ELSE "cleanup"
        BY <1>1, <3>7 DEF RefuseSnapshot, Fail, Handler, Goto, Untouched, Recorded
      <4> QED  BY <2>1, <3>1, <4>1
               DEF Restores, Untouched, Replacing, InDoubt, Recorded, OwnsManifest
    <3>8. CASE Fault(p)
      <4>1. /\ pc[p] \in Untouched \cup Recorded \cup {"resync"}
            /\ pc'[p] = IF pc[p] \in Recorded THEN "rollback" ELSE "cleanup"
        BY <1>1, <2>2, <3>8 DEF Fault, Fail, Handler, Goto, Fragile, Steps, Body, Undoing,
                    Untouched, Recorded
      <4> QED  BY <2>1, <3>1, <4>1
               DEF Restores, Untouched, Replacing, InDoubt, Recorded, OwnsManifest
    <3> QED  BY <1>6, <3>2, <3>3, <3>4, <3>5, <3>6, <3>7, <3>8
  <2> QED  BY <1>4, <2>1, <2>2
<1>7. ASSUME NEW p \in Preparers, TakeLock(p)  PROVE Restorable'
  <2>1. /\ lock = Nobody /\ pc' = [pc EXCEPT ![p] = "download"]
        /\ found' = [found EXCEPT ![p] = manifest.names]
        /\ UNCHANGED <<manifest, failed, spoiled>>
    BY <1>7 DEF TakeLock, Goto, files
  <2>2. \A q \in Preparers : pc[q] = "idle" /\ ~failed[q]
    BY <1>1, <2>1 DEF TypeOK, NullsAssumption
  <2>3. Restores(p)'
    BY <1>1, <2>1, <2>2 DEF Restores, Untouched, Replacing, InDoubt, Recorded
  <2>4. \A q \in Preparers : q # p => pc'[q] = "idle"
    BY <1>1, <2>1, <2>2
  <2> QED  BY <1>3, <2>3, <2>4 DEF Restorable
<1>8. ASSUME NEW p \in Preparers, KeepPrevious(p)  PROVE Restorable'
  <2>1. /\ pc[p] = "backup" /\ pc' = [pc EXCEPT ![p] = "replace"]
        /\ previous' = [previous EXCEPT ![p] = manifest]
        /\ UNCHANGED <<manifest, found, failed, spoiled>>
    BY <1>8 DEF KeepPrevious, Goto
  <2>2. ~spoiled[p] => manifest.names = found[p] /\ ~failed[p]
    BY <2>1 DEF Restorable, Restores, Untouched
  <2>3. ~spoiled'[p] => Restores(p)'
    BY <1>1, <2>1, <2>2 DEF Restores, Untouched, Replacing, InDoubt, Recorded
  <2> QED  BY <1>1, <1>4, <2>1, <2>3
<1>9. ASSUME NEW p \in Preparers, ReplaceManifest(p)  PROVE Restorable'
  <2>1. /\ pc[p] = "replace" /\ pc' = [pc EXCEPT ![p] = "reopen"]
        /\ published' = [published EXCEPT ![p] = inodes + 1]
        /\ manifest'.inode = inodes + 1
        /\ UNCHANGED <<previous, found, failed, spoiled>>
    BY <1>9 DEF ReplaceManifest, Goto, PutManifest
  <2>2. ~spoiled[p] => previous[p].names = found[p] /\ ~failed[p]
    BY <2>1 DEF Restorable, Restores, Untouched, Replacing
  <2>3. ~spoiled'[p] => Restores(p)'
    BY <1>1, <2>1, <2>2 DEF Restores, Untouched, Replacing, InDoubt, Recorded, OwnsManifest
  <2> QED  BY <1>1, <1>4, <2>1, <2>3
<1>10. ASSUME NEW p \in Preparers, PutBack(p) \/ RewritePrevious(p)  PROVE Restorable'
  <2>1. /\ pc[p] \in {"undo", "rewrite"} /\ pc' = [pc EXCEPT ![p] = "resync"]
        /\ manifest'.names = previous[p].names
        /\ UNCHANGED <<found, spoiled>>
    BY <1>10 DEF PutBack, RewritePrevious, Goto, PutManifest, prepare
  <2>2. ~spoiled[p] => previous[p].names = found[p]
    BY <2>1 DEF Restorable, Restores, Replacing
  <2>3. ~spoiled'[p] => Restores(p)'
    BY <1>1, <2>1, <2>2 DEF Restores, Untouched, Replacing, InDoubt, Recorded
  <2> QED  BY <1>1, <1>4, <2>1, <2>3
<1>11. ASSUME NEW p \in Preparers, CleanUp(p) \/ Kill(p)  PROVE Restorable'
  <2>1. pc[p] # "idle" /\ pc'[p] = "idle" /\ \A q \in Preparers : q # p => pc'[q] = pc[q]
    BY <1>1, <1>11, ForgetTypes DEF CleanUp, Kill
  <2> QED  BY <1>3, <1>4, <2>1
<1>12. ASSUME NEW c \in Contents, ReplaceByHand(c)  PROVE Restorable'
  <2>1. /\ manifest'.names = c /\ manifest'.inode = inodes + 1
        /\ UNCHANGED <<pc, previous, published, failed>>
        /\ found' = [p \in Preparers |-> IF pc[p] = "idle" THEN found[p] ELSE c]
        /\ spoiled' = [p \in Preparers |-> spoiled[p] \/ pc[p] \in Replacing]
    BY <1>12 DEF ReplaceByHand, PutManifest
  <2>2. ASSUME NEW p \in Preparers, pc[p] # "idle", ~spoiled'[p]  PROVE Restores(p)'
    <3>1. Restores(p) /\ pc[p] \notin Replacing /\ found'[p] = c
      BY <2>1, <2>2 DEF Restorable
    <3>2. manifest'.inode # published'[p]
      BY <1>1, <1>2, <2>1
    <3> QED  BY <2>1, <3>1, <3>2 DEF Restores, OwnsManifest
  <2> QED  BY <1>3, <2>1, <2>2 DEF Restorable
<1>13. CASE LosePower
  <2>1. \A p \in Preparers : pc'[p] = "idle"
    BY <1>1, <1>13, ForgetTypes DEF LosePower
  <2> QED  BY <1>3, <2>1 DEF Restorable
<1>14. ASSUME \/ \E p \in Preparers : RefuseLock(p)
              \/ \E r \in Readers : Read(r)
              \/ \E c \in Contents : WriteBack(c) \/ Damage(c)
              \/ UNCHANGED vars
       PROVE  Restorable'
  <2>1. UNCHANGED <<manifest, pc, previous, published, failed, found, spoiled>>
    BY <1>14 DEF RefuseLock, Read, OpenManifest, ReadManifest, RefuseRead, HashSnapshot, WriteBack,
                 Damage, vars, files, prepare
  <2> QED  BY <1>5, <2>1
<1> QED
  BY <1>6, <1>7, <1>8, <1>9, <1>10, <1>11, <1>12, <1>13, <1>14 DEF Next, Prepare

---------------------------------------------------------------------------
(* Every variable keeps its type, and nobody but the holder of the lock    *)
(* has a backup or an exception on its way (ModelPublication, all actions).*)
THEOREM TypeCorrect == ASSUME NullsAssumption PROVE Spec => []TypeOK
<1>1. Inv => TypeOK
  BY DEF Inv
<1> QED  BY <1>1, InvariantHolds, PTL

(* Preparations implement PublishedModel: the manifest is replaced as a    *)
(* whole by what this preparation has verified, or put back to what it     *)
(* found, under any faults, kills, power losses and manifests put there by *)
(* others, and success is reported only of what it verified, is published  *)
(* undamaged and survives a power loss (prepare.py,                        *)
(* prepare_embedding_model and _atomic_publish).                           *)
THEOREM Refinement == ASSUME NullsAssumption PROVE Spec => ImplementsPublishedModel
<1>1. Init => Model!Init
  BY InitRefines
<1>2. Inv /\ [Next]_vars => [Model!Next]_(Model!vars)
  BY NextRefines
<1> QED
  BY <1>1, <1>2, InvariantHolds, PTL DEF Spec, ImplementsPublishedModel, Model!Spec

(* Whatever implements PublishedModel keeps a model published.             *)
LEMMA KeptByModel ==
    ASSUME NullsAssumption, Kept, [Model!Next]_(Model!vars)
    PROVE  Kept'
<1>1. NoModel \notin Contents
  BY DEF NullsAssumption
<1>2. CASE UNCHANGED Model!vars
  BY <1>2 DEF Kept, Model!vars
<1>3. CASE Model!Observe
  BY <1>3 DEF Kept, Model!Observe, Model!Synchronized
<1>4. CASE Model!Synchronize
  BY <1>4 DEF Kept, Model!Synchronize, Model!Synchronized
<1>5. CASE Model!Withdraw
  BY <1>5 DEF Kept, Model!Withdraw
<1>6. CASE Model!LosePower
  BY <1>1, <1>6 DEF Kept, Model!LosePower
<1>7. CASE Model!Publish
  BY <1>7 DEF Kept, Model!Publish
<1>8. ASSUME NEW c \in Contents, Model!Verify(c)  PROVE Kept'
  BY <1>8 DEF Kept, Model!Verify
<1>9. ASSUME NEW c \in Contents, Model!Replace(c)  PROVE Kept'
  BY <1>1, <1>9 DEF Kept, Model!Replace
<1>10. ASSUME NEW c \in Contents, Model!Store(c) \/ Model!Damage(c)  PROVE Kept'
  BY <1>1, <1>10 DEF Kept, Model!Store, Model!Damage
<1>11. ASSUME NEW success \in BOOLEAN, Model!End(success)  PROVE Kept'
  BY <1>11 DEF Kept, Model!End, Model!Synchronized
<1> QED
  BY <1>2, <1>3, <1>4, <1>5, <1>6, <1>7, <1>8, <1>9, <1>10, <1>11 DEF Model!Next

(* Once a preparation has reported success a manifest is there, now and    *)
(* after a power loss, whatever later preparations do: it is enough that   *)
(* they implement PublishedModel.                                          *)
THEOREM PreparedModelStays == ASSUME NullsAssumption PROVE Spec => []PreparedStays
<1>1. Init => Kept
  BY NoPublication DEF Init, Kept, Durable, Intact
<1>2. Kept /\ [Model!Next]_(Model!vars) => Kept'
  BY KeptByModel
<1>3. Kept => PreparedStays
  BY DEF Kept, PreparedStays, Model!PreparedStays
<1>4. Inv /\ [Next]_vars => [Model!Next]_(Model!vars)
  BY NextRefines
<1> QED  BY <1>1, <1>2, <1>3, <1>4, InvariantHolds, PTL DEF Spec

---------------------------------------------------------------------------
LEMMA InitLoadable ==
    ASSUME NullsAssumption, Init
    PROVE  Settled /\ Named /\ Seen /\ MissHasCause /\ Restorable
<1>1. Settled /\ Seen /\ MissHasCause
  BY DEF Init, Settled, Seen, MissHasCause
<1>2. Named
  <2>1. Entries \subseteq {NoManifest} /\ inodes = 0 /\ \A p \in Preparers : published[p] = 0
    BY DEF Init, Entries
  <2>2. \A p \in Preparers : pc[p] = "idle"
    BY DEF Init
  <2> QED  BY <2>1, <2>2 DEF Named, IsNamed, NoManifest
<1>3. Restorable
  BY DEF Init, Restorable, Restores, Untouched, Replacing, InDoubt, Recorded
<1> QED  BY <1>1, <1>2, <1>3

LEMMA LoadableHolds ==
    ASSUME NullsAssumption
    PROVE  Spec => [](Settled /\ Named /\ Seen /\ MissHasCause /\ Restorable)
<1> DEFINE Loadable == Settled /\ Named /\ Seen /\ MissHasCause /\ Restorable
<1>1. Init => Kept /\ Loadable
  BY InitLoadable, NoPublication DEF Init, Kept, Durable, Intact
<1>2. Inv /\ Kept /\ Loadable /\ [Next]_vars => Kept' /\ Loadable'
  <2> SUFFICES ASSUME Inv, Kept, Loadable, [Next]_vars  PROVE Kept' /\ Loadable'
    OBVIOUS
  <2>1. Kept'
    BY NextRefines, KeptByModel
  <2>2. Settled' /\ Named'
    BY NextSettled, NextNamed
  <2>3. Seen' /\ MissHasCause'
    BY NextSeen
  <2>4. Restorable'
    BY NextRestorable
  <2> QED  BY <2>1, <2>2, <2>3, <2>4
<1> QED  BY <1>1, <1>2, InvariantHolds, PTL DEF Spec

(* What has been prepared can be loaded: the manifest in place and every   *)
(* manifest that may come back name a snapshot that is there, and a reader *)
(* that began after a preparation succeeded misses it only for a cause     *)
(* (prepare.py, prepare_embedding_model and _atomic_publish; manifest.py,   *)
(* verified_model_snapshot).                                               *)
THEOREM PreparedModelLoads == ASSUME NullsAssumption PROVE Spec => []PreparedIsLoadable
<1>1. Named /\ MissHasCause => PreparedIsLoadable
  <2> SUFFICES ASSUME Named, MissHasCause  PROVE ManifestNamesSnapshot
    BY DEF PreparedIsLoadable
  <2>1. ASSUME NEW entry \in survivors \cup {manifest}
        PROVE  entry = NoManifest \/ Stands(entry.names)
    BY DEF Named, Entries, IsNamed
  <2> QED  BY <2>1 DEF ManifestNamesSnapshot, Stands
<1> QED  BY <1>1, LoadableHolds, PTL

(* A preparation that fails, wherever it was when the exception came and   *)
(* whatever others did to the manifest, leaves it naming what it named,    *)
(* unless a step of Fragile failed or a race was lost (prepare.py,         *)
(* _ManifestPublication.rollback).                                         *)
THEOREM FailedPreparationRestores ==
    ASSUME NullsAssumption PROVE Spec => []FailureRestores
<1>1. Restorable => FailureRestores
  BY DEF Restorable, Restores, FailureRestores
<1> QED  BY <1>1, LoadableHolds, PTL
===========================================================================
