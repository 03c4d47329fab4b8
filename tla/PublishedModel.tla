--------------------------- MODULE PublishedModel --------------------------
(***************************************************************************)
(* What the preparation of the embedding model promises: one published     *)
(* content at a time, replaced or put back as a whole, by a content that   *)
(* was verified before, and once a preparation has reported success a      *)
(* model is published for ever, power losses included.                     *)
(***************************************************************************)
EXTENDS Naturals

CONSTANTS Contents, NoModel

NoModelAssumption == NoModel \notin Contents

VARIABLES
    current,        \* the published content
    durable,        \* the contents that may be published after a power loss
    intact,         \* the contents whose snapshots are stored undamaged
    phase,          \* of the one publication that may be going on
    verified,       \* what that publication has verified
    prior,          \* what it found published
    replacements,   \* how often somebody else put a manifest there
    prepared        \* some preparation has reported success

vars == <<current, durable, intact, phase, verified, prior, replacements, prepared>>

Init ==
    /\ current = NoModel
    /\ durable = {NoModel}
    /\ intact = {}
    /\ phase = "none"
    /\ verified = NoModel
    /\ prior = NoModel
    /\ replacements = 0
    /\ prepared = FALSE

(* The directory of the manifest may be synchronized at any step. *)
Synchronized == durable' \in {durable, {current}}

Verify(c) ==
    /\ phase = "none"
    /\ c \in intact
    /\ phase' = "verified"
    /\ verified' = c
    /\ UNCHANGED <<current, durable, intact, prior, replacements, prepared>>

Observe ==
    /\ phase = "verified"
    /\ phase' = "observed"
    /\ prior' = current
    /\ Synchronized
    /\ UNCHANGED <<current, intact, verified, replacements, prepared>>

Publish ==
    /\ phase = "observed"
    /\ phase' = "published"
    /\ current' = verified
    /\ durable' = durable \cup {verified}
    /\ UNCHANGED <<intact, verified, prior, replacements, prepared>>

Synchronize ==
    /\ Synchronized
    /\ UNCHANGED <<current, intact, phase, verified, prior, replacements, prepared>>

(* The publication ends; the code reports success, failure or nothing.     *)
(* Success means that what was verified is what is published, still        *)
(* undamaged, and that no power loss can bring back the time before the    *)
(* first model.                                                            *)
End(success) ==
    /\ phase # "none"
    /\ success => /\ phase = "published"
                  /\ current = verified /\ verified \in intact
                  /\ NoModel \notin durable
    /\ phase' = "none"
    /\ verified' = NoModel
    /\ prior' = NoModel
    /\ prepared' = (prepared \/ success)
    /\ Synchronized
    /\ UNCHANGED <<current, intact, replacements>>

(* The publication is taken back.  It counts as ended only later. *)
Withdraw ==
    /\ phase = "published"
    /\ current' = prior
    /\ durable' = durable \cup {prior}
    /\ UNCHANGED <<intact, phase, verified, prior, replacements, prepared>>

(* Somebody else puts a manifest of a stored snapshot there. *)
Replace(c) ==
    /\ c \in intact
    /\ current' = c
    /\ durable' = durable \cup {c}
    /\ replacements' = replacements + 1
    /\ UNCHANGED <<intact, phase, verified, prior, prepared>>

(* Snapshots come, and are damaged. *)
Store(c) ==
    /\ intact' = intact \cup {c}
    /\ UNCHANGED <<current, durable, phase, verified, prior, replacements, prepared>>

Damage(c) ==
    /\ intact' = intact \ {c}
    /\ UNCHANGED <<current, durable, phase, verified, prior, replacements, prepared>>

LosePower ==
    /\ current' \in durable
    /\ durable' = {current'}
    /\ intact' \in SUBSET Contents
    /\ phase' = "none"
    /\ verified' = NoModel
    /\ prior' = NoModel
    /\ UNCHANGED <<replacements, prepared>>

Next ==
    \/ Observe \/ Publish \/ Synchronize \/ Withdraw \/ LosePower
    \/ \E c \in Contents : Verify(c) \/ Replace(c) \/ Store(c) \/ Damage(c)
    \/ \E success \in BOOLEAN : End(success)

Spec == Init /\ [][Next]_vars

(* Once a preparation has reported success there is a model to load, now   *)
(* and after a power loss, whatever later preparations do.                 *)
PreparedStays == prepared => current # NoModel /\ NoModel \notin durable
===========================================================================
