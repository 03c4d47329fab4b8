---------------------------- MODULE TarSnapshot ----------------------------
(***************************************************************************)
(* How git_archive.py reads a tar archive of a commit: _validate_tar_      *)
(* structure walks its raw headers before tarfile sees it, _read_archive   *)
(* takes the files the profile includes, _verify_archive_provenance        *)
(* compares them with the blobs of the commit.                             *)
(*                                                                         *)
(* A path is its parts, without those canonical_source_path drops; a       *)
(* content is a model value of some size.  Headers have a type, a path, a  *)
(* content and whether their bytes are sound; one of type "end" is the     *)
(* terminator, and headers after it stand for data that is not zero.       *)
(* tarfile itself, which joins the metadata headers with the member they   *)
(* precede, is external.                                                   *)
(***************************************************************************)
EXTENDS Naturals, Sequences, FiniteSets, SequencesExt, FiniteSetsExt

CONSTANTS
    Archives,       \* the archives git may write: sequences of headers
    Included,       \* the paths the profile includes
    Trees,          \* the blobs of the commit, by path
    SizeOf(_),      \* bytes of a content
    MaxMembers,     \* max_members
    MaxFile,        \* max_file_bytes
    MaxTotal        \* max_total_bytes

Local == {"pax", "longname"}
Metadata == Local \cup {"global"}
Regular == {"file"}
Types == Metadata \cup Regular \cup {"directory", "link", "longlink", "sparse", "solaris", "end"}

ArchiveAssumption ==
    /\ MaxMembers \in Nat /\ MaxFile \in Nat /\ MaxTotal \in Nat
    /\ \A a \in Archives :
         /\ a \in Seq(ToSet(a))
         /\ \A i \in DOMAIN a : /\ a[i].type \in Types /\ a[i].path \in Seq(STRING)
                                /\ SizeOf(a[i].content) \in Nat
    /\ \A t \in Trees : /\ IsFiniteSet(DOMAIN t)
                         /\ \A p \in DOMAIN t : p \in Seq(STRING) /\ SizeOf(t[p].content) \in Nat

VARIABLES
    archive,    \* the headers
    tree,       \* what the commit has
    step,       \* "scan", "read", "verify", "accepted" or "rejected"
    position,   \* the header looked at
    pending,    \* pending_local_metadata
    seen,       \* seen_paths
    regular,    \* regular_paths
    files,      \* archive_files: content by path
    bytes,      \* included_bytes
    excluded    \* excluded_file_count

tarVars == <<archive, tree, step, position, pending, seen, regular, files, bytes, excluded>>
found == <<seen, regular, files, bytes, excluded>>

Under(path, ancestor) == IsStrictPrefix(ancestor, path)

(* canonical_source_path: the path leads into the repository.              *)
IsSafe(path) == path # <<>> /\ ".." \notin ToSet(path)

Put(f, k, v) == [x \in DOMAIN f \cup {k} |-> IF x = k THEN v ELSE f[x]]

(* The sum of sizes, which are given by path. *)
TotalOf(sizes, paths) == FoldFunctionOnSet(LAMBDA m, n : m + n, 0, sizes, paths)

---------------------------------------------------------------------------
TarInit ==
    /\ archive \in Archives
    /\ tree \in Trees
    /\ step = "scan" /\ position = 1 /\ pending = FALSE
    /\ seen = {} /\ regular = {} /\ files = <<>>
    /\ bytes = 0 /\ excluded = 0

Now == archive[position]
Reject == step' = "rejected" /\ UNCHANGED <<position, pending, found>>

(* _validate_tar_structure: a header may come here.                        *)
Allows(h) ==
    /\ h.sound
    /\ h.type \notin {"longlink", "solaris"}
    /\ position <= MaxMembers
    /\ pending => h.type \notin Metadata

(* Whether the next header has to be a member. *)
Binds(h) == h.type \in Local

Scan ==
    /\ step = "scan"
    /\ IF position > Len(archive)
       THEN Reject
       ELSE IF Now.type = "end"
       THEN IF pending \/ ~ Now.sound \/ position < Len(archive) THEN Reject
            ELSE step' = "read" /\ position' = 1 /\ UNCHANGED <<pending, found>>
       ELSE IF Allows(Now)
       THEN position' = position + 1 /\ pending' = Binds(Now) /\ UNCHANGED <<step, found>>
       ELSE Reject
    /\ UNCHANGED <<archive, tree>>

---------------------------------------------------------------------------

(* A regular file lies where another one has its directory, in either      *)
(* order.                                                                  *)
Conflicts(h) ==
    \/ \E a \in regular : Under(h.path, a)
    \/ h.type \in Regular /\ \E p \in seen : Under(p, h.path)

TooMuch(size) == size > MaxFile \/ bytes + size > MaxTotal

Skip ==
    /\ step = "read" /\ Now.type \in Metadata
    /\ position' = position + 1
    /\ UNCHANGED <<archive, tree, step, pending, found>>

(* _read_archive: a member, its metadata already joined with it.           *)
ReadMember ==
    /\ step = "read" /\ Now.type \notin Metadata \cup {"end"}
    /\ LET h == Now
           taken == h.type \in Regular /\ h.path \in Included
       IN IF \/ ~ IsSafe(h.path) \/ h.path \in seen
             \/ h.type \notin Regular \cup {"directory"}
             \/ Conflicts(h)
             \/ taken /\ TooMuch(SizeOf(h.content))
          THEN Reject
          ELSE /\ position' = position + 1
               /\ seen' = seen \cup {h.path}
               /\ regular' = IF h.type \in Regular THEN regular \cup {h.path} ELSE regular
               /\ files' = IF taken THEN Put(files, h.path, h.content) ELSE files
               /\ bytes' = IF taken THEN bytes + SizeOf(h.content) ELSE bytes
               /\ excluded' = IF h.type \in Regular /\ ~ taken THEN excluded + 1 ELSE excluded
               /\ UNCHANGED <<step, pending>>
    /\ UNCHANGED <<archive, tree>>

ReadEnd ==
    /\ step = "read" /\ Now.type = "end"
    /\ step' = "verify"
    /\ UNCHANGED <<archive, tree, position, pending, found>>

---------------------------------------------------------------------------
(* _read_selected_tree_blobs: what the commit has of the profile.          *)
Selected == {p \in DOMAIN tree : p \in Included}

(* Mutant: only the paths are compared. *)
PathsOnly == Selected = DOMAIN files

(* _verify_archive_provenance *)
Verified ==
    /\ Cardinality(Selected) <= MaxMembers
    /\ \A p \in Selected : tree[p].type = "blob"
    /\ Selected = DOMAIN files
    /\ \A p \in Selected : files[p] = tree[p].content

Verify ==
    /\ step = "verify"
    /\ step' = IF Verified THEN "accepted" ELSE "rejected"
    /\ UNCHANGED <<archive, tree, position, pending, found>>

TarNext == Scan \/ Skip \/ ReadMember \/ ReadEnd \/ Verify

TarSpec == TarInit /\ [][TarNext]_tarVars

---------------------------------------------------------------------------
Members == {i \in DOMAIN archive : archive[i].type \notin Metadata \cup {"end"}}

(* What says something of the next member is followed by it: no tar reader *)
(* can take one header for another after the scan.                         *)
MetadataIsBound ==
    step \in {"read", "verify", "accepted"} =>
        \A i \in DOMAIN archive : archive[i].type \in Local => i + 1 \in Members

(* The files and directories taken so far are a tree with one entry for    *)
(* each path, in whatever order the archive has them: writing them out     *)
(* never writes into a file or over one.                                   *)
EntriesAreTree ==
    /\ \A f \in regular, p \in seen : ~ Under(p, f)
    /\ step \in {"verify", "accepted"} =>
         \A i \in Members, j \in Members : archive[i].path = archive[j].path => i = j

(* The files held are within the limits. *)
FilesAreBounded ==
    /\ bytes = TotalOf([p \in DOMAIN files |-> SizeOf(files[p])], DOMAIN files)
    /\ bytes <= MaxTotal /\ \A p \in DOMAIN files : SizeOf(files[p]) <= MaxFile

(* A snapshot has the very blobs of the commit, whatever attributes have   *)
(* made of them, or left out, in the archive.                              *)
SnapshotIsCommit ==
    step = "accepted" => files = [p \in Selected |-> tree[p].content]

(* What git archive writes of a commit that has only files and the         *)
(* directories above them, and no attribute that changes them. *)
Faithful ==
    LET filed == {i \in Members : archive[i].type \in Regular}
    IN /\ Len(archive) >= 1 /\ Last(archive).type = "end" /\ Last(archive).sound
       /\ Len(archive) <= MaxMembers + 1
       /\ \A i \in 1..Len(archive) - 1 :
            /\ archive[i].sound
            /\ archive[i].type \in Local \cup {"global", "directory"} \cup Regular
            /\ archive[i].type \in Local => i + 1 \in Members
       /\ \A i \in Members : IsSafe(archive[i].path)
       /\ \A i \in Members, j \in Members : archive[i].path = archive[j].path => i = j
       /\ {archive[i].path : i \in filed} = DOMAIN tree
       /\ \A i \in filed : /\ tree[archive[i].path].type = "blob"
                            /\ tree[archive[i].path].content = archive[i].content
       /\ \A i \in Members \ filed : \E p \in DOMAIN tree : Under(p, archive[i].path)
       /\ \A p \in Selected : SizeOf(tree[p].content) <= MaxFile
       /\ TotalOf([p \in Selected |-> SizeOf(tree[p].content)], Selected) <= MaxTotal
       /\ \A p \in DOMAIN tree, q \in DOMAIN tree : ~ Under(p, q)

(* Nothing is rejected without a cause. *)
FaithfulIsAccepted == step = "rejected" => ~ Faithful

(* An archive is accepted when its files have the very blobs of the commit *)
(* and are a tree within the limits, and what git writes of a commit of    *)
(* plain files, their directories included, is never rejected              *)
(* (git_archive.py: the reading of a tar).                                 *)
ArchiveIsCommit ==
    MetadataIsBound /\ EntriesAreTree /\ FilesAreBounded /\ SnapshotIsCommit /\ FaithfulIsAccepted
===========================================================================
