--------------------------- MODULE SourceReading ---------------------------
(***************************************************************************)
(* How a source is read: a git command writes its archive or its blobs,    *)
(* the archive becomes a snapshot, and patterns select paths.  The parts   *)
(* follow each other and share no state.                                   *)
(***************************************************************************)
EXTENDS GitProcess, TarSnapshot, ProfilePatterns

ASSUME SourceAssumption == ProcessAssumption /\ ArchiveAssumption /\ PatternAssumption

(* What is indexed is what the commit has, whole, or nothing is            *)
(* (git_archive.py: the output of git, and the archive made of it).        *)
SourceIsCommit == GitOutputIsWhole /\ ArchiveIsCommit
===========================================================================
