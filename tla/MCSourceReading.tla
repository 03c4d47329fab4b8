-------------------------- MODULE MCSourceReading --------------------------
(***************************************************************************)
(* The parts of source reading side by side, for model checking: a git     *)
(* command and its reader, a tar archive, a pattern of a profile.  A       *)
(* behaviour is one of one part; the others stay in one initial state.     *)
(***************************************************************************)
EXTENDS SourceReading

VARIABLE part

---------------------------------------------------------------------------
(* git commands: streams and batches of every small size.  Either a pipe   *)
(* of two units and a cleanup any call of which may fail, or (part         *)
(* "narrow") the smallest pipe and a SIGKILL that can be sent.             *)

AnyJob ==
    {[kind |-> k, asks |-> <<>>, size |-> n] : k \in {"archive", "tree"}, n \in 0..6}
    \cup {[kind |-> "batch", asks |-> s, size |-> 0] :
            s \in {<<0>>, <<3>>, <<1, 2>>, <<2, 0, 1>>, <<0, 2, 2>>, <<1, 1, 1, 1>>, <<2, 2, 1>>}}

AnyCall ==
    {"close_stdin", "close_stdout", "poll", "terminate", "wait_a_second", "kill", "wait_for_kill"}

Narrow == INSTANCE GitProcess
            WITH Capacity <- 1, FaultyCalls <- AnyCall \ {"kill"}, MaxFaults <- 2

---------------------------------------------------------------------------
(* Archives of up to three headers, whole or cut short, of four, and with  *)
(* data after the terminator or a terminator that is damaged.              *)

TarHeader(type, name, content) ==
    [type |-> type, path |-> name, content |-> content, sound |-> TRUE]
End == TarHeader("end", <<>>, "none")

A == <<"a">>
AB == <<"a", "b">>
C == <<"c">>
D == <<"d">>

Headers ==
    {TarHeader("file", p, c) : p \in {A, AB}, c \in {"small", "large"}}
    \cup {TarHeader("file", C, "small"), TarHeader("file", D, "small"), TarHeader("file", C, "huge"),
          TarHeader("directory", A, "none"), TarHeader("link", AB, "none"),
          TarHeader("file", <<"..", "a">>, "small"),
          TarHeader("pax", <<>>, "none"), TarHeader("global", <<>>, "none"),
          [TarHeader("file", C, "small") EXCEPT !.sound = FALSE]}

(* Of which four may follow each other: more than the limit of members.    *)
Few ==
    {TarHeader("file", AB, "large"), TarHeader("file", C, "small"), TarHeader("directory", A, "none"),
     TarHeader("pax", <<>>, "none"), TarHeader("global", <<>>, "none")}

AnyArchive ==
    UNION {{Append(s, End), s} : s \in BoundedSeq(Headers, 3)}
    \cup {Append(s, End) : s \in [1..4 -> Few]}
    \cup {Append(s, [End EXCEPT !.sound = FALSE]) : s \in BoundedSeq(Headers, 1)}
    \cup {s \o <<End, TarHeader("file", A, "small")>> : s \in BoundedSeq(Headers, 1)}

Blob(c) == [type |-> "blob", content |-> c]
AnyTree ==
    {[p \in {A} |-> Blob("small")],
     [p \in {AB, C} |-> Blob(IF p = C THEN "small" ELSE "large")],
     [p \in {AB} |-> Blob("small")],
     [p \in {C, D} |-> Blob("small")],
     [p \in {C} |-> Blob("huge")],
     [p \in {AB, C} |-> IF p = C THEN Blob("small") ELSE [type |-> "commit", content |-> "none"]]}

Bytes(c) == CASE c = "small" -> 1 [] c = "large" -> 3 [] c = "huge" -> 4 [] OTHER -> 0

AnyIncluded == {A, AB, C}

---------------------------------------------------------------------------
(* Patterns and paths of up to four segments.                              *)

Matches(segment, glob) == glob = "*" \/ glob = segment

---------------------------------------------------------------------------
ASSUME NarrowAssumption == Narrow!ProcessAssumption

GitIdle == job = [kind |-> "tree", asks |-> <<>>, size |-> 0] /\ deaf = FALSE
TarIdle == archive = <<>> /\ tree = [p \in {A} |-> Blob("small")]
PatternIdle == pattern = <<"**">> /\ given = <<>>

ReadingIdle == GitIdle /\ TarIdle /\ PatternIdle

ReadingPart ==
    \/ part \in {"git", "narrow"} /\ TarIdle /\ PatternIdle
    \/ part = "tar" /\ GitIdle /\ PatternIdle
    \/ part = "patterns" /\ GitIdle /\ TarIdle

ReadingNext ==
    \/ part = "git" /\ GitNext /\ UNCHANGED <<part, tarVars, patternVars>>
    \/ part = "narrow" /\ Narrow!GitNext /\ UNCHANGED <<part, tarVars, patternVars>>
    \/ part = "tar" /\ TarNext /\ UNCHANGED <<part, gitVars, patternVars>>
    \/ part = "patterns" /\ PatternNext /\ UNCHANGED <<part, gitVars, tarVars>>

(* What GitProcess assumes of the two sides of a pipe. *)
Proceeds(side) ==
    part = "narrow" /\ side /\ faults' = faults /\ UNCHANGED <<part, tarVars, patternVars>>

(* git and its reader never wait for each other. *)
NarrowCommandEnds == <>(part = "narrow" => at = "end")
===========================================================================
