---------------------------- MODULE GitProcess -----------------------------
(***************************************************************************)
(* How git_archive.py runs a git command and reads what it writes: git     *)
(* archive and git ls-tree write a stream that has a limit, git cat-file   *)
(* answers one request at a time.  Either side of a pipe waits for the     *)
(* other; git may fail, be deaf to SIGTERM or find an object missing, and  *)
(* each system call of the cleanup may fail.                               *)
(*                                                                         *)
(* A chunk of a stream and of an object is one unit.  Commands, archives   *)
(* and objects are model values; git itself is external.                   *)
(***************************************************************************)
EXTENDS Naturals, Sequences, FiniteSets, SequencesExt

CONSTANTS
    Jobs,           \* the commands to run: [kind, asks, size]
    Capacity,       \* units a pipe holds
    StreamLimit,    \* max_archive_bytes, max_output_bytes
    FileLimit,      \* max_file_bytes
    TotalLimit,     \* max_total_bytes
    FaultyCalls,    \* the calls of the cleanup that may fail, by where they stand
    MaxFaults       \* bound on the failures of git and of system calls

ProcessAssumption ==
    /\ \A j \in Jobs : /\ j.kind \in {"archive", "tree", "batch"}
                       /\ j.asks \in Seq(Nat) /\ j.size \in Nat
                       /\ j.kind = "batch" => j.asks # <<>>
    /\ Capacity \in Nat \ {0} /\ MaxFaults \in Nat
    /\ StreamLimit \in Nat /\ FileLimit \in Nat /\ TotalLimit \in Nat

VARIABLES
    job,        \* what is run: for a batch, the size of each object asked for
    at,         \* where the reader stands
    asked,      \* the requests written so far
    left,       \* units of the object that are still to be read
    got,        \* units read: of the stream, or the objects so far
    total,      \* total_bytes
    succeeded,  \* operation_succeeded
    unclean,    \* cleanup_failed
    early,      \* _stop_process runs before the pipes are closed
    stdin,      \* [open, units] : the requests git has not read
    stdout,     \* [open, units] : what git has written and nobody has read
    git,        \* "none", "running", "done", "failed"
    deaf,       \* SIGTERM does not end it
    writing,    \* what git has still to write
    reaped,     \* its exit status has been collected
    abandoned,  \* the last wait for it has failed
    faults      \* failures so far

reader == <<asked, left, got, total>>
ending == <<succeeded, unclean, early, reaped, abandoned>>
process == <<git, deaf, writing>>
gitVars == <<job, at, reader, ending, stdin, stdout, process, faults>>

Batch == job.kind = "batch"
Unit(type, object, size) == [type |-> type, object |-> object, size |-> size]
Stream(n) == [i \in 1..n |-> Unit("chunk", 0, 1)]
Header(n) == Unit("header", n, job.asks[n])
Missing(n) == Unit("missing", n, 0)

(* What git writes for the n-th request. *)
Reply(n) == <<Header(n)>> \o Stream(job.asks[n]) \o <<Unit("newline", 0, 1)>>

Exited == git \in {"done", "failed"}
Write(pipe, unit) == [pipe EXCEPT !.units = Append(@, unit)]
Read(pipe) == [pipe EXCEPT !.units = Tail(@)]
Close(pipe) == [pipe EXCEPT !.open = FALSE]

Fault == faults < MaxFaults /\ faults' = faults + 1

---------------------------------------------------------------------------
GitInit ==
    /\ job \in Jobs
    /\ at = "start"
    /\ asked = 0 /\ left = 0 /\ got = <<>> /\ total = 0
    /\ succeeded = FALSE /\ unclean = FALSE /\ early = FALSE
    /\ reaped = FALSE /\ abandoned = FALSE
    /\ stdin = [open |-> FALSE, units |-> <<>>] /\ stdout = stdin
    /\ git = "none" /\ deaf \in BOOLEAN /\ writing = <<>>
    /\ faults = 0

---------------------------------------------------------------------------
(* git                                                                     *)

TakeRequest ==
    /\ git = "running" /\ writing = <<>> /\ stdin.units # <<>>
    /\ stdin' = Read(stdin)
    /\ \/ writing' = Reply(Head(stdin.units)) /\ UNCHANGED faults
       \/ writing' = <<Missing(Head(stdin.units))>> /\ Fault
    /\ UNCHANGED <<job, at, reader, ending, stdout, git, deaf>>

WriteOut ==
    /\ git = "running" /\ writing # <<>>
    /\ IF stdout.open
       THEN /\ Len(stdout.units) < Capacity
            /\ stdout' = Write(stdout, Head(writing))
            /\ writing' = Tail(writing)
            /\ UNCHANGED git
       ELSE git' = "failed" /\ UNCHANGED <<stdout, writing>>
    /\ UNCHANGED <<job, at, reader, ending, stdin, deaf, faults>>

Exit ==
    /\ git = "running" /\ writing = <<>>
    /\ Batch => ~ stdin.open /\ stdin.units = <<>>
    /\ git' = "done"
    /\ UNCHANGED <<job, at, reader, ending, stdin, stdout, deaf, writing, faults>>

Crash ==
    /\ git = "running"
    /\ git' = "failed"
    /\ Fault
    /\ UNCHANGED <<job, at, reader, ending, stdin, stdout, deaf, writing>>

Git == TakeRequest \/ WriteOut \/ Exit \/ Crash

---------------------------------------------------------------------------
(* The reader: first the body of the try, then the finally.                *)

Fail == at' = IF Batch THEN "close_stdin" ELSE "close_stdout"
EndOfFile == stdout.units = <<>> /\ Exited

Start ==
    /\ at = "start"
    /\ \/ /\ git' = "running"
          /\ writing' = IF Batch THEN <<>> ELSE Stream(job.size)
          /\ at' = IF Batch THEN "write" ELSE "stream"
          /\ stdin' = [stdin EXCEPT !.open = Batch]
          /\ stdout' = [stdout EXCEPT !.open = TRUE]
          /\ UNCHANGED faults
       \/ /\ Fault
          /\ at' = "end"
          /\ UNCHANGED <<stdin, stdout, git, writing>>
    /\ UNCHANGED <<job, reader, ending, deaf>>

(* _write_git_archive, _stream_git_nul_records: read up to the limit.      *)
ReadStream ==
    /\ at = "stream" /\ stdout.units # <<>>
    /\ stdout' = Read(stdout)
    /\ IF total + 1 > StreamLimit
       THEN /\ IF job.kind = "archive" THEN at' = "poll" /\ early' = TRUE
                                       ELSE Fail /\ UNCHANGED early
            /\ UNCHANGED <<got, total>>
       ELSE got' = Append(got, Head(stdout.units)) /\ total' = total + 1 /\ UNCHANGED <<at, early>>
    /\ UNCHANGED <<job, asked, left, succeeded, unclean, reaped, abandoned, stdin, process, faults>>

EndStream ==
    /\ at = "stream" /\ EndOfFile
    /\ at' = "wait"
    /\ UNCHANGED <<job, reader, ending, stdin, stdout, process, faults>>

(* _read_git_blobs_batch: a request, *)
WriteRequest ==
    /\ at = "write"
    /\ IF Exited
       THEN Fail /\ UNCHANGED <<asked, stdin>>
       ELSE /\ Len(stdin.units) < Capacity
            /\ asked' = asked + 1
            /\ stdin' = Write(stdin, asked + 1)
            /\ at' = "header"
    /\ UNCHANGED <<job, left, got, total, ending, stdout, process, faults>>

AcceptsHeader(header) ==
    /\ header = Header(asked)
    /\ header.size <= FileLimit
    /\ total + header.size <= TotalLimit

(* the header of its answer, *)
ReadHeader ==
    /\ at = "header"
    /\ IF EndOfFile
       THEN Fail /\ UNCHANGED <<left, total, stdout>>
       ELSE /\ stdout.units # <<>>
            /\ stdout' = Read(stdout)
            /\ IF AcceptsHeader(Head(stdout.units))
               THEN /\ at' = "content"
                    /\ left' = Head(stdout.units).size
                    /\ total' = total + Head(stdout.units).size
               ELSE Fail /\ UNCHANGED <<left, total>>
    /\ UNCHANGED <<job, asked, got, ending, stdin, process, faults>>

(* the content and the newline after it, *)
ReadContent ==
    /\ at = "content"
    /\ IF EndOfFile
       THEN Fail /\ UNCHANGED <<left, got, stdout>>
       ELSE /\ stdout.units # <<>>
            /\ stdout' = Read(stdout)
            /\ IF left > 0
               THEN left' = left - 1 /\ UNCHANGED <<at, got>>
               ELSE IF Head(stdout.units).type # "newline" THEN Fail /\ UNCHANGED <<left, got>>
               ELSE /\ got' = Append(got, asked)
                    /\ at' = IF asked = Len(job.asks) THEN "close_requests" ELSE "write"
                    /\ UNCHANGED left
    /\ UNCHANGED <<job, asked, total, ending, stdin, process, faults>>

(* and no more when there are no more requests. *)
CloseRequests ==
    /\ at = "close_requests"
    /\ stdin' = Close(stdin)
    /\ \/ at' = "rest" /\ UNCHANGED faults
       \/ Fail /\ Fault
    /\ UNCHANGED <<job, reader, ending, stdout, process>>

ReadRest ==
    /\ at = "rest"
    /\ IF EndOfFile THEN at' = "wait" ELSE stdout.units # <<>> /\ Fail
    /\ UNCHANGED <<job, reader, ending, stdin, stdout, process, faults>>

Wait ==
    /\ at = "wait" /\ Exited
    /\ reaped' = TRUE
    /\ succeeded' = (git = "done")
    /\ Fail
    /\ UNCHANGED <<job, reader, unclean, early, abandoned, stdin, stdout, process, faults>>

(* Any call of the body may raise, also the write of what was read.        *)
RaiseOSError ==
    /\ at \in {"stream", "write", "header", "content", "rest", "wait"}
    /\ Fail
    /\ Fault
    /\ UNCHANGED <<job, reader, ending, stdin, stdout, process>>

---------------------------------------------------------------------------
(* _cleanup_git_process and _stop_process.  A call that fails is noted and *)
(* the next one is made all the same.                                      *)

Noted(next) == at \in FaultyCalls /\ at' = next /\ unclean' = TRUE /\ Fault

ClosePipe ==
    /\ \/ at = "close_stdin" /\ stdin' = Close(stdin) /\ UNCHANGED stdout
       \/ at = "close_stdout" /\ stdout' = Close(stdout) /\ UNCHANGED stdin
    /\ LET next == IF at = "close_stdin" THEN "close_stdout" ELSE "poll"
       IN Noted(next) \/ (at' = next /\ UNCHANGED <<unclean, faults>>)
    /\ UNCHANGED <<job, reader, succeeded, early, reaped, abandoned, process>>

(* Where a stop that is finished goes on. *)
Stopped == IF early THEN "close_stdout" ELSE "end"

Poll ==
    /\ at = "poll"
    /\ \/ /\ Exited \/ reaped
          /\ reaped' = TRUE /\ at' = Stopped /\ early' = FALSE
          /\ UNCHANGED <<unclean, faults>>
       \/ /\ ~ (Exited \/ reaped)
          /\ at' = "terminate"
          /\ UNCHANGED <<unclean, faults, early, reaped>>
       \/ Noted("terminate") /\ UNCHANGED <<early, reaped>>
    /\ UNCHANGED <<job, reader, succeeded, abandoned, stdin, stdout, process>>

Signal(now, next, ends) ==
    /\ at = now
    /\ \/ /\ git' = IF git = "running" /\ ends THEN "failed" ELSE git
          /\ at' = next
          /\ UNCHANGED <<unclean, faults>>
       \/ Noted(next) /\ UNCHANGED git
    /\ UNCHANGED <<job, reader, succeeded, early, reaped, abandoned, stdin, stdout, deaf, writing>>

Terminate == Signal("terminate", "wait_a_second", ~ deaf)

Kill == Signal("kill", "wait_for_kill", TRUE)

WaitASecond ==
    /\ at = "wait_a_second"
    /\ \/ /\ Exited
          /\ reaped' = TRUE /\ at' = Stopped /\ early' = FALSE
          /\ UNCHANGED <<unclean, faults>>
       \/ ~ Exited /\ at' = "kill" /\ UNCHANGED <<unclean, faults, early, reaped>>
       \/ Noted("kill") /\ UNCHANGED <<early, reaped>>
    /\ UNCHANGED <<job, reader, succeeded, abandoned, stdin, stdout, process>>

WaitForKill ==
    /\ at = "wait_for_kill"
    /\ \/ /\ Exited
          /\ reaped' = TRUE /\ at' = Stopped
          /\ UNCHANGED <<unclean, faults, abandoned>>
       \/ Noted(Stopped) /\ abandoned' = ~ early /\ UNCHANGED reaped
    /\ early' = FALSE
    /\ UNCHANGED <<job, reader, succeeded, stdin, stdout, process>>

Reader ==
    \/ Start \/ ReadStream \/ EndStream
    \/ WriteRequest \/ ReadHeader \/ ReadContent \/ CloseRequests \/ ReadRest \/ Wait
    \/ RaiseOSError
    \/ ClosePipe \/ Poll \/ Terminate \/ WaitASecond \/ Kill \/ WaitForKill

GitNext == Git \/ Reader

(* git goes on unless it waits for a pipe, and so does the reader; nothing *)
(* has to fail.                                                            *)
GitFairness ==
    /\ WF_gitVars(Git /\ faults' = faults)
    /\ WF_gitVars(Reader /\ faults' = faults)

GitSpec == GitInit /\ [][GitNext]_gitVars /\ GitFairness

---------------------------------------------------------------------------
Accepted == at = "end" /\ succeeded /\ ~ unclean

(* Everything has its type, and a reader that waits has a process. *)
GitTypeOK ==
    /\ asked \in 0..Len(job.asks) /\ total \in Nat /\ left \in Nat
    /\ {succeeded, unclean, early, reaped, abandoned, stdin.open, stdout.open} \subseteq BOOLEAN
    /\ Len(stdin.units) <= Capacity /\ Len(stdout.units) <= Capacity
    /\ git \in {"none", "running", "done", "failed"}
    /\ git = "none" => at \in {"start", "end"}
    /\ reaped => Exited

(* An output that is accepted is the whole output of a command that ended  *)
(* well: a crash is told from the end, an object from its absence.         *)
AcceptedIsWhole ==
    Accepted =>
        /\ git = "done"
        /\ IF Batch THEN got = [n \in 1..Len(job.asks) |-> n] ELSE got = Stream(job.size)

(* What is read stays within the limits before it is read. *)
ReadIsBounded ==
    IF Batch
    THEN total <= TotalLimit /\ \A n \in ToSet(got) : job.asks[n] <= FileLimit
    ELSE total <= StreamLimit

(* No git process outlives the command that started it, deaf or not and    *)
(* whichever call failed, unless the last wait itself failed; and then the *)
(* output is not accepted.                                                 *)
NoProcessIsLeft ==
    at = "end" /\ git # "none" =>
        /\ ~ stdin.open /\ ~ stdout.open
        /\ reaped \/ abandoned
        /\ abandoned => ~ Accepted

(* An output of git that is accepted is the whole output of a command that *)
(* ended well, nothing is read past its limits, and no git process         *)
(* outlives the command that started it (git_archive.py:                   *)
(* _cleanup_git_process and the loops it ends).                            *)
GitOutputIsWhole == GitTypeOK /\ AcceptedIsWhole /\ ReadIsBounded /\ NoProcessIsLeft

(* The two never wait for each other: every command comes to an end,       *)
(* however little a pipe holds.  (If SIGKILL cannot be sent to a git that  *)
(* is deaf, the last wait has no limit.)                                   *)
CommandEnds == <>(at = "end")
===========================================================================
