------------------------ MODULE SourceAndAnswers_proofs ----------------------
(***************************************************************************)
(* What a search rests on and what it answers: the output of git is whole, *)
(* an accepted archive is the commit, a pattern matches what it means; the *)
(* best sections are shown, the floors of a calibration separate its cases,*)
(* and the web client shows the answer of its last search.  All of it for  *)
(* any pipe, archive, pattern, lane, score, screen and request.  The parts *)
(* share no state, so each has its own invariant.                          *)
(*                                                                         *)
(* What is computed step by step, or by a fold or a recursive function, is *)
(* shown by the least counterexample: of numbers (Least), of sets          *)
(* (LeastSet).  A list is sorted when each element has as many before it   *)
(* as its index says (Lists), the shares of the ranks fall as the          *)
(* denominator is a common multiple, and a screen waits for one request at *)
(* most (OneAtATime).                                                      *)
(***************************************************************************)
EXTENDS SourceReading, Answers,
        FiniteSetTheorems, SequenceTheorems, WellFoundedInduction, TLAPS

(* A set of numbers that is not empty has a least one: what holds of 0 and *)
(* passes from each number to the next holds of all.                       *)
LEMMA Least ==
    ASSUME NEW A, A \subseteq Nat, A # {}
    PROVE  \E m \in A : \A k \in A : m <= k
<1> DEFINE Below == {0..m : m \in A}
<1>1. \A m \in A : 0..m \in FiniteSubsetsOf(Nat)
  BY FS_Interval DEF FiniteSubsetsOf
<1>2. Below \subseteq FiniteSubsetsOf(Nat) /\ Below # {}
  BY <1>1
<1>3. PICK T \in Below : \A U \in Below : ~(<<U, T>> \in StrictSubsetOrdering(Nat))
  <2> HIDE DEF Below
  <2> QED BY <1>2, WFMin, FS_StrictSubsetOrderingWellFounded
<1>4. PICK m \in A : T = 0..m
  OBVIOUS
<1>5. ASSUME NEW k \in A, k < m PROVE FALSE
  <2>1. 0..k \in Below /\ 0..k \subseteq 0..m /\ 0..k # 0..m
    BY <1>4, <1>5
  <2>2. <<0..k, T>> \in StrictSubsetOrdering(Nat)
    BY <1>4, <2>1, <1>5 DEF StrictSubsetOrdering
  <2> QED BY <1>3, <2>1, <2>2
<1> QED BY <1>5

(* A least set among some finite sets: induction over finite sets.        *)
LEMMA LeastSet ==
    ASSUME NEW S, IsFiniteSet(S), NEW A, A \subseteq SUBSET S, A # {}
    PROVE  \E T \in A : \A U \in A : ~ (U \subseteq T /\ U # T)
<1>1. SUBSET S = FiniteSubsetsOf(S)
  BY FS_FiniteSubsetsOfFinite
<1>2. PICK T \in A : \A U \in A : ~ (<<U, T>> \in StrictSubsetOrdering(S))
  BY <1>1, WFMin, FS_StrictSubsetOrderingWellFounded
<1> QED BY <1>2 DEF StrictSubsetOrdering

---------------------------------------------------------------------------
(***************************************************************************)
(* A git command and its reader.  What has been read, what is in the pipe and*)
(* what is still to be written are always the whole of the output, or the  *)
(* reader is cleaning up and will fail.                                    *)
(***************************************************************************)

Pipe(S) == [open : BOOLEAN, units : Seq(S)]

Units == [type : {"chunk", "header", "newline", "missing"}, object : Nat, size : Nat]

Chunk == Unit("chunk", 0, 1)

AllChunks(units) == \A i \in DOMAIN units : units[i] = Chunk

Stops == {"poll", "terminate", "wait_a_second", "kill", "wait_for_kill"}

Cleanup == Stops \cup {"close_stdin", "close_stdout", "end"}

GitShape ==
    /\ job \in Jobs
    /\ stdin \in Pipe(1..Len(job.asks)) /\ Len(stdin.units) <= Capacity
    /\ stdout \in Pipe(Units) /\ Len(stdout.units) <= Capacity
    /\ writing \in Seq(Units)
    /\ asked \in 0..Len(job.asks) /\ total \in Nat /\ left \in Nat
    /\ succeeded \in BOOLEAN /\ unclean \in BOOLEAN /\ early \in BOOLEAN
    /\ reaped \in BOOLEAN /\ abandoned \in BOOLEAN
    /\ git \in {"none", "running", "done", "failed"}
    /\ git = "none" => at \in {"start", "end"}
    /\ at = "start" => git = "none" /\ got = <<>> /\ total = 0 /\ asked = 0 /\ ~ stdin.open
                       /\ stdout.units = <<>> /\ stdin.units = <<>>
    /\ reaped => Exited

(* Of a stream, what is read, in the pipe and still to be written is       *)
(* always the whole.                                                       *)
StreamReading ==
    ~ Batch =>
        /\ total <= StreamLimit /\ ~ stdin.open /\ stdin.units = <<>>
        /\ at \in Cleanup \cup {"start", "stream", "wait"}
        /\ at \in {"stream", "wait"} =>
             /\ stdout.open /\ got = Stream(total) /\ AllChunks(stdout.units) /\ AllChunks(writing)
             /\ total + Len(stdout.units) + Len(writing) = job.size
             /\ git = "done" => writing = <<>>
        /\ at = "wait" => stdout.units = <<>> /\ Exited

(* Of a batch, the objects read are the first ones asked for. *)
BatchReading ==
    Batch =>
        /\ total <= TotalLimit
        /\ got \in Seq(Nat) /\ got = [n \in 1..Len(got) |-> n] /\ Len(got) <= Len(job.asks)
        /\ \A n \in 1..Len(got) : job.asks[n] <= FileLimit
        /\ at # "stream"
        /\ at = "write" => asked = Len(got) /\ asked < Len(job.asks)
        /\ at \in {"header", "content"} => asked = Len(got) + 1
        /\ at = "content" => job.asks[asked] <= FileLimit
        /\ at \in {"close_requests", "rest", "wait"} => Len(got) = Len(job.asks)

Whole == IF Batch THEN got = [n \in 1..Len(job.asks) |-> n] ELSE got = Stream(job.size)

(* What the cleanup has done by where it stands; an early stop is made     *)
(* before the pipes are closed, and another one follows.                   *)
CleaningUp ==
    /\ succeeded => at \in Cleanup /\ git = "done" /\ Whole
    /\ early => at \in Stops /\ ~ Batch
    /\ at = "close_stdout" => ~ stdin.open
    /\ at \in Stops \cup {"end"} /\ git # "none" /\ ~ early => ~ stdin.open /\ ~ stdout.open
    /\ at = "end" /\ git # "none" => reaped \/ abandoned
    /\ abandoned => unclean

GitInv == GitShape /\ StreamReading /\ BatchReading /\ CleaningUp

LEMMA WrittenPipe ==
    ASSUME NEW S, NEW p \in Pipe(S), NEW u \in S
    PROVE  /\ Write(p, u) \in Pipe(S) /\ (Write(p, u).open <=> p.open)
           /\ Write(p, u).units = Append(p.units, u) /\ Len(Write(p, u).units) = Len(p.units) + 1
BY DEF Pipe, Write

LEMMA ReadPipe ==
    ASSUME NEW S, NEW p \in Pipe(S), p.units # <<>>
    PROVE  /\ Read(p) \in Pipe(S) /\ (Read(p).open <=> p.open)
           /\ Read(p).units = Tail(p.units) /\ Len(Read(p).units) = Len(p.units) - 1
           /\ Head(p.units) \in S
BY DEF Pipe, Read

LEMMA ClosedPipe ==
    ASSUME NEW S, NEW p \in Pipe(S)
    PROVE  Close(p) \in Pipe(S) /\ ~ Close(p).open /\ Close(p).units = p.units
BY DEF Pipe, Close

LEMMA OpenedPipe ==
    ASSUME NEW S, NEW p \in Pipe(S), NEW open \in BOOLEAN
    PROVE  /\ [p EXCEPT !.open = open] \in Pipe(S) /\ ([p EXCEPT !.open = open].open <=> open)
           /\ [p EXCEPT !.open = open].units = p.units
BY DEF Pipe

LEMMA StreamGrows ==
    ASSUME NEW n \in Nat
    PROVE  /\ Stream(n) \in Seq(Units) /\ Len(Stream(n)) = n /\ AllChunks(Stream(n))
           /\ Append(Stream(n), Chunk) = Stream(n + 1)
<1>1. Chunk \in Units
  BY DEF Units, Unit, Chunk
<1>2. Stream(n) \in Seq(Units) /\ Len(Stream(n)) = n /\ AllChunks(Stream(n))
  BY <1>1 DEF Stream, AllChunks, Chunk
<1> QED BY <1>1, <1>2 DEF Stream, Chunk

LEMMA OneMore ==
    ASSUME NEW s \in Seq(Nat), s = [n \in 1..Len(s) |-> n], NEW m, m = Len(s) + 1
    PROVE  /\ Append(s, m) \in Seq(Nat) /\ Len(Append(s, m)) = m
           /\ Append(s, m) = [n \in 1..m |-> n]
OBVIOUS

LEMMA JobShape ==
    ASSUME GitShape
    PROVE  /\ job.kind \in {"archive", "tree", "batch"} /\ job.asks \in Seq(Nat) /\ job.size \in Nat
           /\ Batch => job.asks # <<>>
           /\ StreamLimit \in Nat /\ FileLimit \in Nat /\ TotalLimit \in Nat /\ Capacity \in Nat \ {0}
BY SourceAssumption DEF GitShape, ProcessAssumption, Batch

LEMMA ReplyShape ==
    ASSUME GitShape, NEW n \in 1..Len(job.asks)
    PROVE  Reply(n) \in Seq(Units) /\ Missing(n) \in Units
<1>1. Header(n) \in Units /\ Unit("newline", 0, 1) \in Units /\ Missing(n) \in Units
  BY JobShape DEF Header, Unit, Units, Missing
<1>2. Stream(job.asks[n]) \in Seq(Units)
  <2>1. job.asks[n] \in Nat
    BY JobShape
  <2> QED BY <2>1, StreamGrows
<1> QED BY <1>1, <1>2 DEF Reply

LEMMA GitKeeps == ASSUME GitInv, Git PROVE GitInv'
<1> USE JobShape DEF GitInv
<1>1. CASE TakeRequest
  <2>1. /\ stdin' \in Pipe(1..Len(job.asks)) /\ (stdin'.open <=> stdin.open)
        /\ Len(stdin'.units) <= Capacity
        /\ Head(stdin.units) \in 1..Len(job.asks)
    <3>1. stdin \in Pipe(1..Len(job.asks)) /\ stdin' = Read(stdin) /\ stdin.units # <<>>
          /\ Len(stdin.units) \in Nat /\ Len(stdin.units) <= Capacity
      BY <1>1 DEF TakeRequest, GitShape, Pipe
    <3>2. /\ Read(stdin) \in Pipe(1..Len(job.asks)) /\ (Read(stdin).open <=> stdin.open)
          /\ Len(Read(stdin).units) = Len(stdin.units) - 1
          /\ Head(stdin.units) \in 1..Len(job.asks)
      BY <3>1, ReadPipe
    <3>3. Capacity \in Nat
      OBVIOUS
    <3> QED BY <3>1, <3>2, <3>3
  <2>2. writing' \in Seq(Units)
    <3>1. /\ Reply(Head(stdin.units)) \in Seq(Units)
          /\ Missing(Head(stdin.units)) \in Units
      BY <2>1, ReplyShape
    <3>2. <<Missing(Head(stdin.units))>> \in Seq(Units)
      BY <3>1
    <3> QED BY <1>1, <3>1, <3>2 DEF TakeRequest
  <2>3. Batch
    <3> SUFFICES ASSUME ~ Batch PROVE FALSE
      OBVIOUS
    <3> QED BY <1>1 DEF TakeRequest, StreamReading
  <2>4. GitShape'
    BY <1>1, <2>1, <2>2 DEF TakeRequest, GitShape, reader, ending, Exited
  <2>5. StreamReading'
    BY <1>1, <2>3 DEF TakeRequest, StreamReading, Batch
  <2>6. BatchReading'
    BY <1>1 DEF TakeRequest, BatchReading, Batch, reader
  <2>7. CleaningUp'
    BY <1>1, <2>1 DEF TakeRequest, CleaningUp, Batch, ending, reader, Whole
  <2> QED BY <2>4, <2>5, <2>6, <2>7
<1>2. CASE WriteOut
  <2>1. /\ writing # <<>> /\ writing \in Seq(Units) /\ git = "running" /\ stdout \in Pipe(Units)
        /\ UNCHANGED <<job, at, reader, ending, stdin, deaf, faults>>
    BY <1>2 DEF WriteOut, GitShape
  <2>2. CASE git' = "failed" /\ UNCHANGED <<stdout, writing>>
    <3>1. GitShape'
      BY <2>1, <2>2 DEF GitShape, reader, ending, Exited
    <3>2. StreamReading'
      BY <2>1, <2>2 DEF StreamReading, Batch, reader, AllChunks, Exited
    <3>3. BatchReading'
      BY <2>1, <2>2 DEF BatchReading, Batch, reader
    <3>4. CleaningUp'
      BY <2>1, <2>2 DEF CleaningUp, Batch, ending, reader, Whole
    <3> QED BY <3>1, <3>2, <3>3, <3>4
  <2>3. CASE /\ stdout.open
             /\ Len(stdout.units) < Capacity
             /\ stdout' = Write(stdout, Head(writing))
             /\ writing' = Tail(writing)
             /\ UNCHANGED git
    <3>1. /\ Head(writing) \in Units /\ writing' \in Seq(Units) /\ Len(writing') = Len(writing) - 1
          /\ \A i \in DOMAIN writing' : writing'[i] = writing[i + 1] /\ i + 1 \in DOMAIN writing
          /\ Head(writing) = writing[1] /\ 1 \in DOMAIN writing
      BY <2>1, <2>3
    <3>2. /\ stdout' \in Pipe(Units) /\ stdout'.open
          /\ stdout'.units = Append(stdout.units, Head(writing))
          /\ Len(stdout'.units) = Len(stdout.units) + 1
      <4>1. /\ Write(stdout, Head(writing)) \in Pipe(Units)
            /\ (Write(stdout, Head(writing)).open <=> stdout.open)
            /\ Write(stdout, Head(writing)).units = Append(stdout.units, Head(writing))
            /\ Len(Write(stdout, Head(writing)).units) = Len(stdout.units) + 1
        BY <2>1, <3>1, WrittenPipe
      <4> QED BY <2>3, <4>1
    <3>3. Len(stdout'.units) <= Capacity /\ stdout.units \in Seq(Units)
      BY <2>1, <2>3, <3>2 DEF Pipe
    <3>4. GitShape'
      BY <2>1, <2>3, <3>1, <3>2, <3>3 DEF GitShape, reader, ending, Exited
    <3>5. StreamReading'
      <4>1. AllChunks(writing) => AllChunks(writing')
        BY <3>1 DEF AllChunks
      <4>2. AllChunks(writing) /\ AllChunks(stdout.units) => AllChunks(stdout'.units)
        <5> SUFFICES ASSUME AllChunks(writing), AllChunks(stdout.units),
                            NEW i \in DOMAIN stdout'.units
                     PROVE  stdout'.units[i] = Chunk
          BY DEF AllChunks
        <5>1. Head(writing) = Chunk
          BY <3>1 DEF AllChunks
        <5>2. i \in DOMAIN stdout.units => stdout.units[i] = Chunk
          BY DEF AllChunks
        <5> HIDE JobShape
        <5> QED BY <3>1, <3>2, <3>3, <5>1, <5>2
      <4>3. Len(writing) \in Nat /\ Len(stdout.units) \in Nat /\ total \in Nat
        BY <2>1, <3>3 DEF GitShape
      <4>4. /\ total' = total /\ job' = job /\ at' = at /\ got' = got /\ git' = git /\ git = "running"
            /\ stdin' = stdin /\ total' + Len(stdout'.units) + Len(writing') =
                 total + Len(stdout.units) + Len(writing)
        <5>1. /\ total' = total /\ job' = job /\ at' = at /\ got' = got /\ git' = git
              /\ git = "running" /\ stdin' = stdin
          BY <2>1, <2>3 DEF reader
        <5>2. total' + Len(stdout'.units) + Len(writing') = total + Len(stdout.units) + Len(writing)
          BY <3>1, <3>2, <4>3, <5>1
        <5> QED BY <5>1, <5>2
      <4>5. at = "wait" => Batch
        BY <2>1, <2>3 DEF StreamReading, Exited
      <4> HIDE JobShape
      <4> QED BY <3>2, <4>1, <4>2, <4>4, <4>5 DEF StreamReading, Batch
    <3>6. BatchReading'
      BY <2>1, <2>3 DEF BatchReading, Batch, reader
    <3>7. CleaningUp'
      BY <2>1, <2>3, <3>2 DEF CleaningUp, Batch, ending, reader, Whole
    <3> QED BY <3>4, <3>5, <3>6, <3>7
  <2> QED BY <1>2, <2>2, <2>3 DEF WriteOut
<1>3. CASE Exit \/ Crash
  <2>1. /\ git = "running" /\ git' \in {"done", "failed"}
        /\ git' = "done" => writing = <<>>
        /\ UNCHANGED <<job, at, reader, ending, stdin, stdout, deaf, writing>>
    BY <1>3 DEF Exit, Crash
  <2>2. GitShape'
    BY <2>1 DEF GitShape, reader, ending, Exited
  <2>3. StreamReading'
    BY <2>1 DEF StreamReading, Batch, reader, Exited
  <2>4. BatchReading'
    BY <2>1 DEF BatchReading, Batch, reader
  <2>5. CleaningUp'
    BY <2>1 DEF CleaningUp, Batch, ending, reader, Whole
  <2> QED BY <2>2, <2>3, <2>4, <2>5
<1> QED BY <1>1, <1>2, <1>3 DEF Git

(* A reader that gives up goes on with the cleanup, whatever it has read. *)
LEMMA FailKeeps ==
    ASSUME GitInv, Fail, at \notin Cleanup, at # "start", git # "none",
           UNCHANGED <<job, asked, left, got, total, succeeded, unclean, early, reaped, abandoned,
                       git, deaf, writing>>,
           stdin' = stdin, stdout' \in Pipe(Units), Len(stdout'.units) <= Capacity
    PROVE  GitInv'
<1> USE DEF GitInv
<1>1. GitShape'
  BY DEF Fail, GitShape, Exited
<1>2. StreamReading'
  BY DEF Fail, StreamReading, Batch, Cleanup, Stops
<1>3. BatchReading'
  BY DEF Fail, BatchReading, Batch
<1>4. CleaningUp'
  BY DEF Fail, CleaningUp, StreamReading, Batch, Cleanup, Stops, Whole
<1> QED BY <1>1, <1>2, <1>3, <1>4

LEMMA RaisingKeeps == ASSUME GitInv, RaiseOSError PROVE GitInv'
<1>1. /\ Fail /\ at \notin Cleanup /\ at \notin {"start", "end"}
      /\ UNCHANGED <<job, asked, left, got, total, succeeded, unclean, early, reaped, abandoned,
                     git, deaf, writing>>
      /\ stdin' = stdin /\ stdout' = stdout
  BY DEF RaiseOSError, Cleanup, Stops, reader, ending, process
<1>2. git # "none" /\ stdout \in Pipe(Units) /\ Len(stdout.units) <= Capacity
  BY <1>1 DEF GitInv, GitShape
<1> QED BY <1>1, <1>2, FailKeeps

LEMMA StreamKeeps == ASSUME GitInv, Start \/ ReadStream \/ EndStream \/ Wait PROVE GitInv'
<1> USE JobShape DEF GitInv
<1>1. CASE Start
  <2>1. GitShape'
    <3>1. /\ [stdin EXCEPT !.open = Batch] \in Pipe(1..Len(job.asks))
          /\ [stdin EXCEPT !.open = Batch].units = stdin.units
          /\ [stdout EXCEPT !.open = TRUE] \in Pipe(Units)
          /\ [stdout EXCEPT !.open = TRUE].units = stdout.units
      BY OpenedPipe DEF GitShape, Batch
    <3>2. Stream(job.size) \in Seq(Units) /\ <<>> \in Seq(Units)
      <4>1. job.size \in Nat
        OBVIOUS
      <4>2. Stream(job.size) \in Seq(Units)
        BY <4>1, StreamGrows
      <4> HIDE JobShape
      <4> QED BY <4>2
    <3> QED BY <1>1, <3>1, <3>2 DEF Start, GitShape, reader, ending, Exited
  <2>2. StreamReading'
    <3>1. /\ [stdin EXCEPT !.open = Batch].units = <<>> /\ ([stdin EXCEPT !.open = Batch].open <=> Batch)
          /\ [stdout EXCEPT !.open = TRUE].units = <<>> /\ [stdout EXCEPT !.open = TRUE].open
      BY <1>1, OpenedPipe DEF Start, GitShape, Batch
    <3>2. Stream(0) = <<>>
      BY DEF Stream
    <3>3. job.size \in Nat /\ StreamLimit \in Nat
      OBVIOUS
    <3>4. Len(Stream(job.size)) = job.size /\ AllChunks(Stream(job.size)) /\ AllChunks(<<>>)
      <4> HIDE JobShape
      <4>1. AllChunks(<<>>)
        BY DEF AllChunks
      <4> QED BY <3>3, <4>1, StreamGrows
    <3>5. job' = job /\ total' = 0 /\ got' = <<>> /\ ~ stdin.open /\ stdin.units = <<>>
      BY <1>1 DEF Start, GitShape, reader
    <3>6. ~ Batch =>
             \/ /\ git' = "running" /\ writing' = Stream(job.size) /\ at' = "stream"
                /\ stdin' = [stdin EXCEPT !.open = Batch] /\ stdout' = [stdout EXCEPT !.open = TRUE]
             \/ at' = "end" /\ stdin' = stdin
      BY <1>1 DEF Start
    <3>7. Batch' = Batch
      BY <3>5 DEF Batch
    <3> SUFFICES ASSUME ~ Batch PROVE StreamReading'
      BY <3>7 DEF StreamReading
    <3>8. CASE /\ git' = "running" /\ writing' = Stream(job.size) /\ at' = "stream"
               /\ stdin' = [stdin EXCEPT !.open = Batch] /\ stdout' = [stdout EXCEPT !.open = TRUE]
      <4>1. ~ stdin'.open /\ stdin'.units = <<>> /\ stdout'.open /\ stdout'.units = <<>>
        BY <3>1, <3>8
      <4>2. 0 + Len(<<>>) + Len(Stream(job.size)) = job.size /\ 0 <= StreamLimit
        BY <3>3, <3>4
      <4> HIDE JobShape
      <4> QED BY <3>2, <3>4, <3>5, <3>7, <3>8, <4>1, <4>2 DEF StreamReading
    <3>9. CASE at' = "end" /\ stdin' = stdin
      BY <3>3, <3>5, <3>9 DEF StreamReading, Cleanup
    <3> QED BY <3>6, <3>8, <3>9
  <2>3. BatchReading'
    <3>1. Batch => job.asks # <<>> /\ job.asks \in Seq(Nat)
      OBVIOUS
    <3> QED BY <1>1, <3>1 DEF Start, BatchReading, Batch, GitShape, reader
  <2>4. CleaningUp'
    BY <1>1 DEF Start, CleaningUp, GitShape, Cleanup, Stops, ending, Exited, Batch
  <2> QED BY <2>1, <2>2, <2>3, <2>4
<1>2. CASE ReadStream
  <2>1. /\ at = "stream" /\ stdout.units # <<>> /\ stdout' = Read(stdout) /\ ~ Batch
        /\ UNCHANGED <<job, asked, left, succeeded, unclean, reaped, abandoned, stdin, git, deaf, writing>>
    BY <1>2 DEF ReadStream, BatchReading, process
  <2>2. /\ stdout' \in Pipe(Units) /\ (stdout'.open <=> stdout.open)
        /\ stdout'.units = Tail(stdout.units) /\ Len(stdout'.units) = Len(stdout.units) - 1
        /\ Len(stdout'.units) <= Capacity /\ stdout.units \in Seq(Units)
    <3>1. stdout \in Pipe(Units) /\ stdout.units \in Seq(Units) /\ Len(stdout.units) <= Capacity
      BY DEF GitShape, Pipe
    <3>2. /\ Read(stdout) \in Pipe(Units) /\ (Read(stdout).open <=> stdout.open)
          /\ Read(stdout).units = Tail(stdout.units) /\ Len(Read(stdout).units) = Len(stdout.units) - 1
      BY <2>1, <3>1, ReadPipe
    <3>3. Capacity \in Nat
      OBVIOUS
    <3> HIDE JobShape
    <3> QED BY <2>1, <3>1, <3>2, <3>3
  <2>3. CASE total + 1 > StreamLimit /\ job.kind # "archive"
    <3>1. Fail /\ UNCHANGED <<got, total, early>>
      BY <1>2, <2>3 DEF ReadStream
    <3>2. git # "none" /\ at \notin Cleanup
      BY <2>1 DEF GitShape, Cleanup, Stops
    <3> QED BY <2>1, <2>2, <3>1, <3>2, FailKeeps
  <2>4. CASE total + 1 > StreamLimit /\ job.kind = "archive"
    <3>1. at' = "poll" /\ early' = TRUE /\ UNCHANGED <<got, total>>
      BY <1>2, <2>4 DEF ReadStream
    <3>2. GitShape'
      BY <2>1, <2>2, <3>1 DEF GitShape, Exited
    <3>3. StreamReading' /\ BatchReading'
      BY <2>1, <3>1 DEF StreamReading, BatchReading, Batch, Cleanup, Stops
    <3>4. CleaningUp'
      BY <2>1, <3>1 DEF CleaningUp, Batch, Cleanup, Stops, Whole
    <3> QED BY <3>2, <3>3, <3>4
  <2>5. CASE total + 1 <= StreamLimit
    <3>1. /\ got' = Append(got, Head(stdout.units)) /\ total' = total + 1 /\ UNCHANGED <<at, early>>
          /\ total \in Nat
      BY <1>2, <2>5 DEF ReadStream, GitShape
    <3>2. GitShape'
      BY <2>1, <2>2, <3>1 DEF GitShape, Exited
    <3>3. /\ Head(stdout.units) = Chunk /\ AllChunks(stdout'.units)
          /\ got' = Stream(total')
      <4>1. stdout.open /\ got = Stream(total) /\ AllChunks(stdout.units)
        BY <2>1 DEF StreamReading
      <4>2. Head(stdout.units) = Chunk
        BY <2>1, <2>2, <4>1 DEF AllChunks
      <4>3. AllChunks(stdout'.units)
        BY <2>1, <2>2, <4>1 DEF AllChunks
      <4> QED BY <3>1, <4>1, <4>2, <4>3, StreamGrows
    <3>4. StreamReading'
      <4>1. total' + Len(stdout'.units) = total + Len(stdout.units)
        <5>1. Len(stdout.units) \in Nat /\ total \in Nat
          BY <2>2, <3>1
        <5>2. Len(stdout'.units) = Len(stdout.units) - 1 /\ total' = total + 1
          BY <2>2, <3>1
        <5> DEFINE now == Len(stdout.units)
                   then == Len(stdout'.units)
        <5>3. now \in Nat /\ then = now - 1
          BY <5>1, <5>2
        <5> HIDE DEF now, then
        <5>4. total' + then = total + now
          BY <5>1, <5>2, <5>3
        <5> QED BY <5>4 DEF now, then
      <4>2. total' <= StreamLimit
        BY <2>5, <3>1
      <4> HIDE JobShape
      <4> QED BY <2>1, <2>2, <3>1, <3>3, <4>1, <4>2 DEF StreamReading, Batch
    <3>5. BatchReading' /\ CleaningUp'
      BY <2>1, <3>1 DEF BatchReading, CleaningUp, Batch, Cleanup, Stops
    <3> QED BY <3>2, <3>4, <3>5
  <2>6. total \in Nat /\ StreamLimit \in Nat
    BY DEF GitShape
  <2> QED BY <2>3, <2>4, <2>5, <2>6
<1>3. CASE EndStream
  <2>1. /\ at = "stream" /\ at' = "wait" /\ stdout.units = <<>> /\ Exited /\ ~ Batch
        /\ UNCHANGED <<job, reader, ending, stdin, stdout, process, faults>>
    BY <1>3 DEF EndStream, EndOfFile, BatchReading
  <2>2. GitShape'
    BY <2>1 DEF GitShape, Exited, reader, ending, process
  <2>3. StreamReading' /\ BatchReading'
    BY <2>1 DEF StreamReading, BatchReading, Batch, reader, process, Exited
  <2>4. CleaningUp'
    BY <2>1 DEF CleaningUp, Batch, Cleanup, Stops, ending, process
  <2> QED BY <2>2, <2>3, <2>4
<1>4. CASE Wait
  <2>1. /\ at = "wait" /\ Exited /\ reaped' = TRUE /\ succeeded' = (git = "done") /\ Fail
        /\ UNCHANGED <<job, reader, unclean, early, abandoned, stdin, stdout, process, faults>>
    BY <1>4 DEF Wait
  <2>2. GitShape'
    BY <2>1 DEF GitShape, Exited, reader, process, Fail
  <2>3. StreamReading' /\ BatchReading'
    BY <2>1 DEF StreamReading, BatchReading, Batch, reader, process, Exited, Fail, Cleanup
  <2>4. ASSUME git = "done" PROVE Whole
    <3>1. CASE Batch
      BY <2>1, <2>4, <3>1 DEF Whole, BatchReading
    <3>2. CASE ~ Batch
      <4>1. total + Len(stdout.units) + Len(writing) = job.size /\ stdout.units = <<>>
            /\ writing = <<>> /\ got = Stream(total) /\ total \in Nat
        BY <2>1, <2>4, <3>2 DEF StreamReading, GitShape
      <4>2. total = job.size
        BY <4>1
      <4> QED BY <3>2, <4>1, <4>2 DEF Whole
    <3> QED BY <3>1, <3>2
  <2>5. CleaningUp'
    BY <2>1, <2>4 DEF CleaningUp, Batch, Cleanup, Stops, process, reader, Fail, Whole, StreamReading
  <2> QED BY <2>2, <2>3, <2>5
<1> QED BY <1>1, <1>2, <1>3, <1>4

LEMMA NextUnit ==
    ASSUME GitShape, stdout.units # <<>>, stdout' = Read(stdout)
    PROVE  /\ stdout' \in Pipe(Units) /\ Len(stdout'.units) <= Capacity
           /\ Head(stdout.units) \in Units
<1>1. stdout \in Pipe(Units) /\ stdout.units \in Seq(Units) /\ Len(stdout.units) <= Capacity
  BY DEF GitShape, Pipe
<1>2. /\ Read(stdout) \in Pipe(Units) /\ Len(Read(stdout).units) = Len(stdout.units) - 1
      /\ Head(stdout.units) \in Units
  BY <1>1, ReadPipe
<1>3. Capacity \in Nat
  BY JobShape
<1> QED BY <1>1, <1>2, <1>3

LEMMA BatchKeeps ==
    ASSUME GitInv, WriteRequest \/ ReadHeader \/ ReadContent \/ CloseRequests \/ ReadRest
    PROVE  GitInv'
<1> USE DEF GitInv
<1>0. /\ Batch /\ at \notin Cleanup /\ at # "start" /\ git # "none"
      /\ job.asks \in Seq(Nat) /\ FileLimit \in Nat /\ TotalLimit \in Nat
      /\ stdout \in Pipe(Units) /\ Len(stdout.units) <= Capacity
      /\ asked \in 0..Len(job.asks) /\ total \in Nat /\ left \in Nat
      /\ got \in Seq(Nat) /\ got = [n \in 1..Len(got) |-> n] /\ Len(got) <= Len(job.asks)
      /\ Len(job.asks) \in Nat /\ Len(got) \in Nat
  <2>1. at \in {"write", "header", "content", "close_requests", "rest"}
    BY DEF WriteRequest, ReadHeader, ReadContent, CloseRequests, ReadRest
  <2>2. Batch
    BY <2>1 DEF StreamReading, Cleanup, Stops
  <2>3. at \notin Cleanup /\ at # "start" /\ git # "none"
    BY <2>1 DEF Cleanup, Stops, GitShape
  <2>4. job.asks \in Seq(Nat) /\ FileLimit \in Nat /\ TotalLimit \in Nat
    BY JobShape
  <2>5. /\ stdout \in Pipe(Units) /\ Len(stdout.units) <= Capacity
        /\ asked \in 0..Len(job.asks) /\ total \in Nat /\ left \in Nat
    BY DEF GitShape
  <2>6. got \in Seq(Nat) /\ got = [n \in 1..Len(got) |-> n] /\ Len(got) <= Len(job.asks)
    BY <2>2 DEF BatchReading
  <2>7. Len(job.asks) \in Nat /\ Len(got) \in Nat
    BY <2>4, <2>6
  <2> QED BY <2>2, <2>3, <2>4, <2>5, <2>6, <2>7
(* What a step that does not give up has to keep. *)
<1>1. ASSUME UNCHANGED <<job, succeeded, unclean, early, reaped, abandoned, git, deaf, writing>>,
             at' \in {"write", "header", "content", "close_requests", "rest", "wait"},
             GitShape', BatchReading'
      PROVE  GitInv'
  <2>1. StreamReading'
    BY <1>0, <1>1 DEF StreamReading, Batch
  <2>2. CleaningUp'
    BY <1>0, <1>1 DEF CleaningUp, Cleanup, Stops
  <2> QED BY <1>1, <2>1, <2>2
<1>2. CASE WriteRequest
  <2>1. CASE Exited
    BY <1>0, <1>2, <2>1, FailKeeps DEF WriteRequest, ending, process
  <2>2. CASE ~ Exited
    <3>1. /\ at = "write" /\ Len(stdin.units) < Capacity /\ asked' = asked + 1
          /\ stdin' = Write(stdin, asked + 1) /\ at' = "header"
          /\ UNCHANGED <<job, left, got, total, ending, stdout, process, faults>>
      BY <1>2, <2>2 DEF WriteRequest
    <3>2. asked + 1 \in 1..Len(job.asks) /\ asked = Len(got)
      <4>1. asked = Len(got) /\ asked < Len(job.asks)
        BY <1>0, <3>1 DEF BatchReading
      <4> QED BY <1>0, <4>1
    <3>3. stdin' \in Pipe(1..Len(job.asks)) /\ Len(stdin'.units) <= Capacity
      <4>1. stdin \in Pipe(1..Len(job.asks)) /\ Len(stdin.units) \in Nat
        BY DEF GitShape, Pipe
      <4>2. /\ Write(stdin, asked + 1) \in Pipe(1..Len(job.asks))
            /\ Len(Write(stdin, asked + 1).units) = Len(stdin.units) + 1
        BY <3>2, <4>1, WrittenPipe
      <4>3. Capacity \in Nat
        BY JobShape
      <4> QED BY <3>1, <4>1, <4>2, <4>3
    <3>4. GitShape'
      BY <1>0, <3>1, <3>2, <3>3 DEF GitShape, ending, process, Exited
    <3>5. BatchReading'
      BY <1>0, <3>1, <3>2 DEF BatchReading, Batch
    <3> QED BY <1>1, <3>1, <3>4, <3>5 DEF ending, process
  <2> QED BY <2>1, <2>2
<1>3. CASE ReadHeader
  <2>1. CASE EndOfFile
    BY <1>0, <1>3, <2>1, FailKeeps DEF ReadHeader, ending, process
  <2>2. CASE ~ EndOfFile
    <3>1. /\ stdout' \in Pipe(Units) /\ Len(stdout'.units) <= Capacity
          /\ Head(stdout.units) \in Units
      BY <1>3, <2>2, NextUnit DEF ReadHeader
    <3>2. CASE ~ AcceptsHeader(Head(stdout.units))
      BY <1>0, <1>3, <2>2, <3>1, <3>2, FailKeeps DEF ReadHeader, ending, process
    <3>3. CASE AcceptsHeader(Head(stdout.units))
      <4>1. /\ at = "header" /\ at' = "content" /\ left' = Head(stdout.units).size
            /\ total' = total + Head(stdout.units).size
            /\ UNCHANGED <<job, asked, got, ending, stdin, process, faults>>
        BY <1>3, <2>2, <3>3 DEF ReadHeader
      <4>2. Head(stdout.units).size \in Nat
        BY <3>1 DEF Units
      <4>3. GitShape'
        BY <1>0, <3>1, <4>1, <4>2 DEF GitShape, ending, process, Exited
      <4>4. job.asks[asked] <= FileLimit /\ total' <= TotalLimit
        BY <1>0, <3>3, <4>1, <4>2 DEF AcceptsHeader, Header, Unit
      <4>5. BatchReading'
        BY <1>0, <4>1, <4>4 DEF BatchReading, Batch
      <4> QED BY <1>1, <4>1, <4>3, <4>5 DEF ending, process
    <3> QED BY <3>2, <3>3
  <2> QED BY <2>1, <2>2
<1>4. CASE ReadContent
  <2>1. CASE EndOfFile
    BY <1>0, <1>4, <2>1, FailKeeps DEF ReadContent, ending, process
  <2>2. CASE ~ EndOfFile
    <3>1. /\ stdout' \in Pipe(Units) /\ Len(stdout'.units) <= Capacity
          /\ Head(stdout.units) \in Units
      BY <1>4, <2>2, NextUnit DEF ReadContent
    <3>2. CASE left > 0
      <4>1. /\ at' = "content" /\ at = "content" /\ left' = left - 1
            /\ UNCHANGED <<got, job, asked, total, ending, stdin, process, faults>>
        BY <1>4, <2>2, <3>2 DEF ReadContent
      <4>2. GitShape'
        BY <1>0, <3>1, <3>2, <4>1 DEF GitShape, ending, process, Exited
      <4>3. BatchReading'
        BY <1>0, <4>1 DEF BatchReading, Batch
      <4> QED BY <1>1, <4>1, <4>2, <4>3 DEF ending, process
    <3>3. CASE ~ (left > 0) /\ Head(stdout.units).type # "newline"
      BY <1>0, <1>4, <2>2, <3>1, <3>3, FailKeeps DEF ReadContent, ending, process
    <3>4. CASE ~ (left > 0) /\ Head(stdout.units).type = "newline"
      <4>1. /\ got' = Append(got, asked) /\ at = "content"
            /\ at' = IF asked = Len(job.asks) THEN "close_requests" ELSE "write"
            /\ UNCHANGED <<left, job, asked, total, ending, stdin, process, faults>>
        BY <1>4, <2>2, <3>4 DEF ReadContent
      <4>2. asked = Len(got) + 1 /\ job.asks[asked] <= FileLimit
        BY <1>0, <4>1 DEF BatchReading
      <4>3. GitShape'
        BY <1>0, <3>1, <4>1 DEF GitShape, ending, process, Exited
      <4>4. got' \in Seq(Nat) /\ Len(got') = asked /\ got' = [n \in 1..asked |-> n]
        BY <1>0, <4>1, <4>2, OneMore
      <4>5. \A n \in 1..asked : job.asks[n] <= FileLimit
        <5>1. \A n \in 1..Len(got) : job.asks[n] <= FileLimit
          BY <1>0 DEF BatchReading
        <5>2. \A n \in 1..asked : n \in 1..Len(got) \/ n = asked
          BY <1>0, <4>2
        <5> QED BY <4>2, <5>1, <5>2
      <4>6. BatchReading'
        BY <1>0, <4>1, <4>4, <4>5 DEF BatchReading, Batch
      <4> QED BY <1>1, <4>1, <4>3, <4>6 DEF ending, process
    <3> QED BY <3>2, <3>3, <3>4
  <2> QED BY <2>1, <2>2
<1>5. CASE CloseRequests
  <2>1. at = "close_requests" /\ UNCHANGED <<job, reader, ending, stdout, process>>
        /\ stdin' = Close(stdin)
    BY <1>5 DEF CloseRequests
  <2>2. stdin' \in Pipe(1..Len(job.asks)) /\ Len(stdin'.units) <= Capacity
    BY <2>1, ClosedPipe DEF GitShape
  <2>3. CASE at' = "rest"
    <3>1. GitShape'
      BY <1>0, <2>1, <2>2, <2>3 DEF GitShape, ending, process, reader, Exited
    <3>2. BatchReading'
      BY <1>0, <2>1, <2>3 DEF BatchReading, Batch, reader
    <3> QED BY <1>1, <2>1, <2>3, <3>1, <3>2 DEF ending, process
  <2>4. CASE at' = "close_stdin"
    <3>1. GitShape'
      BY <1>0, <2>1, <2>2, <2>4 DEF GitShape, ending, process, reader, Exited
    <3>2. BatchReading' /\ StreamReading'
      BY <1>0, <2>1, <2>4 DEF BatchReading, StreamReading, Batch, reader
    <3>3. CleaningUp'
      BY <1>0, <2>1, <2>4 DEF CleaningUp, Cleanup, Stops, ending
    <3> QED BY <3>1, <3>2, <3>3
  <2> QED BY <1>0, <1>5, <2>3, <2>4 DEF CloseRequests, Fail
<1>6. CASE ReadRest
  <2>1. /\ at = "rest" /\ UNCHANGED <<job, reader, ending, stdin, stdout, process, faults>>
        /\ at' = "wait" \/ Fail
    BY <1>6 DEF ReadRest
  <2>2. CASE at' = "wait"
    <3>1. GitShape'
      BY <1>0, <2>1, <2>2 DEF GitShape, ending, process, reader, Exited
    <3>2. BatchReading'
      BY <1>0, <2>1, <2>2 DEF BatchReading, Batch, reader
    <3> QED BY <1>1, <2>1, <2>2, <3>1, <3>2 DEF ending, process
  <2>3. CASE Fail
    BY <1>0, <2>1, <2>3, FailKeeps DEF ending, process, reader
  <2> QED BY <2>1, <2>2, <2>3
<1> QED BY <1>2, <1>3, <1>4, <1>5, <1>6

LEMMA CleanupKeeps ==
    ASSUME GitInv, ClosePipe \/ Poll \/ Terminate \/ WaitASecond \/ Kill \/ WaitForKill
    PROVE  GitInv'
<1> USE DEF GitInv
<1>1. CASE ClosePipe
  <2>1. /\ at \in {"close_stdin", "close_stdout"}
        /\ at' = IF at = "close_stdin" THEN "close_stdout" ELSE "poll"
        /\ UNCHANGED <<job, asked, left, got, total, git, writing>>
        /\ UNCHANGED <<succeeded, early, reaped, abandoned>>
        /\ unclean' \in BOOLEAN
        /\ unclean => unclean'
    <3>1. /\ at \in {"close_stdin", "close_stdout"}
          /\ at' = IF at = "close_stdin" THEN "close_stdout" ELSE "poll"
          /\ unclean' = TRUE \/ unclean' = unclean
      BY <1>1 DEF ClosePipe, Noted
    <3>2. unclean' \in BOOLEAN /\ (unclean => unclean')
      <4>1. unclean \in BOOLEAN
        BY DEF GitShape
      <4>2. CASE unclean' = TRUE
        BY <4>2
      <4>3. CASE unclean' = unclean
        BY <4>1, <4>3
      <4> QED BY <3>1, <4>2, <4>3
    <3>3. UNCHANGED <<job, reader, succeeded, early, reaped, abandoned, process>>
      BY <1>1 DEF ClosePipe
    <3> QED BY <3>1, <3>2, <3>3 DEF reader, process
  <2>2. /\ stdin' \in Pipe(1..Len(job.asks)) /\ Len(stdin'.units) <= Capacity
        /\ stdout' \in Pipe(Units) /\ Len(stdout'.units) <= Capacity
        /\ at = "close_stdin" => ~ stdin'.open /\ stdin'.units = stdin.units
        /\ at = "close_stdout" => ~ stdout'.open /\ stdin' = stdin
    <3>1. stdin \in Pipe(1..Len(job.asks)) /\ stdout \in Pipe(Units)
      BY DEF GitShape
    <3>2. /\ Close(stdin) \in Pipe(1..Len(job.asks)) /\ Close(stdin).units = stdin.units
          /\ ~ Close(stdin).open
          /\ Close(stdout) \in Pipe(Units) /\ Close(stdout).units = stdout.units
          /\ ~ Close(stdout).open
      BY <3>1, ClosedPipe
    <3>3. Len(stdin.units) <= Capacity /\ Len(stdout.units) <= Capacity
      BY DEF GitShape
    <3>4. CASE at = "close_stdin" /\ stdin' = Close(stdin) /\ UNCHANGED stdout
      BY <3>1, <3>2, <3>3, <3>4
    <3>5. CASE at = "close_stdout" /\ stdout' = Close(stdout) /\ UNCHANGED stdin
      BY <3>1, <3>2, <3>3, <3>5
    <3> QED BY <1>1, <3>4, <3>5 DEF ClosePipe
  <2>3. GitShape'
    BY <2>1, <2>2 DEF GitShape, reader, process, Exited
  <2>4. StreamReading' /\ BatchReading'
    BY <2>1, <2>2 DEF StreamReading, BatchReading, Batch, reader, process, Cleanup, Stops
  <2>5. CleaningUp'
    BY <2>1, <2>2 DEF CleaningUp, Batch, reader, process, Cleanup, Stops, Whole
  <2> QED BY <2>3, <2>4, <2>5
<1>2. CASE Poll \/ Terminate \/ WaitASecond \/ Kill \/ WaitForKill
  (* A step of a stop goes on with it, or ends it with the status collected  *)
  (* or the last wait failed.                                                *)
  <2>1. /\ at \in Stops
        /\ UNCHANGED <<job, asked, left, got, total, stdin, stdout, writing>>
        /\ UNCHANGED succeeded
        /\ git' = git \/ (git = "running" /\ git' = "failed")
    BY <1>2 DEF Poll, Terminate, WaitASecond, Kill, WaitForKill, Signal, Stops, reader, process
  <2>2. unclean' = unclean \/ unclean' = TRUE
    BY <1>2 DEF Poll, Terminate, WaitASecond, Kill, WaitForKill, Signal, Noted
  <2>3. \/ at' \in Stops /\ early' = early /\ reaped' = reaped /\ abandoned' = abandoned
        \/ at' = Stopped /\ early' = FALSE /\ reaped' = TRUE /\ abandoned' = abandoned /\ (Exited \/ reaped)
        \/ /\ at' = Stopped /\ early' = FALSE /\ reaped' = reaped
           /\ abandoned' = ~ early /\ unclean' = TRUE
    <3>1. CASE Poll
      BY <3>1 DEF Poll, Noted, Stops
    <3>2. CASE Terminate \/ Kill
      BY <3>2 DEF Terminate, Kill, Signal, Noted, Stops
    <3>3. CASE WaitASecond
      BY <3>3 DEF WaitASecond, Noted, Stops
    <3>4. CASE WaitForKill
      BY <3>4 DEF WaitForKill, Noted, Stops
    <3> QED BY <1>2, <3>1, <3>2, <3>3, <3>4
  <2>4. GitShape'
    <3>1. unclean' \in BOOLEAN /\ early' \in BOOLEAN /\ reaped' \in BOOLEAN /\ abandoned' \in BOOLEAN
      BY <2>2, <2>3 DEF GitShape
    <3>2. git # "none" /\ git' # "none" /\ at' # "start" /\ git' \in {"running", "done", "failed"}
      BY <2>1, <2>3 DEF GitShape, Stops, Stopped
    <3>3. reaped' => Exited'
      BY <2>1, <2>3 DEF GitShape, Exited
    <3> QED BY <2>1, <3>1, <3>2, <3>3 DEF GitShape
  <2>5. at' \in Cleanup
    BY <2>3 DEF Cleanup, Stops, Stopped
  <2>6. StreamReading' /\ BatchReading'
    BY <2>1, <2>5 DEF StreamReading, BatchReading, Batch, Cleanup, Stops
  <2>7. CleaningUp'
    <3>1. Batch' = Batch /\ Whole' = Whole
      BY <2>1 DEF Batch, Whole, Stream
    <3>2. succeeded' => at' \in Cleanup /\ git' = "done" /\ Whole'
      BY <2>1, <2>5, <3>1 DEF CleaningUp
    <3>3. abandoned' => unclean'
      BY <2>2, <2>3 DEF CleaningUp, GitShape
    <3>4. early' => at' \in Stops /\ ~ Batch'
      BY <2>3, <3>1 DEF CleaningUp
    <3>5. CASE early
      <4>1. ~ stdin'.open /\ (early' => at' \in Stops) /\ (~ early' => at' = "close_stdout")
        BY <2>1, <2>3, <3>5 DEF CleaningUp, StreamReading, Stopped
      <4> QED BY <3>2, <3>3, <3>4, <4>1 DEF CleaningUp, Stops
    <3>6. CASE ~ early
      <4>1. ~ stdin'.open /\ ~ stdout'.open
        BY <2>1, <3>6 DEF CleaningUp, GitShape, Stops
      <4>2. at' = "end" => reaped' \/ abandoned'
        BY <2>3, <3>6 DEF Stops, Stopped
      <4> QED BY <3>2, <3>3, <3>4, <4>1, <4>2 DEF CleaningUp
    <3> QED BY <3>5, <3>6
  <2> QED BY <2>4, <2>6, <2>7
<1> QED BY <1>1, <1>2

LEMMA GitStep == ASSUME GitInv, [GitNext]_gitVars PROVE GitInv'
<1>1. CASE GitNext
  BY <1>1, GitKeeps, StreamKeeps, RaisingKeeps, BatchKeeps, CleanupKeeps DEF GitNext, Reader
<1>2. CASE UNCHANGED gitVars
  BY <1>2 DEF gitVars, reader, ending, process, GitInv, GitShape, StreamReading, BatchReading, CleaningUp,
              Batch, Exited, Whole
<1> QED BY <1>1, <1>2

LEMMA GitInitially == GitInit => GitInv
<1> SUFFICES ASSUME GitInit PROVE GitInv
  OBVIOUS
<1> USE DEF GitInit
<1>1. stdin \in Pipe(1..Len(job.asks)) /\ stdout \in Pipe(Units) /\ ~ stdin.open
  BY DEF Pipe
<1>2. GitShape
  <2>1. Len(job.asks) \in Nat /\ Capacity \in Nat
    BY SourceAssumption DEF ProcessAssumption
  <2>2. stdin.units = <<>> /\ stdout.units = <<>> /\ writing \in Seq(Units)
    OBVIOUS
  <2>3. Len(stdin.units) <= Capacity /\ Len(stdout.units) <= Capacity
    BY <2>1, <2>2
  <2>4. /\ succeeded \in BOOLEAN /\ unclean \in BOOLEAN /\ early \in BOOLEAN
        /\ reaped \in BOOLEAN /\ abandoned \in BOOLEAN /\ (reaped => Exited)
    OBVIOUS
  <2> QED BY <1>1, <2>1, <2>2, <2>3, <2>4 DEF GitShape
<1>3. StreamReading /\ BatchReading /\ CleaningUp
  BY <1>1, <1>2, JobShape DEF StreamReading, BatchReading, CleaningUp, Batch, Cleanup, Stops
<1> QED BY <1>2, <1>3 DEF GitInv

LEMMA GitInvGives == GitInv => GitOutputIsWhole
<1> SUFFICES ASSUME GitInv PROVE GitOutputIsWhole
  OBVIOUS
<1> USE DEF GitInv
<1>1. GitTypeOK
  BY DEF GitTypeOK, GitShape, Pipe
<1>2. AcceptedIsWhole
  BY DEF AcceptedIsWhole, Accepted, CleaningUp, Whole
<1>3. ReadIsBounded
  <2>1. CASE Batch
    <3>1. \A n \in ToSet(got) : n \in 1..Len(got)
      BY <2>1 DEF BatchReading, ToSet
    <3> QED BY <2>1, <3>1 DEF BatchReading, ReadIsBounded
  <2>2. CASE ~ Batch
    BY <2>2 DEF StreamReading, ReadIsBounded
  <2> QED BY <2>1, <2>2
<1>4. NoProcessIsLeft
  BY DEF NoProcessIsLeft, CleaningUp, Accepted, Stops
<1> QED BY <1>1, <1>2, <1>3, <1>4 DEF GitOutputIsWhole

(* The reader of a git command accepts the whole output of one that        *)
(* ended well or it fails, reads no more than its limits allow, and leaves *)
(* no process unless it cannot be stopped (git_archive.py:                 *)
(* _write_git_archive, _stream_git_nul_records, _read_git_blobs_batch).    *)
THEOREM GitIsWhole == GitSpec => []GitOutputIsWhole
<1>1. GitSpec => []GitInv
  BY GitInitially, GitStep, PTL DEF GitSpec
<1> QED BY <1>1, GitInvGives, PTL

---------------------------------------------------------------------------
(***************************************************************************)
(* An archive and the tree it has to be.  The members read so far are the  *)
(* files found, and their total is the number of bytes in a set of places  *)
(* (Weight), so that it grows as the set does.                             *)
(***************************************************************************)

(* A set of as many elements as the sizes of a set add up to. *)
Weight(w, S) == UNION {{x} \X (1..w[x]) : x \in S}

LEMMA WeightOfOne ==
    ASSUME NEW x, NEW n \in Nat
    PROVE  IsFiniteSet({x} \X (1..n)) /\ Cardinality({x} \X (1..n)) = n
<1>1. /\ IsFiniteSet(1..n) /\ Cardinality(1..n) = n
      /\ IsFiniteSet({x}) /\ Cardinality({x}) = 1
  <2>1. IsFiniteSet(1..n) /\ Cardinality(1..n) = IF 1 > n THEN 0 ELSE n - 1 + 1
    BY FS_Interval
  <2>2. Cardinality(1..n) = n
    BY <2>1
  <2> QED BY <2>1, <2>2, FS_Singleton
<1>2. /\ IsFiniteSet({x} \X (1..n))
      /\ Cardinality({x} \X (1..n)) = Cardinality({x}) * Cardinality(1..n)
  BY <1>1, FS_Product
<1> QED BY <1>1, <1>2

LEMMA WeightGrows ==
    ASSUME NEW w, NEW S, NEW x, x \notin S, w[x] \in Nat, IsFiniteSet(Weight(w, S))
    PROVE  /\ IsFiniteSet(Weight(w, S \cup {x}))
           /\ Cardinality(Weight(w, S \cup {x})) = Cardinality(Weight(w, S)) + w[x]
<1>1. Weight(w, S \cup {x}) = Weight(w, S) \cup ({x} \X (1..w[x]))
  BY DEF Weight
<1>2. Weight(w, S) \cap ({x} \X (1..w[x])) = {}
  BY DEF Weight
<1>3. /\ IsFiniteSet({x} \X (1..w[x])) /\ Cardinality({x} \X (1..w[x])) = w[x]
      /\ Cardinality({}) = 0 /\ Cardinality(Weight(w, S)) \in Nat
  BY WeightOfOne, FS_EmptySet, FS_CardinalityType
<1>4. /\ IsFiniteSet(Weight(w, S) \cup ({x} \X (1..w[x])))
      /\ Cardinality(Weight(w, S) \cup ({x} \X (1..w[x]))) =
            Cardinality(Weight(w, S)) + Cardinality({x} \X (1..w[x]))
              - Cardinality(Weight(w, S) \cap ({x} \X (1..w[x])))
  BY <1>3, FS_Union
<1> DEFINE a == Cardinality(Weight(w, S))
           c == Cardinality({x} \X (1..w[x]))
<1>5. a \in Nat /\ c = w[x] /\ Cardinality(Weight(w, S \cup {x})) = a + c - 0
  BY <1>1, <1>2, <1>3, <1>4
<1> HIDE DEF a, c
<1>6. Cardinality(Weight(w, S \cup {x})) = a + w[x]
  BY <1>5
<1> QED BY <1>1, <1>4, <1>6 DEF a

LEMMA WeightIsFinite ==
    ASSUME NEW w, NEW S, IsFiniteSet(S), \A x \in S : w[x] \in Nat
    PROVE  IsFiniteSet(Weight(w, S))
<1> DEFINE A == {T \in SUBSET S : ~ IsFiniteSet(Weight(w, T))}
<1> SUFFICES ASSUME A # {} PROVE FALSE
  OBVIOUS
<1>1. PICK T \in A : \A U \in A : ~ (U \subseteq T /\ U # T)
  <2> HIDE DEF A
  <2>1. A \subseteq SUBSET S
    BY DEF A
  <2> QED BY <2>1, LeastSet
<1>2. CASE T = {}
  BY <1>2, FS_EmptySet DEF Weight
<1>3. CASE T # {}
  <2>1. PICK x \in T : TRUE
    BY <1>3
  <2>2. IsFiniteSet(Weight(w, T \ {x}))
    BY <1>1, <2>1
  <2>3. T = (T \ {x}) \cup {x} /\ x \notin T \ {x} /\ w[x] \in Nat
    BY <2>1
  <2> QED BY <2>2, <2>3, WeightGrows
<1> QED BY <1>2, <1>3

(* The fold computes it, in whatever order it takes the elements. *)
LEMMA TotalIsWeight ==
    ASSUME NEW w, NEW S, IsFiniteSet(S), \A x \in S : w[x] \in Nat
    PROVE  TotalOf(w, S) = Cardinality(Weight(w, S))
<1> DEFINE Pick(s) == CHOOSE x \in s : TRUE
           Adds(g) == g = [s \in SUBSET S |->
                             IF s = {} THEN 0 ELSE w[Pick(s)] + g[s \ {Pick(s)}]]
           h == [s \in SUBSET S |-> Cardinality(Weight(w, s))]
<1>1. TotalOf(w, S) = (CHOOSE g : Adds(g))[S]
  BY DEF TotalOf, FoldFunctionOnSet, MapThenFoldSet
<1>2. ASSUME NEW s \in SUBSET S, s # {}
      PROVE  /\ Pick(s) \in s /\ s \ {Pick(s)} \in SUBSET S /\ s \ {Pick(s)} # s
             /\ h[s] = w[Pick(s)] + h[s \ {Pick(s)}]
  <2>1. Pick(s) \in s
    BY <1>2
  <2> DEFINE x == Pick(s)
             t == s \ {x}
  <2> HIDE DEF x
  <2>2. x \in s /\ w[x] \in Nat /\ IsFiniteSet(t) /\ t \in SUBSET S /\ s = t \cup {x} /\ x \notin t
    BY <2>1, FS_Subset DEF x
  <2> HIDE DEF t
  <2>3. IsFiniteSet(Weight(w, t)) /\ Cardinality(Weight(w, t)) \in Nat
    BY <2>2, WeightIsFinite, FS_CardinalityType
  <2>4. Cardinality(Weight(w, s)) = w[x] + Cardinality(Weight(w, t))
    BY <2>2, <2>3, WeightGrows
  <2>5. h[s] = w[x] + h[t] /\ t # s
    BY <2>2, <2>4
  <2> QED BY <2>2, <2>5 DEF x, t
<1>3. h[{}] = 0
  BY FS_EmptySet DEF Weight
<1>4. Adds(h)
  BY <1>2, <1>3
<1>5. Adds(CHOOSE g : Adds(g))
  <2> HIDE DEF Adds
  <2> QED BY <1>4
<1> DEFINE k == CHOOSE g : Adds(g)
           A == {s \in SUBSET S : k[s] # h[s]}
<1>6. \A s \in SUBSET S : k[s] = IF s = {} THEN 0 ELSE w[Pick(s)] + k[s \ {Pick(s)}]
  <2> HIDE DEF k
  <2>1. Adds(k)
    BY <1>5 DEF k
  <2> QED BY <2>1
<1> HIDE DEF k
<1>7. A = {}
  <2> SUFFICES ASSUME A # {} PROVE FALSE
    OBVIOUS
  <2>1. PICK s \in A : \A u \in A : ~ (u \subseteq s /\ u # s)
    <3> HIDE DEF A
    <3>1. A \subseteq SUBSET S
      BY DEF A
    <3> QED BY <3>1, LeastSet
  <2>2. s # {}
    BY <1>3, <1>6, <2>1
  <2>3. s \ {Pick(s)} \notin A /\ s \ {Pick(s)} \in SUBSET S
    BY <1>2, <2>1, <2>2
  <2>4. k[s \ {Pick(s)}] = h[s \ {Pick(s)}]
    BY <2>3
  <2>5. k[s] = w[Pick(s)] + k[s \ {Pick(s)}] /\ h[s] = w[Pick(s)] + h[s \ {Pick(s)}]
    BY <1>2, <1>6, <2>1, <2>2
  <2>6. k[s] # h[s]
    BY <2>1
  <2> HIDE DEF h, Pick
  <2> QED BY <2>4, <2>5, <2>6
<1> QED BY <1>1, <1>7 DEF k

LEMMA TotalOfNone == ASSUME NEW w PROVE TotalOf(w, {}) = 0
BY TotalIsWeight, FS_EmptySet DEF Weight

LEMMA TotalGrows ==
    ASSUME NEW w, NEW S, IsFiniteSet(S), NEW x, x \notin S, \A y \in S \cup {x} : w[y] \in Nat
    PROVE  TotalOf(w, S \cup {x}) = TotalOf(w, S) + w[x]
<1>1. IsFiniteSet(S \cup {x}) /\ IsFiniteSet(Weight(w, S))
  BY FS_AddElement, WeightIsFinite
<1>2. /\ TotalOf(w, S) = Cardinality(Weight(w, S))
      /\ TotalOf(w, S \cup {x}) = Cardinality(Weight(w, S \cup {x}))
  BY <1>1, TotalIsWeight
<1>3. Cardinality(Weight(w, S \cup {x})) = Cardinality(Weight(w, S)) + w[x]
  BY <1>1, WeightGrows
<1> QED BY <1>2, <1>3

LEMMA TotalOfSame ==
    ASSUME NEW w, NEW v, NEW S, IsFiniteSet(S), \A x \in S : w[x] \in Nat /\ v[x] = w[x]
    PROVE  TotalOf(v, S) = TotalOf(w, S)
<1>1. Weight(v, S) = Weight(w, S)
  BY DEF Weight
<1> QED BY <1>1, TotalIsWeight

LEMMA TotalOfPart ==
    ASSUME NEW w, NEW S, IsFiniteSet(S), NEW T \in SUBSET S, \A x \in S : w[x] \in Nat
    PROVE  TotalOf(w, T) <= TotalOf(w, S) /\ TotalOf(w, S) \in Nat
<1>1. IsFiniteSet(T) /\ IsFiniteSet(Weight(w, S)) /\ Weight(w, T) \subseteq Weight(w, S)
  BY FS_Subset, WeightIsFinite DEF Weight
<1> QED BY <1>1, TotalIsWeight, FS_Subset, FS_CardinalityType

ReadingSteps == {"read", "verify", "accepted"}

(* The members read so far, and those of them that are taken. *)
Before == {i \in Members : i < position}
Taken == {i \in Before : archive[i].type \in Regular /\ archive[i].path \in Included}
Filed == {i \in Members : archive[i].type \in Regular}

TarShape ==
    /\ archive \in Archives /\ tree \in Trees
    /\ step \in ReadingSteps \cup {"scan", "rejected"} /\ position \in Nat \ {0} /\ pending \in BOOLEAN
    /\ bytes \in Nat /\ files = [p \in DOMAIN files |-> files[p]]
    /\ IsFiniteSet(DOMAIN files) /\ \A p \in DOMAIN files : SizeOf(files[p]) \in Nat

(* What precedes the header looked at is bound to its members, and pending *)
(* says whether the last of it is not yet.                                 *)
Scanned ==
    step = "scan" =>
        /\ position <= Len(archive) + 1
        /\ seen = {} /\ regular = {} /\ files = <<>> /\ bytes = 0
        /\ \A i \in 1..position - 1 :
             /\ archive[i].type # "end"
             /\ archive[i].type \in Local => i + 1 \in Members \/ (i + 1 = position /\ pending)
        /\ pending => position > 1 /\ archive[position - 1].type \in Local

(* An archive that is read ends with its only terminator. *)
Structured ==
    step \in ReadingSteps =>
        /\ Len(archive) >= 1 /\ archive[Len(archive)].type = "end"
        /\ \A i \in 1..Len(archive) - 1 :
             archive[i].type # "end" /\ (archive[i].type \in Local => i + 1 \in Members)
        /\ position <= Len(archive)
        /\ step # "read" => position = Len(archive)

Joined ==
    /\ regular \subseteq seen
    /\ step \in ReadingSteps =>
         /\ regular = {archive[i].path : i \in Filed \cap Before}
         /\ seen = {archive[i].path : i \in Before}
         /\ \A i \in Before, j \in Before : archive[i].path = archive[j].path => i = j
         /\ DOMAIN files = {archive[i].path : i \in Taken}
         /\ \A i \in Taken : files[archive[i].path] = archive[i].content

NoneUnderAnother == \A f \in regular, p \in seen : ~ Under(p, f)

Compared ==
    step = "accepted" => Selected = DOMAIN files /\ \A p \in Selected : files[p] = tree[p].content

TarInv ==
    /\ TarShape /\ Scanned /\ Structured /\ Joined /\ NoneUnderAnother /\ FilesAreBounded
    /\ Compared /\ FaithfulIsAccepted

LEMMA ArchiveShape ==
    ASSUME TarShape
    PROVE  /\ Len(archive) \in Nat /\ DOMAIN archive = 1..Len(archive)
           /\ \A i \in DOMAIN archive :
                archive[i].path \in Seq(STRING) /\ SizeOf(archive[i].content) \in Nat
           /\ IsFiniteSet(DOMAIN tree)
           /\ \A p \in DOMAIN tree : p \in Seq(STRING) /\ SizeOf(tree[p].content) \in Nat
           /\ MaxMembers \in Nat /\ MaxFile \in Nat /\ MaxTotal \in Nat
           /\ position \in Nat \ {0}
BY SourceAssumption DEF TarShape, ArchiveAssumption

(* What lies under a directory lies under those above it. *)
LEMMA UnderIsTransitive ==
    ASSUME NEW a \in Seq(STRING), NEW b \in Seq(STRING), NEW c \in Seq(STRING),
           Under(b, a), Under(c, b)
    PROVE  Under(c, a)
<1>1. ASSUME NEW s \in Seq(STRING), NEW t \in Seq(STRING)
      PROVE  IsPrefix(s, t) <=> Len(s) <= Len(t) /\ \A i \in 1..Len(s) : s[i] = t[i]
  <2>1. ASSUME Len(s) <= Len(t)
        PROVE  SubSeq(s, 1, Len(s)) = SubSeq(t, 1, Len(s)) <=> \A i \in 1..Len(s) : s[i] = t[i]
    <3>1. SubSeq(s, 1, Len(s)) = [i \in 1..Len(s) |-> s[i]]
      OBVIOUS
    <3>2. SubSeq(t, 1, Len(s)) = [i \in 1..Len(s) |-> t[i]]
      BY <2>1
    <3> QED BY <3>1, <3>2
  <2> QED BY <2>1 DEF IsPrefix
<1>2. IsPrefix(a, b) /\ IsPrefix(b, c) /\ a # b /\ b # c
  BY DEF Under, IsStrictPrefix
<1>3. /\ Len(a) \in Nat /\ Len(b) \in Nat /\ Len(c) \in Nat
      /\ Len(a) <= Len(b) /\ Len(b) <= Len(c)
      /\ \A i \in 1..Len(a) : a[i] = b[i]
      /\ \A i \in 1..Len(b) : b[i] = c[i]
  BY <1>1, <1>2
<1>4. IsPrefix(a, c)
  BY <1>1, <1>3
<1>5. ASSUME a = c PROVE FALSE
  <2>1. Len(a) = Len(b)
    BY <1>3, <1>5
  <2>2. a = b
    BY <1>3, <2>1
  <2> QED BY <1>2, <2>2
<1> QED BY <1>4, <1>5 DEF Under, IsStrictPrefix

(* Nothing that is read has changed. *)
LEMMA FoundKeeps ==
    ASSUME TarInv, UNCHANGED <<archive, tree, found>>
    PROVE  NoneUnderAnother' /\ FilesAreBounded'
BY DEF TarInv, NoneUnderAnother, FilesAreBounded, found

(* What an archive that is faithful is like. *)
LEMMA FaithfulShape ==
    ASSUME TarShape, Faithful
    PROVE  /\ Len(archive) >= 1 /\ archive[Len(archive)].type = "end"
           /\ archive[Len(archive)].sound /\ Len(archive) <= MaxMembers + 1
           /\ \A i \in 1..Len(archive) - 1 :
                /\ archive[i].sound
                /\ archive[i].type \in Metadata \cup Regular \cup {"directory"}
                /\ archive[i].type \in Local => i + 1 \in Members
           /\ \A i \in Members : /\ archive[i].type \in Regular \cup {"directory"}
                                 /\ IsSafe(archive[i].path)
           /\ \A i \in Members, j \in Members : archive[i].path = archive[j].path => i = j
           /\ {archive[i].path : i \in Filed} = DOMAIN tree
           /\ \A i \in Filed : /\ tree[archive[i].path].type = "blob"
                               /\ tree[archive[i].path].content = archive[i].content
           /\ \A i \in Members \ Filed : \E p \in DOMAIN tree : Under(p, archive[i].path)
           /\ \A p \in Selected : SizeOf(tree[p].content) <= MaxFile
           /\ TotalOf([p \in Selected |-> SizeOf(tree[p].content)], Selected) <= MaxTotal
           /\ \A p \in DOMAIN tree, q \in DOMAIN tree : ~ Under(p, q)
<1>0. Len(archive) \in Nat /\ DOMAIN archive = 1..Len(archive)
  BY ArchiveShape
<1>1. /\ Len(archive) >= 1 /\ archive[Len(archive)].type = "end" /\ archive[Len(archive)].sound
      /\ Len(archive) <= MaxMembers + 1
  BY DEF Faithful, Last
<1>2. \A i \in 1..Len(archive) - 1 :
         /\ archive[i].sound
         /\ archive[i].type \in Local \cup {"global", "directory"} \cup Regular
         /\ archive[i].type \in Local => i + 1 \in Members
  BY DEF Faithful
<1>3. \A i \in Members : archive[i].type \in Regular \cup {"directory"}
  BY <1>0, <1>1, <1>2 DEF Members, Metadata
<1>4. \A i \in 1..Len(archive) - 1 : archive[i].type \in Metadata \cup Regular \cup {"directory"}
  BY <1>2 DEF Metadata
<1> HIDE DEF Members
<1>5. /\ {archive[i].path : i \in Filed} = DOMAIN tree
      /\ \A i \in Filed : /\ tree[archive[i].path].type = "blob"
                          /\ tree[archive[i].path].content = archive[i].content
      /\ \A i \in Members \ Filed : \E p \in DOMAIN tree : Under(p, archive[i].path)
  BY DEF Faithful, Filed
<1>6. /\ \A i \in Members : IsSafe(archive[i].path)
      /\ \A i \in Members, j \in Members : archive[i].path = archive[j].path => i = j
      /\ \A p \in Selected : SizeOf(tree[p].content) <= MaxFile
      /\ TotalOf([p \in Selected |-> SizeOf(tree[p].content)], Selected) <= MaxTotal
      /\ \A p \in DOMAIN tree, q \in DOMAIN tree : ~ Under(p, q)
  BY DEF Faithful
<1> QED BY <1>1, <1>2, <1>3, <1>4, <1>5, <1>6

LEMMA ScanKeeps == ASSUME TarInv, Scan PROVE TarInv'
<1> USE DEF TarInv
<1>0. /\ step = "scan" /\ UNCHANGED <<archive, tree>> /\ UNCHANGED found
      /\ Len(archive) \in Nat /\ DOMAIN archive = 1..Len(archive) /\ position \in Nat \ {0}
      /\ position <= Len(archive) + 1
  BY ArchiveShape DEF Scan, Reject, Scanned
<1>1. NoneUnderAnother' /\ FilesAreBounded'
  BY <1>0, FoundKeeps
<1>2. Members' = Members
  BY <1>0 DEF Members
<1>3. CASE Reject
  <2>1. ASSUME Faithful PROVE FALSE
    <3>1. position <= Len(archive) /\ MaxMembers \in Nat
      BY <1>0, <2>1, FaithfulShape, ArchiveShape DEF Scanned
    <3>2. pending => position \in Members
      <4>1. pending => position > 1 /\ archive[position - 1].type \in Local
        BY <1>0 DEF Scanned
      <4>2. pending => position - 1 \in 1..Len(archive) - 1 /\ position - 1 + 1 = position
        BY <1>0, <3>1, <4>1
      <4> QED BY <2>1, <4>1, <4>2, FaithfulShape DEF Now
    <3>3. CASE Now.type = "end"
      <4>1. position = Len(archive)
        <5> SUFFICES ASSUME position # Len(archive) PROVE FALSE
          OBVIOUS
        <5>1. position \in 1..Len(archive) - 1
          <6> DEFINE n == Len(archive)
          <6>1. n \in Nat /\ position \in Nat \ {0} /\ position <= n /\ position # n
            BY <1>0, <3>1
          <6> HIDE DEF n
          <6>2. position \in 1..n - 1
            BY <6>1
          <6> QED BY <6>2 DEF n
        <5>2. archive[position].type \in Metadata \cup Regular \cup {"directory"}
          BY <2>1, <5>1, FaithfulShape
        <5> QED BY <3>3, <5>2 DEF Now, Metadata, Regular, Local
      <4>2. Now.sound /\ ~ pending
        BY <2>1, <3>2, <3>3, <4>1, FaithfulShape DEF Now, Members
      <4> QED BY <1>0, <1>3, <3>1, <3>3, <4>1, <4>2 DEF Scan, Reject
    <3>4. CASE Now.type # "end"
      <4>1. position \in 1..Len(archive) - 1 /\ position <= MaxMembers
        BY <1>0, <2>1, <3>1, <3>4, FaithfulShape DEF Now
      <4>2. Now.sound /\ Now.type \in Metadata \cup Regular \cup {"directory"}
        BY <2>1, <4>1, FaithfulShape DEF Now
      <4>3. pending => Now.type \notin Metadata
        BY <3>2 DEF Members, Now
      <4>4. Allows(Now)
        BY <4>1, <4>2, <4>3 DEF Allows, Metadata, Regular, Local
      <4> QED BY <1>0, <1>3, <3>1, <3>4, <4>4 DEF Scan, Reject
    <3> QED BY <3>3, <3>4
  <2>2. FaithfulIsAccepted'
    <3>1. Faithful' = Faithful
      BY <1>0, <1>2 DEF Faithful, Selected
    <3> QED BY <2>1, <3>1 DEF FaithfulIsAccepted
  <2>3. TarShape' /\ Scanned' /\ Structured' /\ Joined' /\ Compared'
    BY <1>0, <1>3 DEF Reject, TarShape, Scanned, Structured, Joined, Compared, found, ReadingSteps
  <2> QED BY <1>1, <2>2, <2>3
<1>4. CASE step' = "read" /\ position' = 1 /\ Now.type = "end" /\ position <= Len(archive)
           /\ ~ (pending \/ ~ Now.sound \/ position < Len(archive)) /\ pending' = pending
  <2>1. position = Len(archive) /\ Len(archive) >= 1 /\ archive[Len(archive)].type = "end"
    <3> DEFINE n == Len(archive)
    <3>1. n \in Nat /\ position \in Nat \ {0} /\ position <= n /\ ~ (position < n)
      BY <1>0, <1>4
    <3> HIDE DEF n
    <3>2. position = n /\ n >= 1
      BY <3>1
    <3> QED BY <1>4, <3>2 DEF Now, n
  <2>2. \A i \in 1..Len(archive) - 1 :
           archive[i].type # "end" /\ (archive[i].type \in Local => i + 1 \in Members)
    BY <1>0, <1>4, <2>1 DEF Scanned
  <2>3. TarShape' /\ Structured' /\ Scanned'
    BY <1>0, <1>2, <1>4, <2>1, <2>2 DEF TarShape, Structured, Scanned, ReadingSteps, found
  <2>4. Before' = {} /\ Taken' = {}
    BY <1>0, <1>2, <1>4 DEF Before, Taken, Members
  <2>5. Joined'
    <3>1. regular' = {} /\ seen' = {} /\ DOMAIN files' = {}
      BY <1>0 DEF Scanned, found
    <3> QED BY <2>4, <3>1 DEF Joined
  <2>6. Compared' /\ FaithfulIsAccepted'
    BY <1>4 DEF Compared, FaithfulIsAccepted
  <2> QED BY <1>1, <2>3, <2>5, <2>6
<1>5. CASE Allows(Now) /\ position' = position + 1 /\ pending' = Binds(Now) /\ UNCHANGED step
           /\ position <= Len(archive) /\ Now.type # "end"
  <2>1. position \in DOMAIN archive /\ pending' \in BOOLEAN /\ position' \in Nat \ {0}
    BY <1>0, <1>5 DEF Binds
  <2>2. Scanned'
    <3>1. ASSUME NEW i \in 1..position PROVE
             /\ archive[i].type # "end"
             /\ archive[i].type \in Local => i + 1 \in Members \/ (i + 1 = position + 1 /\ Now.type \in Local)
      <4>1. CASE i = position
        BY <1>5, <4>1 DEF Now
      <4>2. CASE i # position
        <5>1. i \in 1..position - 1
          BY <1>0, <4>2
        <5>2. CASE i + 1 = position /\ pending
          BY <1>0, <1>5, <2>1, <5>1, <5>2 DEF Scanned, Allows, Members, Now
        <5>3. CASE ~ (i + 1 = position /\ pending)
          BY <1>0, <5>1, <5>3 DEF Scanned
        <5> QED BY <5>2, <5>3
      <4> QED BY <4>1, <4>2
    <3>2. position' - 1 = position /\ position' > 1 /\ position' <= Len(archive) + 1
      BY <1>0, <1>5
    <3> QED BY <1>0, <1>2, <1>5, <3>1, <3>2 DEF Scanned, Now, Binds, found
  <2>3. TarShape'
    BY <1>0, <1>5, <2>1 DEF TarShape, found
  <2>4. Structured' /\ Joined' /\ Compared' /\ FaithfulIsAccepted'
    BY <1>0, <1>5 DEF Structured, Joined, Compared, FaithfulIsAccepted, ReadingSteps, found
  <2> QED BY <1>1, <2>2, <2>3, <2>4
<1> QED BY <1>0, <1>3, <1>4, <1>5 DEF Scan

LEMMA SkipKeeps == ASSUME TarInv, Skip PROVE TarInv'
<1> USE DEF TarInv
<1>0. /\ step = "read" /\ step' = "read" /\ Now.type \in Metadata
      /\ position' = position + 1 /\ UNCHANGED <<archive, tree, pending>> /\ UNCHANGED found
      /\ Len(archive) \in Nat /\ position \in Nat \ {0} /\ position <= Len(archive)
      /\ archive[Len(archive)].type = "end" /\ Members' = Members /\ Filed' = Filed
  BY ArchiveShape DEF Skip, Structured, ReadingSteps, Members, Filed
<1>1. NoneUnderAnother' /\ FilesAreBounded'
  BY <1>0, FoundKeeps
<1>2. position + 1 <= Len(archive)
  BY <1>0 DEF Now, Metadata, Local
<1>3. TarShape' /\ Structured' /\ Scanned'
  BY <1>0, <1>2 DEF TarShape, Structured, Scanned, ReadingSteps, found
<1>4. Before' = Before /\ Taken' = Taken
  <2>1. position \notin Members
    BY <1>0 DEF Members, Now
  <2>2. \A i \in Members : i \in Nat
    BY ArchiveShape DEF Members
  <2>3. Before' = Before
    BY <1>0, <2>1, <2>2 DEF Before
  <2> QED BY <1>0, <2>3 DEF Taken
<1>5. Joined'
  BY <1>0, <1>4 DEF Joined, ReadingSteps, found
<1>6. Compared' /\ FaithfulIsAccepted'
  BY <1>0 DEF Compared, FaithfulIsAccepted
<1> QED BY <1>1, <1>3, <1>5, <1>6

LEMMA EndKeeps == ASSUME TarInv, ReadEnd \/ Verify PROVE TarInv'
<1> USE DEF TarInv
<1>0. /\ step \in {"read", "verify"} /\ step' \in {"verify", "accepted", "rejected"}
      /\ UNCHANGED <<archive, tree, position, pending>> /\ UNCHANGED found
  BY DEF ReadEnd, Verify
<1>1. NoneUnderAnother' /\ FilesAreBounded'
  BY <1>0, FoundKeeps
<1>2. Before' = Before /\ Taken' = Taken /\ Members' = Members /\ Filed' = Filed
  BY <1>0 DEF Before, Taken, Members, Filed
<1>3. TarShape' /\ Scanned' /\ Joined'
  BY <1>0, <1>2 DEF TarShape, Scanned, Joined, ReadingSteps, found
<1>4. step \in ReadingSteps /\ Len(archive) \in Nat /\ position \in Nat \ {0}
      /\ position <= Len(archive) /\ DOMAIN archive = 1..Len(archive)
  BY <1>0, ArchiveShape DEF ReadingSteps, Structured
<1>5. position = Len(archive)
  <2>1. CASE ReadEnd
    <3>1. archive[position].type = "end"
      BY <2>1 DEF ReadEnd, Now
    <3>2. position \in 1..Len(archive) - 1 => archive[position].type # "end"
      BY <1>4 DEF Structured
    <3> DEFINE m == Len(archive)
    <3>3. m \in Nat /\ position \in Nat \ {0} /\ position <= m /\ position \notin 1..m - 1
      BY <1>4, <3>1, <3>2
    <3> HIDE DEF m
    <3>4. position = m
      BY <3>3
    <3> QED BY <3>4 DEF m
  <2>2. CASE Verify
    BY <1>4, <2>2 DEF Verify, Structured
  <2> QED BY <2>1, <2>2
<1>6. Structured'
  BY <1>0, <1>2, <1>4, <1>5 DEF Structured
<1>7. Compared'
  BY <1>0 DEF ReadEnd, Verify, Compared, Verified, Selected, found
<1>8. FaithfulIsAccepted'
  <2>1. Faithful' = Faithful
    BY <1>0, <1>2 DEF Faithful, Selected
  <2>2. ASSUME Verify, Faithful PROVE Verified
    <3>1. Before = Members /\ Members \subseteq 1..Len(archive) - 1
      <4>1. archive[Len(archive)].type = "end"
        BY <1>4 DEF Structured
      <4>2. ASSUME NEW i \in Members PROVE i \in 1..Len(archive) - 1
        BY <1>4, <4>1 DEF Members
      <4> QED BY <1>4, <1>5, <4>2 DEF Before
    <3>2. /\ DOMAIN files = {archive[i].path : i \in Taken}
          /\ \A i \in Taken : files[archive[i].path] = archive[i].content
      BY <1>4 DEF Joined
    <3>3. Taken = {i \in Filed : archive[i].path \in Included} /\ Filed \subseteq Members
      BY <3>1 DEF Taken, Filed
    <3>4. {archive[i].path : i \in Filed} = DOMAIN tree
      BY <2>2, FaithfulShape
    <3>5. Selected = DOMAIN files
      BY <3>2, <3>3, <3>4 DEF Selected
    <3>6. ASSUME NEW p \in Selected PROVE tree[p].type = "blob" /\ files[p] = tree[p].content
      <4>1. PICK i \in Taken : p = archive[i].path
        BY <3>2, <3>5
      <4> QED BY <2>2, <3>2, <3>3, <4>1, FaithfulShape
    <3>7. Cardinality(Selected) <= MaxMembers
      <4> DEFINE n == Len(archive) - 1
                 f == [p \in Selected |-> CHOOSE i \in Filed : archive[i].path = p]
      <4>1. n \in Nat /\ n <= MaxMembers /\ MaxMembers \in Nat /\ Members \subseteq 1..n
        <5>1. Len(archive) <= MaxMembers + 1 /\ MaxMembers \in Nat /\ Len(archive) >= 1
          BY <2>2, FaithfulShape, ArchiveShape
        <5> QED BY <1>4, <3>1, <5>1
      <4> HIDE DEF n
      <4>2. \A p \in Selected : \E i \in Filed : archive[i].path = p
        BY <3>4 DEF Selected
      <4>3. \A p \in Selected : f[p] \in Members /\ archive[f[p]].path = p
        BY <3>3, <4>2
      <4>4. f \in Injection(Selected, 1..n)
        <5>1. f \in [Selected -> 1..n]
          BY <4>1, <4>3
        <5> HIDE DEF f
        <5>2. \A p \in Selected, q \in Selected : f[p] = f[q] => p = q
          BY <4>3
        <5> QED BY <5>1, <5>2 DEF Injection, IsInjective
      <4>5. IsFiniteSet(1..n) /\ Cardinality(1..n) = n
        <5>1. IsFiniteSet(1..n) /\ Cardinality(1..n) = IF 1 > n THEN 0 ELSE n - 1 + 1
          BY <4>1, FS_Interval
        <5> QED BY <4>1, <5>1
      <4>6. Cardinality(Selected) <= n /\ IsFiniteSet(Selected)
        <5> HIDE DEF f
        <5> QED BY <4>4, <4>5, FS_Injection
      <4>7. Cardinality(Selected) \in Nat
        BY <4>6, FS_CardinalityType
      <4> QED BY <4>1, <4>6, <4>7
    <3> QED BY <3>5, <3>6, <3>7 DEF Verified
  <2> QED BY <1>0, <2>1, <2>2 DEF FaithfulIsAccepted, ReadEnd, Verify
<1> QED BY <1>1, <1>3, <1>6, <1>7, <1>8

LEMMA MemberKeeps == ASSUME TarInv, ReadMember PROVE TarInv'
<1> USE DEF TarInv
<1> DEFINE name == Now.path
           size == SizeOf(Now.content)
           taken == Now.type \in Regular /\ name \in Included
<1>0. /\ step = "read" /\ Now.type \notin Metadata \cup {"end"} /\ UNCHANGED <<archive, tree>>
      /\ Len(archive) \in Nat /\ DOMAIN archive = 1..Len(archive) /\ position \in Nat \ {0}
      /\ position <= Len(archive) /\ archive[Len(archive)].type = "end" /\ size \in Nat
      /\ Members' = Members /\ position \in Members
      /\ MaxMembers \in Nat /\ MaxFile \in Nat /\ MaxTotal \in Nat /\ bytes \in Nat
  <2>1. step = "read" /\ Now.type \notin Metadata \cup {"end"} /\ UNCHANGED <<archive, tree>>
    BY DEF ReadMember, Reject
  <2>2. position <= Len(archive) /\ archive[Len(archive)].type = "end"
    BY <2>1 DEF Structured, ReadingSteps
  <2>3. position \in DOMAIN archive
    BY <2>2, ArchiveShape
  <2> QED BY <2>1, <2>2, <2>3, ArchiveShape DEF Members, Now, TarShape
<1>1. /\ Before = {i \in Members : i < position} /\ seen = {archive[i].path : i \in Before}
      /\ DOMAIN files = {archive[i].path : i \in Taken} /\ DOMAIN files \subseteq seen
      /\ \A i \in Taken : files[archive[i].path] = archive[i].content
  BY <1>0 DEF Joined, ReadingSteps, Before, Taken
<1>2. CASE Reject
  <2>1. ASSUME Faithful PROVE ~ ReadMember
    <3>0. /\ Now.type \in Regular \cup {"directory"} /\ IsSafe(name)
          /\ \A i \in Members, j \in Members : archive[i].path = archive[j].path => i = j
          /\ {archive[i].path : i \in Filed} = DOMAIN tree
          /\ Now.type \in Regular => tree[name].content = Now.content /\ name \in DOMAIN tree
      <4>1. Now.type \in Regular => position \in Filed
        BY <1>0 DEF Filed, Now
      <4> QED BY <1>0, <2>1, <4>1, FaithfulShape DEF Now
    <3>1. name \notin seen
      <4> SUFFICES ASSUME name \in seen PROVE FALSE
        OBVIOUS
      <4>1. PICK i \in Members : i < position /\ archive[i].path = archive[position].path
        BY <1>1 DEF Now
      <4>2. i = position
        BY <1>0, <3>0, <4>1
      <4> QED BY <1>0, <4>1, <4>2
    <3>2. Now.type \in Regular \cup {"directory"}
      BY <3>0
    <3>3. ~ Conflicts(Now)
      \* Each member is a file of the tree or has one under it.
      <4>1. \A i \in Members : archive[i].path \in DOMAIN tree
                \/ \E p \in DOMAIN tree : Under(p, archive[i].path)
        <5>1. \A i \in Filed : archive[i].path \in DOMAIN tree
          BY <3>0
        <5>2. \A i \in Members \ Filed : \E p \in DOMAIN tree : Under(p, archive[i].path)
          BY <2>1, FaithfulShape
        <5> QED BY <5>1, <5>2
      <4>2. \A p \in DOMAIN tree, q \in DOMAIN tree : ~ Under(p, q)
        BY <2>1, FaithfulShape
      <4>3. /\ regular = {archive[i].path : i \in Filed \cap Before}
            /\ seen = {archive[i].path : i \in Before} /\ Before \subseteq Members
        BY <1>0, <1>1 DEF Joined, ReadingSteps
      <4>4. /\ \A i \in Members : archive[i].path \in Seq(STRING)
            /\ \A p \in DOMAIN tree : p \in Seq(STRING)
        BY ArchiveShape DEF Members
      <4>5. ASSUME NEW a \in regular, Under(name, a) PROVE FALSE
        <5>1. a \in DOMAIN tree /\ a \in Seq(STRING) /\ name \in Seq(STRING)
          BY <1>0, <3>0, <4>3, <4>4 DEF Now
        <5>2. name \notin DOMAIN tree
          BY <4>2, <4>5, <5>1
        <5>3. PICK p \in DOMAIN tree : Under(p, name)
          BY <1>0, <4>1, <5>2 DEF Now
        <5>4. Under(p, a)
          BY <4>4, <4>5, <5>1, <5>3, UnderIsTransitive
        <5> QED BY <4>2, <5>1, <5>4
      <4>6. ASSUME Now.type \in Regular, NEW i \in Before, Under(archive[i].path, name) PROVE FALSE
        <5>1. i \in Members /\ archive[i].path \in Seq(STRING) /\ name \in DOMAIN tree
          BY <3>0, <4>3, <4>4, <4>6
        <5>2. archive[i].path \notin DOMAIN tree
          BY <4>2, <4>6, <5>1
        <5>3. PICK p \in DOMAIN tree : Under(p, archive[i].path)
          BY <4>1, <5>1, <5>2
        <5>4. Under(p, name)
          BY <4>4, <4>6, <5>1, <5>3, UnderIsTransitive
        <5> QED BY <4>2, <5>1, <5>4
      <4> QED BY <4>3, <4>5, <4>6 DEF Conflicts
    <3>4. ASSUME taken PROVE ~ TooMuch(size)
      <4> DEFINE w == [p \in Selected |-> SizeOf(tree[p].content)]
                 v == [p \in DOMAIN files |-> SizeOf(files[p])]
      <4>1. name \in Selected /\ name \notin DOMAIN files /\ w[name] = size
        BY <1>0, <1>1, <3>0, <3>1, <3>4 DEF Selected
      <4>2. DOMAIN files \subseteq Selected /\ \A p \in DOMAIN files : w[p] = v[p]
        <5>1. ASSUME NEW p \in DOMAIN files
              PROVE  p \in Selected /\ tree[p].content = files[p]
          <6>1. PICK i \in Taken : p = archive[i].path
            BY <1>1
          <6>2. i \in Filed /\ archive[i].path \in Included
            BY <6>1 DEF Taken, Before, Filed
          <6>3. tree[archive[i].path].content = archive[i].content
            BY <2>1, <6>2, FaithfulShape
          <6> QED BY <1>1, <3>0, <6>1, <6>2, <6>3 DEF Selected
        <5> QED BY <5>1
      <4>3. IsFiniteSet(Selected) /\ IsFiniteSet(DOMAIN files) /\ \A p \in Selected : w[p] \in Nat
        BY ArchiveShape, FS_Subset DEF Selected, TarShape
      <4>4. /\ TotalOf(w, Selected) <= MaxTotal /\ size <= MaxFile
        <5>1. SizeOf(tree[name].content) <= MaxFile
          BY <2>1, <4>1, FaithfulShape
        <5> QED BY <2>1, <3>0, <3>4, <5>1, FaithfulShape
      <4> HIDE DEF w, size
      <4>5. bytes = TotalOf(w, DOMAIN files)
        <5>1. bytes = TotalOf(v, DOMAIN files)
          BY DEF FilesAreBounded
        <5>2. \A p \in DOMAIN files : w[p] \in Nat /\ v[p] = w[p]
          BY <4>2, <4>3
        <5> HIDE DEF v
        <5> QED BY <4>3, <5>1, <5>2, TotalOfSame
      <4>6. TotalOf(w, DOMAIN files \cup {name}) = bytes + size
        BY <4>1, <4>2, <4>3, <4>5, TotalGrows
      <4>7. TotalOf(w, DOMAIN files \cup {name}) <= TotalOf(w, Selected) /\ TotalOf(w, Selected) \in Nat
        BY <4>1, <4>2, <4>3, TotalOfPart
      <4> QED BY <1>0, <4>4, <4>6, <4>7 DEF TooMuch
    <3>5. ~ Reject \/ step' # step
      BY <1>0 DEF Reject
    <3> HIDE DEF name, size
    <3>6. position' = position + 1 => ~ Reject
      BY <1>0 DEF Reject
    <3>7. ReadMember => position' = position + 1
      BY <1>0, <3>0, <3>1, <3>2, <3>3, <3>4 DEF ReadMember, name, size
    <3> QED BY <1>2, <3>6, <3>7
  <2>2. FaithfulIsAccepted'
    <3>1. Faithful' = Faithful
      BY <1>0 DEF Faithful, Selected
    <3> QED BY <2>1, <3>1 DEF FaithfulIsAccepted
  <2>3. NoneUnderAnother' /\ FilesAreBounded'
    BY <1>0, <1>2, FoundKeeps DEF Reject
  <2>4. TarShape' /\ Scanned' /\ Structured' /\ Joined' /\ Compared'
    BY <1>0, <1>2 DEF Reject, TarShape, Scanned, Structured, Joined, Compared, found, ReadingSteps
  <2> QED BY <2>2, <2>3, <2>4
<1>3. CASE /\ name \notin seen /\ Now.type \in Regular \cup {"directory"} /\ ~ Conflicts(Now)
           /\ taken => ~ TooMuch(size)
           /\ position' = position + 1
           /\ seen' = seen \cup {name}
           /\ regular' = IF Now.type \in Regular THEN regular \cup {name} ELSE regular
           /\ files' = IF taken THEN Put(files, name, Now.content) ELSE files
           /\ bytes' = IF taken THEN bytes + size ELSE bytes
           /\ UNCHANGED <<step, pending>>
  <2>1. position + 1 <= Len(archive)
    <3>1. position # Len(archive)
      BY <1>0 DEF Now
    <3> DEFINE n == Len(archive)
    <3>2. n \in Nat /\ position \in Nat /\ position <= n /\ position # n
      BY <1>0, <3>1
    <3> HIDE DEF n
    <3>3. position + 1 <= n
      BY <3>2
    <3> QED BY <3>3 DEF n
  <2>2. Before' = Before \cup {position} /\ position \notin Before
    <3>1. \A i \in Members : i \in Nat
      BY <1>0 DEF Members
    <3>2. \A i \in Members : i < position + 1 <=> i < position \/ i = position
      BY <1>0, <3>1
    <3>3. Before' = {i \in Members : i < position + 1}
      BY <1>0, <1>3 DEF Before
    <3>4. ~ (position < position)
      BY <1>0
    <3> HIDE DEF Members
    <3> QED BY <1>0, <3>2, <3>3, <3>4 DEF Before
  <2>3. Taken' = IF taken THEN Taken \cup {position} ELSE Taken
    BY <1>0, <2>2 DEF Taken, Now
  <2>4. name \notin DOMAIN files
    BY <1>1, <1>3
  <2>5. TarShape'
    <3>1. CASE taken
      <4>1. /\ DOMAIN files' = DOMAIN files \cup {name}
            /\ \A p \in DOMAIN files' : files'[p] = IF p = name THEN Now.content ELSE files[p]
            /\ files' = [p \in DOMAIN files' |-> files'[p]]
        BY <1>3, <3>1 DEF Put
      <4>2. IsFiniteSet(DOMAIN files')
        BY <4>1, FS_AddElement DEF TarShape
      <4>3. \A p \in DOMAIN files' : SizeOf(files'[p]) \in Nat
        BY <1>0, <4>1 DEF TarShape
      <4> QED BY <1>0, <1>3, <3>1, <4>1, <4>2, <4>3 DEF TarShape
    <3>2. CASE ~ taken
      BY <1>0, <1>3, <3>2 DEF TarShape
    <3> QED BY <3>1, <3>2
  <2>6. Structured' /\ Scanned' /\ Compared' /\ FaithfulIsAccepted'
    BY <1>0, <1>3, <2>1 DEF Structured, Scanned, Compared, FaithfulIsAccepted, ReadingSteps
  <2>7. Joined'
    <3>1. regular' \subseteq seen'
      BY <1>3 DEF Joined
    <3>0. regular' = {archive[i].path : i \in Filed' \cap Before'}
      <4>1. Filed' = Filed /\ (position \in Filed <=> Now.type \in Regular)
        BY <1>0 DEF Filed, Now
      <4>2. regular = {archive[i].path : i \in Filed \cap Before}
        BY <1>0 DEF Joined, ReadingSteps
      <4> QED BY <1>3, <2>2, <4>1, <4>2 DEF Now
    <3>2. seen' = {archive[i].path : i \in Before'}
      BY <1>1, <1>3, <2>2 DEF Now
    <3>3. \A i \in Before', j \in Before' : archive[i].path = archive[j].path => i = j
      <4>1. \A i \in Before, j \in Before : archive[i].path = archive[j].path => i = j
        BY <1>0 DEF Joined, ReadingSteps
      <4>2. \A i \in Before : archive[i].path # archive[position].path
        BY <1>1, <1>3 DEF Now
      <4> QED BY <2>2, <4>1, <4>2
    <3>4. /\ DOMAIN files' = {archive[i].path : i \in Taken'}
          /\ \A i \in Taken' : files'[archive[i].path] = archive[i].content
      <4>1. CASE taken
        <5>1. /\ DOMAIN files' = DOMAIN files \cup {name}
              /\ \A p \in DOMAIN files' : files'[p] = IF p = name THEN Now.content ELSE files[p]
          BY <1>3, <4>1 DEF Put
        <5>2. \A i \in Taken : archive[i].path # name /\ archive[i].path \in DOMAIN files
          BY <1>1, <2>4
        <5> QED BY <1>1, <2>3, <4>1, <5>1, <5>2 DEF Now
      <4>2. CASE ~ taken
        BY <1>1, <1>3, <2>3, <4>2
      <4> QED BY <4>1, <4>2
    <3> QED BY <1>0, <1>3, <3>0, <3>1, <3>2, <3>3, <3>4 DEF Joined
  <2>8. NoneUnderAnother'
    <3>1. ~ Under(name, name)
      BY DEF Under, IsStrictPrefix
    <3>2. \A a \in regular : ~ Under(name, a)
      BY <1>3 DEF Conflicts
    <3>3. Now.type \in Regular => \A p \in seen : ~ Under(p, name)
      BY <1>3 DEF Conflicts
    <3> HIDE DEF name
    <3> QED BY <1>3, <3>1, <3>2, <3>3 DEF NoneUnderAnother
  <2>9. FilesAreBounded'
    <3>1. CASE taken
      <4> DEFINE w == [p \in DOMAIN files |-> SizeOf(files[p])]
                 v == [p \in DOMAIN files' |-> SizeOf(files'[p])]
      <4>1. /\ DOMAIN files' = DOMAIN files \cup {name}
            /\ \A p \in DOMAIN files' : files'[p] = IF p = name THEN Now.content ELSE files[p]
        BY <1>3, <3>1 DEF Put
      <4>2. v[name] = size /\ (\A p \in DOMAIN files : w[p] = v[p] /\ w[p] \in Nat)
        BY <2>4, <4>1 DEF TarShape
      <4>3. IsFiniteSet(DOMAIN files) /\ bytes = TotalOf(w, DOMAIN files)
        BY DEF TarShape, FilesAreBounded
      <4> HIDE DEF w, v
      <4>4. TotalOf(v, DOMAIN files) = bytes
        BY <4>2, <4>3, TotalOfSame
      <4>5. TotalOf(v, DOMAIN files \cup {name}) = bytes + size
        BY <1>0, <2>4, <4>2, <4>3, <4>4, TotalGrows
      <4>6. bytes' = TotalOf(v, DOMAIN files')
        BY <1>3, <3>1, <4>1, <4>5
      <4>7. size <= MaxFile /\ bytes + size <= MaxTotal
        BY <1>0, <1>3, <3>1 DEF TooMuch
      <4>8. \A p \in DOMAIN files' : SizeOf(files'[p]) <= MaxFile
        BY <4>1, <4>7 DEF FilesAreBounded
      <4> QED BY <1>3, <3>1, <4>6, <4>7, <4>8 DEF FilesAreBounded, v
    <3>2. CASE ~ taken
      BY <1>3, <3>2 DEF FilesAreBounded
    <3> QED BY <3>1, <3>2
  <2> QED BY <2>5, <2>6, <2>7, <2>8, <2>9
<1> QED BY <1>0, <1>2, <1>3 DEF ReadMember

LEMMA TarStep == ASSUME TarInv, [TarNext]_tarVars PROVE TarInv'
<1>1. CASE UNCHANGED tarVars
  <2>1. UNCHANGED <<archive, tree, step, position, pending>> /\ UNCHANGED found
    BY <1>1 DEF tarVars, found
  <2>2. /\ Before' = Before /\ Taken' = Taken /\ Members' = Members /\ Filed' = Filed
        /\ Faithful' = Faithful
    BY <2>1 DEF Before, Taken, Members, Filed, Faithful, Selected
  <2>3. NoneUnderAnother' /\ FilesAreBounded'
    BY <2>1, FoundKeeps
  <2> QED BY <2>1, <2>2, <2>3 DEF TarInv, TarShape, Scanned, Structured, Joined, Compared, Selected,
                                 FaithfulIsAccepted, found
<1> QED BY <1>1, ScanKeeps, SkipKeeps, MemberKeeps, EndKeeps DEF TarNext

LEMMA TarInitially == TarInit => TarInv
<1> SUFFICES ASSUME TarInit PROVE TarInv
  OBVIOUS
<1>1. DOMAIN files = {} /\ files = [p \in DOMAIN files |-> files[p]]
  BY DEF TarInit
<1>2. TarShape
  <2>1. IsFiniteSet(DOMAIN files)
    BY <1>1, FS_EmptySet
  <2>2. \A p \in DOMAIN files : SizeOf(files[p]) \in Nat
    BY <1>1
  <2>3. archive \in Archives /\ tree \in Trees /\ step = "scan"
    BY DEF TarInit
  <2>4. position \in Nat \ {0} /\ bytes \in Nat
    BY DEF TarInit
  <2>5. pending \in BOOLEAN
    BY DEF TarInit
  <2> QED BY <1>1, <2>1, <2>2, <2>3, <2>4, <2>5 DEF TarShape, ReadingSteps
<1>3. FilesAreBounded
  <2>1. TotalOf([p \in DOMAIN files |-> SizeOf(files[p])], DOMAIN files) = 0
    BY <1>1, TotalOfNone
  <2>2. MaxTotal \in Nat
    BY <1>2, ArchiveShape
  <2> QED BY <1>1, <2>1, <2>2 DEF FilesAreBounded, TarInit
<1>4. Len(archive) \in Nat
  BY <1>2, ArchiveShape
<1>5. Scanned /\ Structured /\ Joined /\ NoneUnderAnother /\ Compared /\ FaithfulIsAccepted
  BY <1>4 DEF TarInit, Scanned, Structured, Joined, NoneUnderAnother, Compared, FaithfulIsAccepted,
              ReadingSteps
<1> QED BY <1>2, <1>3, <1>5 DEF TarInv

LEMMA TarInvGives == TarInv => ArchiveIsCommit
<1> SUFFICES ASSUME TarInv PROVE ArchiveIsCommit
  OBVIOUS
<1> USE DEF TarInv
<1>1. Len(archive) \in Nat /\ DOMAIN archive = 1..Len(archive)
  BY ArchiveShape
<1>2. MetadataIsBound
  <2> SUFFICES ASSUME step \in ReadingSteps, NEW i \in DOMAIN archive, archive[i].type \in Local
               PROVE  i + 1 \in Members
    BY DEF MetadataIsBound, ReadingSteps
  <2>1. i # Len(archive)
    BY DEF Structured, Local
  <2> QED BY <1>1, <2>1 DEF Structured
<1>3. EntriesAreTree
  <2> SUFFICES ASSUME step \in {"verify", "accepted"}, NEW i \in Members, NEW j \in Members,
                      archive[i].path = archive[j].path
               PROVE  i = j
    BY DEF EntriesAreTree, NoneUnderAnother
  <2>1. position = Len(archive) /\ archive[Len(archive)].type = "end"
    BY DEF Structured, ReadingSteps
  <2>2. \A k \in Members : k \in 1..Len(archive) /\ k # Len(archive)
    BY <1>1, <2>1 DEF Members
  <2>3. i \in Before /\ j \in Before
    BY <1>1, <2>1, <2>2 DEF Before
  <2> QED BY <2>3 DEF Joined, ReadingSteps
<1>4. SnapshotIsCommit
  <2> SUFFICES ASSUME step = "accepted" PROVE files = [p \in Selected |-> tree[p].content]
    BY DEF SnapshotIsCommit
  <2>1. Selected = DOMAIN files /\ (\A p \in Selected : files[p] = tree[p].content)
    BY DEF Compared
  <2>2. files = [p \in DOMAIN files |-> files[p]]
    BY DEF TarShape
  <2> QED BY <2>1, <2>2
<1> QED BY <1>2, <1>3, <1>4 DEF ArchiveIsCommit

(* The files of an accepted archive are those of the tree, each with its   *)
(* content, within the limits, and the archive of a tree is accepted       *)
(* (git_archive.py: _validate_tar_structure, _read_archive,                *)
(* _verify_archive_provenance).                                            *)
THEOREM TarIsCommit == TarSpec => []ArchiveIsCommit
<1>1. TarSpec => []TarInv
  BY TarInitially, TarStep, PTL DEF TarSpec
<1> QED BY <1>1, TarInvGives, PTL

---------------------------------------------------------------------------
(***************************************************************************)
(* A pattern and a path.  What has been visited can be reached by cutting the*)
(* path, and what has been taken has passed on all it leads to.            *)
(***************************************************************************)

(* What a chain of steps from x computes, the n-th step next[n]. *)
Steps(m, X) == [1..m -> [X -> X]]

Chains(m, X, x, next) ==
    {g \in [0..m -> X] : g[0] = x /\ \A n \in 1..m : g[n] = next[n][g[n - 1]]}

(* A function on an initial segment of the numbers is defined by recursion. *)
LEMMA RecursionExists ==
    ASSUME NEW m \in Nat, NEW X, NEW x \in X, NEW next \in Steps(m, X)
    PROVE  Chains(m, X, x, next) # {}
<1> DEFINE Good(k, g) == g[0] = x /\ \A n \in 1..k : g[n] = next[n][g[n - 1]]
           Made(k) == \E g \in [0..k -> X] : Good(k, g)
           A == {k \in 0..m : ~ Made(k)}
<1> SUFFICES A = {}
  <2> HIDE DEF Made
  <2>1. A = {} => Made(m)
    OBVIOUS
  <2> USE DEF Made
  <2> QED BY <2>1 DEF Chains
<1> SUFFICES ASSUME A # {} PROVE FALSE
  OBVIOUS
<1>1. PICK k \in A : \A j \in A : k <= j
  <2>1. A \subseteq Nat
    OBVIOUS
  <2> HIDE DEF A
  <2> QED BY <2>1, Least
<1>9. k \in 0..m /\ ~ Made(k) /\ \A j \in 0..m : j < k => Made(j)
  <2> HIDE DEF Made
  <2>1. k \in 0..m /\ ~ Made(k)
    BY <1>1
  <2>2. ASSUME NEW j \in 0..m, j < k PROVE Made(j)
    BY <1>1, <2>1, <2>2
  <2> QED BY <2>1, <2>2 DEF Steps
<1>2. CASE k = 0
  <2>1. Good(0, [n \in 0..0 |-> x]) /\ [n \in 0..0 |-> x] \in [0..0 -> X]
    OBVIOUS
  <2> QED BY <1>9, <1>2, <2>1
<1>3. CASE k # 0
  <2>0. k - 1 \in 0..m /\ k - 1 < k /\ k \in 1..m
    BY <1>9, <1>3 DEF Steps
  <2>1. k - 1 \in 0..m /\ Made(k - 1) /\ k \in 1..m
    <3> HIDE DEF Made
    <3> QED BY <1>9, <2>0
  <2>2. PICK g \in [0..k - 1 -> X] : Good(k - 1, g)
    BY <2>1
  <2> DEFINE h == [n \in 0..k |-> IF n = k THEN next[k][g[k - 1]] ELSE g[n]]
  <2>3. g[k - 1] \in X /\ next[k][g[k - 1]] \in X
    BY <2>1, <2>2 DEF Steps
  <2>4. h \in [0..k -> X]
    BY <2>1, <2>2, <2>3
  <2>5. Good(k, h)
    <3>1. h[0] = x /\ h[k] = next[k][h[k - 1]]
      BY <1>3, <2>1, <2>2
    <3>2. ASSUME NEW n \in 1..k - 1 PROVE h[n] = next[n][h[n - 1]]
      BY <2>1, <2>2 DEF Steps
    <3>3. \A n \in 1..k : n = k \/ n \in 1..k - 1
      BY <2>1
    <3> HIDE DEF h
    <3> QED BY <3>1, <3>2, <3>3
  <2> HIDE DEF h, Good
  <2> QED BY <1>9, <2>4, <2>5
<1> QED BY <1>2, <1>3

(* canonical_source_path leaves a path of segments. *)
LEMMA CanonicalIsPath ==
    ASSUME NEW p \in Seq(Segments)
    PROVE  Canonical(p) \in Seq(Segments)
<1> DEFINE Paths == Seq(Segments)
           m == Len(p)
           Silent(n) == p[n] \in {"", "."}
           Path(g) == /\ g[0] = <<>>
                       /\ \A n \in 1..m : g[n] = IF Silent(n) THEN g[n - 1] ELSE Append(g[n - 1], p[n])
           Rule(g) == [n \in 0..m |-> IF n = 0 THEN <<>>
                                      ELSE IF Silent(n) THEN g[n - 1] ELSE Append(g[n - 1], p[n])]
<1>1. Canonical(p) = (CHOOSE g : g = Rule(g))[m]
  BY DEF Canonical
<1>2. m \in Nat /\ \A n \in 1..m : p[n] \in Segments
  OBVIOUS
<1>3. <<>> \in Paths /\ \A q \in Paths, e \in Segments : Append(q, e) \in Paths
  OBVIOUS
<1> HIDE DEF Paths, m, Silent
<1>4. \E g : g = Rule(g)
  <2> DEFINE next == [n \in 1..m |-> [q \in Paths |-> IF Silent(n) THEN q ELSE Append(q, p[n])]]
  <2>1. next \in [1..m -> [Paths -> Paths]]
    BY <1>2, <1>3
  <2>2. PICK g \in [0..m -> Paths] : g[0] = <<>> /\ \A n \in 1..m : g[n] = next[n][g[n - 1]]
    <3>1. next \in Steps(m, Paths)
      BY <2>1 DEF Steps
    <3> HIDE DEF next
    <3>2. Chains(m, Paths, <<>>, next) # {}
      BY <1>2, <1>3, <3>1, RecursionExists
    <3> QED BY <3>2 DEF Chains
  <2>3. ASSUME NEW n \in 0..m
        PROVE  g[n] = IF n = 0 THEN <<>> ELSE IF Silent(n) THEN g[n - 1] ELSE Append(g[n - 1], p[n])
    <3>1. CASE n = 0
      BY <2>2, <3>1
    <3>2. CASE n # 0
      <4>1. n \in 1..m /\ n - 1 \in 0..m
        BY <1>2, <3>2
      <4>2. g[n - 1] \in Paths
        BY <4>1
      <4> QED BY <2>2, <3>2, <4>1, <4>2
    <3> QED BY <3>1, <3>2
  <2>4. g = Rule(g)
    BY <2>3
  <2> QED BY <2>4
<1> DEFINE g == CHOOSE g : g = Rule(g)
<1>5. g = Rule(g)
  BY <1>4
<1> HIDE DEF g
<1>6. Path(g)
  <2>1. \A n \in 0..m : g[n] = IF n = 0 THEN <<>> ELSE IF Silent(n) THEN g[n - 1] ELSE Append(g[n - 1], p[n])
    BY <1>5
  <2>2. \A n \in 1..m : n \in 0..m /\ n # 0
    BY <1>2
  <2>3. 0 \in 0..m
    BY <1>2
  <2> HIDE DEF Rule
  <2> QED BY <2>1, <2>2, <2>3
<1> HIDE DEF Rule
<1> DEFINE A == {n \in 0..m : g[n] \notin Paths}
<1>7. A = {}
  <2> SUFFICES ASSUME A # {} PROVE FALSE
    OBVIOUS
  <2>1. PICK n \in A : \A j \in A : n <= j
    <3>1. A \subseteq Nat
      BY <1>2
    <3> HIDE DEF A
    <3> QED BY <3>1, Least
  <2>2. n # 0
    BY <1>3, <1>6, <2>1
  <2>3. n \in 1..m /\ n - 1 \in 0..m
    BY <1>2, <2>1, <2>2
  <2>4. n - 1 \notin A
    BY <1>2, <2>1, <2>3
  <2>5. g[n - 1] \in Paths /\ p[n] \in Segments
    BY <1>2, <2>3, <2>4
  <2>6. g[n] \in Paths
    BY <1>3, <1>6, <2>3, <2>5
  <2> QED BY <2>1, <2>6
<1>8. g[m] \in Paths
  BY <1>2, <1>7
<1> QED BY <1>1, <1>8 DEF g, Paths

---------------------------------------------------------------------------
(* Sequences that hold each element once. *)
OneEach(s) == \A i, j \in 1..Len(s) : s[i] = s[j] => i = j

LEMMA OneEachCounts ==
    ASSUME NEW S, NEW s \in Seq(S), OneEach(s)
    PROVE  IsFiniteSet(ToSet(s)) /\ Cardinality(ToSet(s)) = Len(s)
<1> DEFINE k == Len(s)
           f == [i \in 1..k |-> s[i]]
<1>1. k \in Nat /\ DOMAIN s = 1..k
  OBVIOUS
<1>2. f \in Bijection(1..k, ToSet(s))
  <2>1. f \in Injection(1..k, ToSet(s))
    BY <1>1 DEF Injection, IsInjective, ToSet, OneEach
  <2>2. f \in Surjection(1..k, ToSet(s))
    BY <1>1 DEF Surjection, ToSet
  <2> QED BY <2>1, <2>2 DEF Bijection
<1> HIDE DEF k, f
<1>3. ExistsBijection(1..k, ToSet(s))
  BY <1>2 DEF ExistsBijection
<1>4. IsFiniteSet(1..k) /\ Cardinality(1..k) = k
  <2>1. 1 \in Int /\ k \in Int /\ (1 > k => k = 0)
    BY <1>1
  <2>2. IsFiniteSet(1..k)
    BY <2>1, FS_Interval
  <2>3. Cardinality(1..k) = IF 1 > k THEN 0 ELSE k - 1 + 1
    BY <2>1, FS_Interval
  <2> QED BY <1>1, <2>1, <2>2, <2>3
<1>5. IsFiniteSet(ToSet(s)) /\ Cardinality(ToSet(s)) = Cardinality(1..k)
  BY <1>3, <1>4, FS_Bijection
<1> QED BY <1>4, <1>5 DEF k

(* The last element is taken away and new ones are appended. *)
LEMMA LastReplaced ==
    ASSUME NEW S, NEW s \in Seq(S), s # <<>>, OneEach(s),
           NEW t \in Seq(S), OneEach(t), ToSet(s) \cap ToSet(t) = {}
    PROVE  /\ Front(s) \o t \in Seq(S) /\ OneEach(Front(s) \o t)
           /\ ToSet(Front(s) \o t) = (ToSet(s) \ {Last(s)}) \cup ToSet(t)
           /\ Len(Front(s) \o t) = Len(s) - 1 + Len(t)
           /\ Last(s) \in ToSet(s)
<1> DEFINE k == Len(s) - 1
           l == Len(t)
           f == Front(s)
           u == f \o t
<1>1. k \in Nat /\ l \in Nat /\ Len(s) = k + 1 /\ DOMAIN s = 1..k + 1 /\ DOMAIN t = 1..l
  OBVIOUS
<1>2. f \in Seq(S) /\ Len(f) = k /\ \A i \in 1..k : f[i] = s[i]
  <2>1. f = SubSeq(s, 1, k)
    BY DEF Front
  <2>2. \A i \in 1..k : s[i] \in S
    BY <1>1
  <2> HIDE DEF f, k
  <2>3. /\ SubSeq(s, 1, k) \in Seq(S)
        /\ Len(SubSeq(s, 1, k)) = IF 1 <= k THEN k - 1 + 1 ELSE 0
        /\ \A i \in 1..k - 1 + 1 : SubSeq(s, 1, k)[i] = s[1 + i - 1]
    <3>1. 1 \in Int /\ k \in Int
      BY <1>1
    <3> QED BY <2>2, <3>1, SubSeqProperties
  <2>4. k - 1 + 1 = k /\ (~(1 <= k) => k = 0) /\ \A i \in 1..k : 1 + i - 1 = i
    BY <1>1
  <2> QED BY <2>1, <2>3, <2>4
<1>3. u \in Seq(S) /\ Len(u) = k + l /\ DOMAIN u = 1..k + l
  <2>1. u \in Seq(S) /\ Len(u) = Len(f) + Len(t)
    BY <1>2, ConcatProperties
  <2>2. Len(f) = k /\ Len(t) = l /\ k + l \in Nat
    BY <1>1, <1>2
  <2> HIDE DEF u, f, k, l
  <2>3. u \in Seq(S) /\ Len(u) = k + l
    BY <2>1, <2>2
  <2> QED BY <2>2, <2>3
<1>4. \A i \in 1..k + l : u[i] = IF i <= k THEN s[i] ELSE t[i - k]
  <2>1. \A i \in 1..Len(f) + Len(t) : u[i] = IF i <= Len(f) THEN f[i] ELSE t[i - Len(f)]
    BY <1>2, ConcatProperties
  <2>2. Len(f) = k /\ Len(t) = l /\ k \in Nat /\ l \in Nat
    BY <1>1, <1>2
  <2> HIDE DEF u, f, k, l
  <2>3. \A i \in 1..k + l : u[i] = IF i <= k THEN f[i] ELSE t[i - k]
    BY <2>1, <2>2
  <2>4. \A i \in 1..k + l : i <= k => i \in 1..k
    BY <2>2
  <2> QED BY <1>2, <2>3, <2>4
<1>5. Last(s) = s[k + 1]
  BY <1>1 DEF Last
<1>6. /\ \A i, j \in 1..k + 1 : s[i] = s[j] => i = j
      /\ \A i, j \in 1..l : t[i] = t[j] => i = j
      /\ \A i \in 1..k + 1, j \in 1..l : s[i] # t[j]
  <2>1. /\ \A i, j \in 1..k + 1 : s[i] = s[j] => i = j
        /\ \A i, j \in 1..l : t[i] = t[j] => i = j
    BY <1>1 DEF OneEach
  <2>2. ASSUME NEW i \in 1..k + 1, NEW j \in 1..l PROVE s[i] # t[j]
    <3> HIDE DEF k, l
    <3>1. s[i] \in ToSet(s) /\ t[j] \in ToSet(t)
      BY <1>1 DEF ToSet
    <3> QED BY <3>1
  <2> HIDE DEF k, l
  <2> QED BY <2>1, <2>2
<1> HIDE DEF u, f, k, l
<1>7. OneEach(u)
  <2> SUFFICES ASSUME NEW i \in 1..k + l, NEW j \in 1..k + l, u[i] = u[j] PROVE i = j
    BY <1>3 DEF OneEach
  <2>1. \A h \in 1..k + l : IF h <= k THEN h \in 1..k + 1 ELSE h - k \in 1..l
    BY <1>1
  <2>2. CASE i <= k /\ j <= k
    BY <1>4, <1>6, <2>1, <2>2
  <2>3. CASE i <= k /\ ~(j <= k)
    BY <1>4, <1>6, <2>1, <2>3
  <2>4. CASE ~(i <= k) /\ j <= k
    BY <1>4, <1>6, <2>1, <2>4
  <2>5. CASE ~(i <= k) /\ ~(j <= k)
    <3>1. i - k = j - k
      BY <1>4, <1>6, <2>1, <2>5
    <3> QED BY <1>1, <3>1
  <2> QED BY <2>2, <2>3, <2>4, <2>5
<1>8. ToSet(u) = (ToSet(s) \ {Last(s)}) \cup ToSet(t)
  <2>0. /\ ToSet(u) = {u[i] : i \in 1..k + l}
        /\ ToSet(s) = {s[i] : i \in 1..k + 1}
        /\ ToSet(t) = {t[i] : i \in 1..l}
    BY <1>1, <1>3 DEF ToSet
  <2>1. ASSUME NEW e \in ToSet(u) PROVE e \in (ToSet(s) \ {Last(s)}) \cup ToSet(t)
    <3>1. PICK i \in 1..k + l : e = u[i]
      BY <2>0
    <3>2. CASE i <= k
      <4>1. i \in 1..k + 1 /\ i # k + 1 /\ k + 1 \in 1..k + 1
        BY <1>1, <3>2
      <4> QED BY <1>4, <1>5, <1>6, <2>0, <3>1, <3>2, <4>1
    <3>3. CASE ~(i <= k)
      <4>1. i - k \in 1..l
        BY <1>1, <3>3
      <4> QED BY <1>4, <2>0, <3>1, <3>3, <4>1
    <3> QED BY <3>2, <3>3
  <2>2. ASSUME NEW e \in ToSet(s) \ {Last(s)} PROVE e \in ToSet(u)
    <3>1. PICK i \in 1..k + 1 : e = s[i]
      BY <2>0
    <3>2. i \in 1..k + l /\ i <= k
      BY <1>1, <1>5, <2>2, <3>1
    <3> QED BY <1>4, <2>0, <3>1, <3>2
  <2>3. ASSUME NEW e \in ToSet(t) PROVE e \in ToSet(u)
    <3>1. PICK i \in 1..l : e = t[i]
      BY <2>0
    <3>2. i + k \in 1..k + l /\ ~(i + k <= k) /\ (i + k) - k = i
      BY <1>1
    <3> QED BY <1>4, <2>0, <3>1, <3>2
  <2> QED BY <2>1, <2>2, <2>3
<1>9. Last(s) \in ToSet(s)
  BY <1>1, <1>5 DEF ToSet
<1> QED BY <1>1, <1>3, <1>7, <1>8, <1>9 DEF u, f

---------------------------------------------------------------------------
Grid == (1..Len(pattern) + 1) \X (1..Len(path) + 1)

(* A segment of the pattern fits its stretch of the path. *)
Fits(start, p) ==
    IF pattern[p] = "**" THEN start[p] <= start[p + 1]
    ELSE start[p + 1] = start[p] + 1 /\ SegmentMatches(path[start[p]], pattern[p])

Cuts == [1..Len(pattern) + 1 -> 1..Len(path) + 1]

(* The start of the path, up to s, can be cut by the start of the pattern, up to p. *)
Cut(start, p, s) ==
    /\ start[1] = 1
    /\ \A q \in 1..p - 1 : Fits(start, q)
    /\ IF p <= Len(pattern) /\ pattern[p] = "**" THEN start[p] <= s ELSE start[p] = s

Reached(p, s) == \E start \in Cuts : Cut(start, p, s)

Leads(p, s, t) ==
    IF pattern[p] = "**"
    THEN t = <<p + 1, s>> \/ (s <= Len(path) /\ t = <<p, s + 1>>)
    ELSE Literal(p, s) /\ t = <<p + 1, s + 1>>

(* A state that has been taken: it was not the last one, and all it leads to has been seen. *)
Done(p, s) ==
    /\ ~ (p = Len(pattern) + 1 /\ s = Len(path) + 1)
    /\ p <= Len(pattern) => \A t \in Grid : Leads(p, s, t) => t \in visited

PatternShape ==
    /\ pattern \in Seq(PatternSegments) \ {<<>>} /\ path \in Seq(Segments)
    /\ states \in Seq(Grid) /\ OneEach(states)
    /\ visited \subseteq Grid /\ <<1, 1>> \in visited /\ ToSet(states) \subseteq visited
    /\ IsFiniteSet(visited) /\ popped \in Nat /\ popped + Len(states) = Cardinality(visited)
    /\ result \in {"unknown", "yes", "no", "refused"}

EachReached == \A p \in 1..Len(pattern) + 1, s \in 1..Len(path) + 1 : <<p, s>> \in visited => Reached(p, s)

TakenAreDone ==
    result \in {"unknown", "no"} =>
        \A p \in 1..Len(pattern) + 1, s \in 1..Len(path) + 1 :
            <<p, s>> \in visited \ ToSet(states) => Done(p, s)

PatternInv ==
    /\ PatternShape /\ EachReached /\ TakenAreDone
    /\ result = "yes" => Reached(Len(pattern) + 1, Len(path) + 1)
    /\ result = "no" => states = <<>>

(* A cut of the whole path is what the pattern means. *)
LEMMA CutMeans ==
    ASSUME pattern \in Seq(PatternSegments), path \in Seq(Segments)
    PROVE  Means <=> Reached(Len(pattern) + 1, Len(path) + 1)
<1>1. Len(pattern) \in Nat /\ Len(path) \in Nat
  OBVIOUS
<1> DEFINE n == Len(pattern)
           m == Len(path)
<1>2. Means <=> \E start \in Cuts : /\ start[1] = 1 /\ start[n + 1] = m + 1
                                    /\ \A p \in 1..n : Fits(start, p)
  BY DEF Means, Cuts, Fits
<1>3. \A start : Cut(start, n + 1, m + 1) <=>
                   (/\ start[1] = 1 /\ start[n + 1] = m + 1
                    /\ \A p \in 1..n : Fits(start, p))
  <2>1. ~(n + 1 <= n) /\ n + 1 - 1 = n
    BY <1>1
  <2> HIDE DEF n, m
  <2> QED BY <2>1 DEF Cut, n
<1> HIDE DEF n, m
<1>4. Reached(n + 1, m + 1) <=> \E start \in Cuts : Cut(start, n + 1, m + 1)
  BY DEF Reached
<1> QED BY <1>2, <1>3, <1>4 DEF n, m

(* A state leads to states that are reached as well. *)
LEMMA ReachedOn ==
    ASSUME pattern \in Seq(PatternSegments), path \in Seq(Segments),
           NEW p \in 1..Len(pattern), NEW s \in 1..Len(path) + 1, Reached(p, s),
           NEW pp \in 1..Len(pattern) + 1, NEW ss \in 1..Len(path) + 1,
           Leads(p, s, <<pp, ss>>)
    PROVE  Reached(pp, ss)
<1> DEFINE n == Len(pattern)
           m == Len(path)
<1>1. n \in Nat /\ m \in Nat
  OBVIOUS
<1>2. PICK start \in Cuts : Cut(start, p, s)
  BY DEF Reached
<1>3. \/ pattern[p] = "**" /\ pp = p + 1 /\ ss = s
      \/ pattern[p] = "**" /\ pp = p /\ ss = s + 1
      \/ pattern[p] # "**" /\ SegmentMatches(path[s], pattern[p]) /\ pp = p + 1 /\ ss = s + 1
  BY DEF Leads, Literal
<1>4. start \in [1..n + 1 -> 1..m + 1]
  BY DEF Cuts
<1> HIDE DEF n, m
<1>5. p \in 1..n /\ s \in 1..m + 1 /\ pp \in 1..n + 1 /\ ss \in 1..m + 1
  BY DEF n, m
<1>6. /\ start[1] = 1
      /\ \A q \in 1..p - 1 : Fits(start, q)
      /\ IF pattern[p] = "**" THEN start[p] <= s ELSE start[p] = s
  BY <1>1, <1>2, <1>5 DEF Cut, n
<1>7. p \in Nat /\ p >= 1 /\ p <= n /\ s \in Nat /\ start[p] \in Nat
  BY <1>1, <1>4, <1>5
<1>8. CASE pattern[p] = "**" /\ pp = p /\ ss = s + 1
  <2>1. start[p] <= ss
    BY <1>6, <1>7, <1>8
  <2>2. Cut(start, pp, ss)
    BY <1>6, <1>7, <1>8, <2>1 DEF Cut, n
  <2> QED BY <2>2 DEF Reached
<1>9. CASE pp = p + 1 /\ (pattern[p] = "**" => ss = s)
           /\ (pattern[p] # "**" => ss = s + 1 /\ SegmentMatches(path[s], pattern[p]))
  <2> DEFINE next == [start EXCEPT ![pp] = ss]
  <2>1. next \in Cuts
    BY <1>4, <1>5 DEF Cuts, n, m
  <2>2. next[pp] = ss /\ \A q \in 1..p : next[q] = start[q]
    BY <1>1, <1>4, <1>5, <1>7, <1>9
  <2> HIDE DEF next
  <2>3. next[1] = 1
    BY <1>6, <1>7, <2>2
  <2>4. ASSUME NEW q \in 1..p - 1 PROVE Fits(next, q)
    <3>1. q \in 1..p /\ q + 1 \in 1..p
      BY <1>7
    <3> QED BY <1>6, <2>2, <3>1 DEF Fits
  <2>5. Fits(next, p)
    <3>1. p \in 1..p
      BY <1>7
    <3>2. next[p] = start[p] /\ next[p + 1] = ss
      BY <1>9, <2>2, <3>1
    <3> QED BY <1>6, <1>9, <3>2 DEF Fits
  <2>6. \A q \in 1..pp - 1 : q \in 1..p - 1 \/ q = p
    BY <1>7, <1>9
  <2>7. ss \in Nat /\ ss <= ss
    BY <1>1, <1>5
  <2>8. Cut(next, pp, ss)
    BY <2>2, <2>3, <2>4, <2>5, <2>6, <2>7 DEF Cut
  <2> QED BY <2>1, <2>8 DEF Reached
<1> QED BY <1>3, <1>8, <1>9

(* When every state seen has been taken, no cut of the whole path is left. *)
LEMMA NoCutLeft ==
    ASSUME pattern \in Seq(PatternSegments), path \in Seq(Segments),
           <<1, 1>> \in visited,
           \A p \in 1..Len(pattern) + 1, s \in 1..Len(path) + 1 :
               <<p, s>> \in visited => Done(p, s)
    PROVE  ~ Means
<1> DEFINE n == Len(pattern)
           m == Len(path)
<1>1. n \in Nat /\ m \in Nat
  OBVIOUS
<1> SUFFICES ASSUME Means PROVE FALSE
  OBVIOUS
<1>2. PICK start \in [1..n + 1 -> 1..m + 1] :
          /\ start[1] = 1 /\ start[n + 1] = m + 1
          /\ \A p \in 1..n : Fits(start, p)
  BY DEF Means, Fits
<1>3. \A p \in 1..n + 1, s \in 1..m + 1 :
          <<p, s>> \in visited =>
             /\ ~ (p = n + 1 /\ s = m + 1)
             /\ p <= n => \A t \in (1..n + 1) \X (1..m + 1) : Leads(p, s, t) => t \in visited
  BY DEF Done, Grid
<1>4. \A p \in 1..n, s \in 1..m + 1 :
          /\ (pattern[p] = "**" => Leads(p, s, <<p + 1, s>>) /\ (s <= m => Leads(p, s, <<p, s + 1>>)))
          /\ (pattern[p] # "**" /\ s <= m /\ SegmentMatches(path[s], pattern[p])
                => Leads(p, s, <<p + 1, s + 1>>))
  BY DEF Leads, Literal
<1>5. \A p \in 1..n : IF pattern[p] = "**" THEN start[p] <= start[p + 1]
                      ELSE start[p + 1] = start[p] + 1 /\ SegmentMatches(path[start[p]], pattern[p])
  BY <1>2 DEF Fits
<1> HIDE DEF n, m
<1>6. ASSUME NEW p \in 1..n, NEW s \in 1..m + 1, <<p, s>> \in visited,
             NEW t \in (1..n + 1) \X (1..m + 1), Leads(p, s, t)
      PROVE  t \in visited
  <2>1. p \in 1..n + 1 /\ p <= n
    BY <1>1
  <2> QED BY <1>3, <1>6, <2>1
<1>7. ASSUME NEW p \in 1..n, pattern[p] = "**", <<p, start[p]>> \in visited
      PROVE  <<p, start[p + 1]>> \in visited
  <2> DEFINE a == start[p]
             b == start[p + 1]
             Missed == {k \in a..b : <<p, k>> \notin visited}
  <2>1. a \in 1..m + 1 /\ b \in 1..m + 1 /\ a <= b /\ p \in 1..n + 1
    BY <1>1, <1>2, <1>5, <1>7
  <2>2. <<p, a>> \in visited
    BY <1>7
  <2> HIDE DEF a, b
  <2>3. Missed = {}
    <3> SUFFICES ASSUME Missed # {} PROVE FALSE
      OBVIOUS
    <3>1. PICK k \in Missed : \A j \in Missed : k <= j
      <4>1. Missed \subseteq Nat
        BY <1>1, <2>1
      <4> HIDE DEF Missed
      <4> QED BY <4>1, Least
    <3>2. k \in a..b /\ k # a /\ <<p, k>> \notin visited
      BY <2>2, <3>1
    <3>3. k - 1 \in a..b /\ k - 1 \in 1..m + 1 /\ k - 1 <= m /\ k \in 1..m + 1 /\ k - 1 + 1 = k
      BY <1>1, <2>1, <3>2
    <3>4. <<p, k - 1>> \in visited
      <4>1. ~(k <= k - 1)
        BY <1>1, <2>1, <3>2
      <4> QED BY <3>1, <3>3, <4>1
    <3>5. Leads(p, k - 1, <<p, k>>)
      BY <1>4, <1>7, <3>3
    <3>6. <<p, k>> \in (1..n + 1) \X (1..m + 1)
      BY <2>1, <3>3
    <3>7. <<p, k>> \in visited
      BY <1>6, <3>3, <3>4, <3>5, <3>6
    <3> QED BY <3>2, <3>7
  <2>4. b \in a..b
    BY <1>1, <2>1
  <2> QED BY <2>3, <2>4 DEF b
<1> DEFINE A == {p \in 1..n + 1 : <<p, start[p]>> \notin visited}
<1>8. A = {}
  <2> SUFFICES ASSUME A # {} PROVE FALSE
    OBVIOUS
  <2>1. PICK q \in A : \A j \in A : q <= j
    <3>1. A \subseteq Nat
      BY <1>1
    <3> HIDE DEF A
    <3> QED BY <3>1, Least
  <2>2. q \in 1..n + 1 /\ q # 1 /\ <<q, start[q]>> \notin visited
    BY <1>2, <2>1
  <2> DEFINE p == q - 1
  <2>3. p \in 1..n /\ p \in 1..n + 1 /\ p + 1 = q /\ ~(q <= p)
    BY <1>1, <2>2
  <2> HIDE DEF p
  <2>4. <<p, start[p]>> \in visited
    BY <2>1, <2>3
  <2>5. start[p] \in 1..m + 1 /\ start[q] \in 1..m + 1
    BY <1>2, <2>2, <2>3
  <2>6. <<q, start[q]>> \in (1..n + 1) \X (1..m + 1)
    BY <2>2, <2>5
  <2>7. CASE pattern[p] = "**"
    <3>1. <<p, start[q]>> \in visited
      BY <1>7, <2>3, <2>4, <2>7
    <3>2. Leads(p, start[q], <<q, start[q]>>)
      BY <1>4, <2>3, <2>5, <2>7
    <3> QED BY <1>6, <2>2, <2>3, <2>5, <2>6, <3>1, <3>2
  <2>8. CASE pattern[p] # "**"
    <3>1. start[q] = start[p] + 1 /\ SegmentMatches(path[start[p]], pattern[p])
      BY <1>5, <2>3, <2>8
    <3>2. start[p] <= m
      BY <1>1, <2>5, <3>1
    <3>3. Leads(p, start[p], <<q, start[q]>>)
      BY <1>4, <2>3, <2>5, <2>8, <3>1, <3>2
    <3> QED BY <1>6, <2>2, <2>3, <2>4, <2>5, <2>6, <3>3
  <2> QED BY <2>7, <2>8
<1>9. n + 1 \in 1..n + 1 /\ m + 1 \in 1..m + 1
  BY <1>1
<1> QED BY <1>2, <1>3, <1>8, <1>9

LEMMA NotSeenIs ==
    ASSUME NEW S, NEW t \in S
    PROVE  /\ NotSeen(t) \in Seq(S) /\ OneEach(NotSeen(t))
           /\ ToSet(NotSeen(t)) = {t} \ visited
<1>1. CASE t \in visited
  <2>1. NotSeen(t) = <<>>
    BY <1>1 DEF NotSeen
  <2>2. ToSet(<<>>) = {} /\ OneEach(<<>>)
    BY DEF ToSet, OneEach
  <2> QED BY <1>1, <2>1, <2>2
<1>2. CASE t \notin visited
  <2>1. NotSeen(t) = <<t>>
    BY <1>2 DEF NotSeen
  <2>2. ToSet(<<t>>) = {t} /\ OneEach(<<t>>)
    BY DEF ToSet, OneEach
  <2> QED BY <1>2, <2>1, <2>2
<1> QED BY <1>1, <1>2

LEMMA BothNotSeen ==
    ASSUME NEW S, NEW t \in S, NEW u \in S, t # u
    PROVE  /\ NotSeen(t) \o NotSeen(u) \in Seq(S)
           /\ OneEach(NotSeen(t) \o NotSeen(u))
           /\ ToSet(NotSeen(t) \o NotSeen(u)) = {t, u} \ visited
<1>0. <<>> \in Seq(S) /\ <<t>> \in Seq(S) /\ <<u>> \in Seq(S)
  OBVIOUS
<1>1. CASE t \in visited
  <2>1. NotSeen(t) \o NotSeen(u) = NotSeen(u)
    BY <1>0, <1>1 DEF NotSeen
  <2>2. NotSeen(u) \in Seq(S) /\ OneEach(NotSeen(u)) /\ ToSet(NotSeen(u)) = {u} \ visited
    BY NotSeenIs
  <2>3. {u} \ visited = {t, u} \ visited
    BY <1>1
  <2> QED BY <2>1, <2>2, <2>3
<1>2. CASE t \notin visited /\ u \in visited
  <2>1. NotSeen(t) \o NotSeen(u) = NotSeen(t)
    BY <1>0, <1>2 DEF NotSeen
  <2>2. NotSeen(t) \in Seq(S) /\ OneEach(NotSeen(t)) /\ ToSet(NotSeen(t)) = {t} \ visited
    BY NotSeenIs
  <2>3. {t} \ visited = {t, u} \ visited
    BY <1>2
  <2> QED BY <2>1, <2>2, <2>3
<1>3. CASE t \notin visited /\ u \notin visited
  <2>1. NotSeen(t) \o NotSeen(u) = <<t, u>>
    <3>1. NotSeen(t) = <<t>> /\ NotSeen(u) = <<u>>
      BY <1>3 DEF NotSeen
    <3>2. <<t>> \o <<u>> = <<t, u>>
      <4> DEFINE both == <<t>> \o <<u>>
      <4>1. /\ both \in Seq(S) /\ Len(both) = Len(<<t>>) + Len(<<u>>)
            /\ \A i \in 1..Len(<<t>>) + Len(<<u>>) :
                 both[i] = IF i <= Len(<<t>>) THEN <<t>>[i] ELSE <<u>>[i - Len(<<t>>)]
        BY <1>0, ConcatProperties
      <4>2. Len(<<t>>) = 1 /\ Len(<<u>>) = 1 /\ <<t>>[1] = t /\ <<u>>[1] = u
        OBVIOUS
      <4> HIDE DEF both
      <4>3. Len(both) = 2 /\ both[1] = t /\ both[2] = u
        BY <4>1, <4>2
      <4>4. <<t, u>> \in Seq(S) /\ Len(<<t, u>>) = 2 /\ <<t, u>>[1] = t /\ <<t, u>>[2] = u
        OBVIOUS
      <4>5. \A i \in 1..Len(both) : both[i] = <<t, u>>[i]
        <5>1. \A i \in 1..2 : i = 1 \/ i = 2
          OBVIOUS
        <5> QED BY <4>3, <4>4, <5>1
      <4>6. both = <<t, u>>
        <5> DEFINE two == <<t, u>>
        <5>1. two \in Seq(S) /\ Len(both) = Len(two) /\ \A i \in 1..Len(both) : both[i] = two[i]
          BY <4>3, <4>4, <4>5
        <5> HIDE DEF two
        <5>2. both = two
          BY <4>1, <5>1, SeqEqual
        <5> QED BY <5>2 DEF two
      <4> QED BY <4>6 DEF both
    <3> QED BY <3>1, <3>2
  <2>2. ToSet(<<t, u>>) = {t, u} /\ OneEach(<<t, u>>) /\ <<t, u>> \in Seq(S)
    BY DEF ToSet, OneEach
  <2> QED BY <1>3, <2>1, <2>2
<1> QED BY <1>1, <1>2, <1>3

(* Following gives each state that is led to and not seen yet, once. *)
LEMMA FollowingIs ==
    ASSUME pattern \in Seq(PatternSegments), path \in Seq(Segments),
           NEW p \in 1..Len(pattern), NEW s \in 1..Len(path) + 1
    PROVE  /\ Following(p, s) \in Seq(Grid) /\ OneEach(Following(p, s))
           /\ ToSet(Following(p, s)) = {t \in Grid : Leads(p, s, t)} \ visited
<1> DEFINE n == Len(pattern)
           m == Len(path)
<1>1. n \in Nat /\ m \in Nat
  OBVIOUS
<1>2. Grid = (1..n + 1) \X (1..m + 1)
  BY DEF Grid
<1>3. p \in 1..n /\ s \in 1..m + 1
  OBVIOUS
<1> HIDE DEF n, m
<1>4. /\ <<p + 1, s>> \in Grid
      /\ s <= m => <<p, s + 1>> \in Grid /\ <<p + 1, s + 1>> \in Grid
      /\ <<p + 1, s>> # <<p, s + 1>>
  <2>1. p + 1 \in 1..n + 1 /\ p \in 1..n + 1 /\ p + 1 # p
    BY <1>1, <1>3
  <2>2. s <= m => s + 1 \in 1..m + 1
    BY <1>1, <1>3
  <2> QED BY <1>2, <1>3, <2>1, <2>2
<1>5. <<>> \in Seq(Grid) /\ OneEach(<<>>) /\ ToSet(<<>>) = {}
  BY DEF OneEach, ToSet
<1>6. CASE pattern[p] = "**" /\ s <= m
  <2>1. Following(p, s) = NotSeen(<<p + 1, s>>) \o NotSeen(<<p, s + 1>>)
    BY <1>6 DEF Following, m
  <2>2. {t \in Grid : Leads(p, s, t)} = {<<p + 1, s>>, <<p, s + 1>>}
    BY <1>4, <1>6 DEF Leads, m
  <2>3. /\ NotSeen(<<p + 1, s>>) \o NotSeen(<<p, s + 1>>) \in Seq(Grid)
        /\ OneEach(NotSeen(<<p + 1, s>>) \o NotSeen(<<p, s + 1>>))
        /\ ToSet(NotSeen(<<p + 1, s>>) \o NotSeen(<<p, s + 1>>)) = {<<p + 1, s>>, <<p, s + 1>>} \ visited
    <3>1. <<p + 1, s>> \in Grid /\ <<p, s + 1>> \in Grid /\ <<p + 1, s>> # <<p, s + 1>>
      BY <1>4, <1>6
    <3> QED BY <3>1, BothNotSeen
  <2> QED BY <2>1, <2>2, <2>3
<1>7. CASE pattern[p] = "**" /\ ~(s <= m)
  <2>1. Following(p, s) = NotSeen(<<p + 1, s>>) \o <<>>
    BY <1>7 DEF Following, m
  <2>2. {t \in Grid : Leads(p, s, t)} = {<<p + 1, s>>}
    BY <1>4, <1>7 DEF Leads, m
  <2>3. /\ NotSeen(<<p + 1, s>>) \in Seq(Grid) /\ OneEach(NotSeen(<<p + 1, s>>))
        /\ ToSet(NotSeen(<<p + 1, s>>)) = {<<p + 1, s>>} \ visited
    BY <1>4, NotSeenIs
  <2>4. NotSeen(<<p + 1, s>>) \o <<>> = NotSeen(<<p + 1, s>>)
    BY <2>3, ConcatEmptySeq
  <2> QED BY <2>1, <2>2, <2>3, <2>4
<1>8. CASE pattern[p] # "**" /\ Literal(p, s)
  <2>1. Following(p, s) = NotSeen(<<p + 1, s + 1>>)
    BY <1>8 DEF Following
  <2>2. s <= m
    BY <1>8 DEF Literal, m
  <2>3. {t \in Grid : Leads(p, s, t)} = {<<p + 1, s + 1>>}
    BY <1>4, <1>8, <2>2 DEF Leads
  <2> QED BY <1>4, <2>1, <2>2, <2>3, NotSeenIs
<1>9. CASE pattern[p] # "**" /\ ~ Literal(p, s)
  <2>1. Following(p, s) = <<>>
    BY <1>9 DEF Following
  <2>2. {t \in Grid : Leads(p, s, t)} = {}
    BY <1>9 DEF Leads
  <2> QED BY <1>5, <2>1, <2>2
<1> QED BY <1>6, <1>7, <1>8, <1>9

---------------------------------------------------------------------------
LEMMA PatternInitInv == PatternInit => PatternInv
<1> SUFFICES ASSUME PatternInit PROVE PatternInv
  OBVIOUS
<1>1. pattern \in Seq(PatternSegments) \ {<<>>} /\ given \in Seq(Segments)
  <2>1. \A S, q : q \in BoundedSeq(S, MaxSegments) => q \in Seq(S)
    <3> TAKE S, q
    <3> HAVE q \in BoundedSeq(S, MaxSegments)
    <3>1. PICK k \in 0..MaxSegments : q \in [1..k -> S]
      BY DEF BoundedSeq, SeqOf
    <3>2. k \in Nat
      BY SourceAssumption DEF PatternAssumption
    <3> QED BY <3>1, <3>2
  <2> QED BY <2>1 DEF PatternInit
<1>2. path \in Seq(Segments)
  BY <1>1, CanonicalIsPath DEF PatternInit
<1> DEFINE n == Len(pattern)
           m == Len(path)
<1>3. n \in Nat /\ m \in Nat /\ n >= 1
  BY <1>1, <1>2
<1>4. Grid = (1..n + 1) \X (1..m + 1)
  BY DEF Grid
<1> HIDE DEF n, m
<1>5. <<1, 1>> \in Grid
  BY <1>3, <1>4
<1>6. states = <<<<1, 1>>>> /\ visited = {<<1, 1>>} /\ popped = 0
  BY DEF PatternInit
<1>7. states \in Seq(Grid) /\ OneEach(states) /\ ToSet(states) = {<<1, 1>>} /\ Len(states) = 1
  BY <1>5, <1>6 DEF OneEach, ToSet
<1>8. IsFiniteSet(visited) /\ Cardinality(visited) = 1
  BY <1>6, FS_Singleton
<1>9. result \in {"unknown", "refused"}
  BY DEF PatternInit
<1>10. PatternShape
  BY <1>1, <1>2, <1>5, <1>6, <1>7, <1>8, <1>9 DEF PatternShape
<1>11. EachReached
  <2>1. Reached(1, 1)
    <3> DEFINE start == [q \in 1..n + 1 |-> 1]
    <3>1. start \in Cuts /\ start[1] = 1
      BY <1>3 DEF Cuts, n, m
    <3>2. 1..1 - 1 = {} /\ 1 <= 1
      OBVIOUS
    <3> HIDE DEF start
    <3>3. Cut(start, 1, 1)
      BY <3>1, <3>2 DEF Cut
    <3> QED BY <3>1, <3>3 DEF Reached
  <2>2. ASSUME NEW p \in 1..Len(pattern) + 1, NEW s \in 1..Len(path) + 1, <<p, s>> \in visited
        PROVE  p = 1 /\ s = 1
    BY <1>6, <2>2
  <2> QED BY <2>1, <2>2 DEF EachReached
<1>12. TakenAreDone
  BY <1>6, <1>7 DEF TakenAreDone
<1> QED BY <1>9, <1>10, <1>11, <1>12 DEF PatternInv

LEMMA SamePath ==
    ASSUME UNCHANGED <<pattern, path>>
    PROVE  /\ Grid' = Grid
           /\ \A p, s : Reached(p, s)' <=> Reached(p, s)
           /\ \A p, s, t : Leads(p, s, t)' <=> Leads(p, s, t)
BY DEF Grid, Reached, Cuts, Cut, Fits, Leads, Literal

(* What is seen stays seen, and so what is done stays done. *)
LEMMA DoneStays ==
    ASSUME UNCHANGED <<pattern, path>>, visited \subseteq visited', NEW p, NEW s, Done(p, s)
    PROVE  Done(p, s)'
BY SamePath DEF Done

(* One state is taken, and what it leads to is appended. *)
LEMMA PopStep == PatternInv /\ Pop => PatternInv'
<1> SUFFICES ASSUME PatternInv, Pop PROVE PatternInv'
  OBVIOUS
<1> DEFINE n == Len(pattern)
           m == Len(path)
           top == Last(states)
           p == top[1]
           s == top[2]
           new == IF p > n THEN <<>> ELSE Following(p, s)
<1>1. /\ result = "unknown" /\ states # <<>>
      /\ states' = Front(states) \o new /\ visited' = visited \cup ToSet(new)
      /\ result' = IF top = <<n + 1, m + 1>> THEN "yes" ELSE "unknown"
      /\ popped' = popped + 1 /\ pattern' = pattern /\ path' = path
  BY DEF Pop
<1>2. /\ pattern \in Seq(PatternSegments) \ {<<>>} /\ path \in Seq(Segments)
      /\ states \in Seq(Grid) /\ OneEach(states)
      /\ visited \subseteq Grid /\ <<1, 1>> \in visited /\ ToSet(states) \subseteq visited
      /\ IsFiniteSet(visited) /\ popped \in Nat /\ popped + Len(states) = Cardinality(visited)
  BY DEF PatternInv, PatternShape
<1>3. n \in Nat /\ m \in Nat
  BY <1>2
<1>4. Grid = (1..n + 1) \X (1..m + 1)
  BY DEF Grid
<1>5. UNCHANGED <<pattern, path>> /\ n' = n /\ m' = m
  BY <1>1
<1>6. top \in Grid /\ top \in visited /\ top \in ToSet(states)
  BY <1>1, <1>2 DEF Last, ToSet
<1> HIDE DEF n, m, top
<1>7. p \in 1..n + 1 /\ s \in 1..m + 1 /\ top = <<p, s>>
  BY <1>4, <1>6
<1> HIDE DEF p, s
<1>8. p > n => p = n + 1
  BY <1>3, <1>7
<1>9. ~(p > n) => p \in 1..n
  BY <1>3, <1>7
<1>10. /\ new \in Seq(Grid) /\ OneEach(new)
       /\ ToSet(new) = {t \in Grid : ~(p > n) /\ Leads(p, s, t)} \ visited
  <2>1. CASE p > n
    <3>1. <<>> \in Seq(Grid) /\ OneEach(<<>>) /\ ToSet(<<>>) = {}
      BY DEF OneEach, ToSet
    <3> QED BY <2>1, <3>1
  <2>2. CASE ~(p > n)
    <3>1. /\ Following(p, s) \in Seq(Grid) /\ OneEach(Following(p, s))
          /\ ToSet(Following(p, s)) = {t \in Grid : Leads(p, s, t)} \ visited
      BY <1>2, <1>7, <1>9, <2>2, FollowingIs DEF n, m
    <3> QED BY <2>2, <3>1
  <2> QED BY <2>1, <2>2
<1> HIDE DEF new
<1>11. ToSet(states) \cap ToSet(new) = {} /\ ToSet(new) \cap visited = {} /\ ToSet(new) \subseteq Grid
  BY <1>2, <1>10
<1>12. /\ states' \in Seq(Grid) /\ OneEach(states')
       /\ ToSet(states') = (ToSet(states) \ {top}) \cup ToSet(new)
       /\ Len(states') = Len(states) - 1 + Len(new)
  BY <1>1, <1>2, <1>10, <1>11, LastReplaced DEF top
<1>13. IsFiniteSet(visited') /\ Cardinality(visited') = Cardinality(visited) + Len(new)
  <2>1. IsFiniteSet(ToSet(new)) /\ Cardinality(ToSet(new)) = Len(new)
    BY <1>10, OneEachCounts
  <2>2. /\ IsFiniteSet(visited \cup ToSet(new))
        /\ Cardinality(visited \cup ToSet(new)) =
             Cardinality(visited) + Cardinality(ToSet(new)) - Cardinality(visited \cap ToSet(new))
    BY <1>2, <2>1, FS_Union
  <2>3. visited \cap ToSet(new) = {} /\ Cardinality({}) = 0
    BY <1>11, FS_EmptySet
  <2>4. Cardinality(visited) \in Nat /\ Len(new) \in Nat
    BY <1>2, <1>10, FS_CardinalityType
  <2>5. Cardinality(visited \cup ToSet(new)) = Cardinality(visited) + Len(new)
    <3> DEFINE a == Cardinality(visited)
               b == Len(new)
    <3>1. a \in Nat /\ b \in Nat
      BY <2>4
    <3>2. Cardinality(visited \cup ToSet(new)) = a + b - 0
      BY <2>1, <2>2, <2>3
    <3> HIDE DEF a, b
    <3>3. a + b - 0 = a + b
      BY <3>1
    <3> QED BY <3>2, <3>3 DEF a, b
  <2> QED BY <1>1, <2>2, <2>5
<1>14. popped' \in Nat /\ popped' + Len(states') = Cardinality(visited')
  <2>1. Len(states) \in Nat /\ Len(new) \in Nat
    BY <1>2, <1>10
  <2> QED BY <1>1, <1>2, <1>12, <1>13, <2>1
<1>15. /\ visited' \subseteq Grid /\ <<1, 1>> \in visited' /\ ToSet(states') \subseteq visited'
  BY <1>1, <1>2, <1>11, <1>12
<1>16. PatternShape'
  <2>1. Grid' = Grid
    BY <1>5, SamePath
  <2>2. result' \in {"unknown", "yes", "no", "refused"}
    BY <1>1
  <2>3. ToSet(states)' = ToSet(states')
    BY DEF ToSet
  <2>4. OneEach(states)' <=> OneEach(states')
    BY DEF OneEach
  <2> QED BY <1>1, <1>2, <1>12, <1>13, <1>14, <1>15, <2>1, <2>2, <2>3, <2>4 DEF PatternShape
<1>17. Reached(p, s)
  BY <1>6, <1>7 DEF PatternInv, EachReached, n, m
<1>18. EachReached'
  <2>1. ASSUME NEW pp \in 1..n + 1, NEW ss \in 1..m + 1, <<pp, ss>> \in visited'
        PROVE  Reached(pp, ss)
    <3>1. CASE <<pp, ss>> \in visited
      BY <3>1 DEF PatternInv, EachReached, n, m
    <3>2. CASE <<pp, ss>> \in ToSet(new)
      <4>1. ~(p > n) /\ Leads(p, s, <<pp, ss>>)
        BY <1>10, <3>2
      <4> QED BY <1>2, <1>7, <1>9, <1>17, <4>1, ReachedOn DEF n, m
    <3> QED BY <1>1, <2>1, <3>1, <3>2
  <2>2. \A pp, ss : Reached(pp, ss)' <=> Reached(pp, ss)
    BY <1>5, SamePath
  <2> QED BY <1>5, <2>1, <2>2 DEF EachReached, n, m
<1>19. TakenAreDone'
  <2> SUFFICES ASSUME result' \in {"unknown", "no"},
                      NEW pp \in 1..n + 1, NEW ss \in 1..m + 1,
                      <<pp, ss>> \in visited' \ ToSet(states')
               PROVE  Done(pp, ss)'
    <3>1. ToSet(states)' = ToSet(states')
      BY DEF ToSet
    <3> QED BY <1>5, <3>1 DEF TakenAreDone, n, m
  <2>1. visited \subseteq visited'
    BY <1>1
  <2>2. CASE <<pp, ss>> = top
    <3>1. pp = p /\ ss = s
      BY <1>7, <2>2
    <3>2. ~(p = n + 1 /\ s = m + 1)
      BY <1>1, <1>7
    <3>3. ASSUME p <= n, NEW t \in Grid, Leads(p, s, t) PROVE t \in visited'
      <4>1. ~(p > n)
        BY <1>3, <1>7, <3>3
      <4> QED BY <1>1, <1>10, <3>3, <4>1
    <3>4. Grid' = Grid /\ \A t : Leads(pp, ss, t)' <=> Leads(pp, ss, t)
      BY <1>5, SamePath
    <3>5. (pp = Len(pattern) + 1 /\ ss = Len(path) + 1)' <=> (pp = n + 1 /\ ss = m + 1)
      BY <1>1 DEF n, m
    <3>6. (pp <= Len(pattern))' <=> pp <= n
      BY <1>1 DEF n
    <3>7. (\A t \in Grid : Leads(pp, ss, t) => t \in visited)' <=>
              \A t \in Grid : Leads(pp, ss, t) => t \in visited'
      BY <3>4
    <3> QED BY <3>1, <3>2, <3>3, <3>5, <3>6, <3>7 DEF Done
  <2>3. CASE <<pp, ss>> # top
    <3>1. <<pp, ss>> \in visited \ ToSet(states)
      BY <1>1, <1>12, <2>3
    <3>2. Done(pp, ss)
      BY <1>1, <3>1 DEF PatternInv, TakenAreDone, n, m
    <3> QED BY <1>5, <2>1, <3>2, DoneStays
  <2> QED BY <2>2, <2>3
<1>20. (result = "yes" => Reached(Len(pattern) + 1, Len(path) + 1))'
  <2> SUFFICES ASSUME result' = "yes" PROVE Reached(n + 1, m + 1)
    <3>1. Reached(n + 1, m + 1)' <=> Reached(n + 1, m + 1)
      BY <1>5, SamePath DEF n, m
    <3> QED BY <1>5, <3>1 DEF n, m
  <2>1. p = n + 1 /\ s = m + 1
    BY <1>1, <1>7
  <2> QED BY <1>17, <2>1
<1>21. (result = "no" => states = <<>>)'
  BY <1>1
<1> QED BY <1>16, <1>18, <1>19, <1>20, <1>21 DEF PatternInv

(* Nothing but the result changes. *)
LEMMA ResultStep ==
    ASSUME PatternInv, UNCHANGED <<pattern, path, states, visited, popped>>,
           \/ result' = result
           \/ result = "unknown" /\ result' = "no" /\ states = <<>>
    PROVE  PatternInv'
<1>1. PatternShape'
  BY DEF PatternInv, PatternShape, Grid, OneEach, ToSet
<1>2. EachReached'
  <2>1. \A p, s : Reached(p, s)' <=> Reached(p, s)
    BY SamePath
  <2> QED BY <2>1 DEF PatternInv, EachReached
<1>3. TakenAreDone'
  <2>1. \A p, s : Done(p, s) => Done(p, s)'
    BY DoneStays
  <2>2. ToSet(states)' = ToSet(states)
    BY DEF ToSet
  <2> QED BY <2>1, <2>2 DEF PatternInv, TakenAreDone
<1>4. Reached(Len(pattern) + 1, Len(path) + 1)' <=> Reached(Len(pattern) + 1, Len(path) + 1)
  BY SamePath
<1> QED BY <1>1, <1>2, <1>3, <1>4 DEF PatternInv

LEMMA PatternStep == PatternInv /\ [PatternNext]_patternVars => PatternInv'
<1>1. PatternInv /\ Exhausted => PatternInv'
  BY ResultStep DEF Exhausted
<1>2. PatternInv /\ UNCHANGED patternVars => PatternInv'
  BY ResultStep DEF patternVars
<1> QED BY <1>1, <1>2, PopStep DEF PatternNext

LEMMA PatternInvIsRight == PatternInv => SearchIsRight
<1> SUFFICES ASSUME PatternInv PROVE SearchIsRight
  OBVIOUS
<1>1. /\ pattern \in Seq(PatternSegments) \ {<<>>} /\ path \in Seq(Segments)
      /\ states \in Seq(Grid) /\ OneEach(states)
      /\ visited \subseteq Grid /\ <<1, 1>> \in visited
      /\ popped + Len(states) = Cardinality(visited)
  BY DEF PatternInv, PatternShape
<1>2. EachStateOnce
  <2>1. Cardinality(ToSet(states)) = Len(states)
    BY <1>1, OneEachCounts
  <2> QED BY <1>1, <2>1 DEF EachStateOnce, Grid
<1>3. ASSUME result = "yes" PROVE Means
  BY <1>1, <1>3, CutMeans DEF PatternInv
<1>4. ASSUME result = "no" PROVE ~ Means
  <2>1. ToSet(states) = {}
    BY <1>4 DEF PatternInv, ToSet
  <2>2. \A p \in 1..Len(pattern) + 1, s \in 1..Len(path) + 1 :
            <<p, s>> \in visited => Done(p, s)
    BY <1>4, <2>1 DEF PatternInv, TakenAreDone
  <2> QED BY <1>1, <2>2, NoCutLeft
<1> QED BY <1>2, <1>3, <1>4 DEF SearchIsRight, ResultIsRight

(* The search over pairs of positions says that a path matches exactly     *)
(* when it can be cut into what the pattern means, and it visits no pair   *)
(* twice (profiles.py: _match_segments).                                   *)
THEOREM PatternIsRight == PatternSpec => []SearchIsRight
<1>1. PatternSpec => []PatternInv
  BY PatternInitInv, PatternStep, PTL DEF PatternSpec
<1> QED BY <1>1, PatternInvIsRight, PTL

---------------------------------------------------------------------------
(* What is indexed is what the commit has, whole, or nothing is            *)
(* (git_archive.py: the output of git, and the archive made of it).        *)
THEOREM SourceIsWhole == GitSpec /\ TarSpec => []SourceIsCommit
BY GitIsWhole, TarIsCommit, PTL DEF SourceIsCommit

---------------------------------------------------------------------------
(***************************************************************************)
(* The ranking.  What is fused and grouped are functions of the lanes, so  *)
(* the invariant says which, and the properties are lemmas about them.     *)
(***************************************************************************)
(* R, a set of pairs, orders S strictly. *)
Orders(R, S) ==
    /\ \A x \in S : <<x, x>> \notin R
    /\ \A x, y, z \in S : <<x, y>> \in R /\ <<y, z>> \in R => <<x, z>> \in R
    /\ \A x, y \in S : x # y => <<x, y>> \in R \/ <<y, x>> \in R

BeforeIn(R, S, x) == {y \in S : <<y, x>> \in R}

(* s has the elements of S, each once, in the order of R. *)
Lists(s, R, S) ==
    /\ s \in Seq(S) /\ Len(s) = Cardinality(S) /\ DOMAIN s = 1..Cardinality(S)
    /\ \A x \in S : \E i \in DOMAIN s : s[i] = x
    /\ \A i, j \in DOMAIN s : i < j <=> <<s[i], s[j]>> \in R

(* As many as are before it tell an element from the others. *)
LEMMA CountsRise ==
    ASSUME NEW S, NEW R, IsFiniteSet(S), Orders(R, S), NEW x \in S, NEW y \in S, <<x, y>> \in R
    PROVE  /\ Cardinality(BeforeIn(R, S, x)) < Cardinality(BeforeIn(R, S, y))
           /\ Cardinality(BeforeIn(R, S, y)) \in 0..Cardinality(S) - 1
<1> DEFINE A == BeforeIn(R, S, x)
           B == BeforeIn(R, S, y)
<1>1. A \subseteq B /\ x \in B /\ x \notin A /\ B \subseteq S /\ y \notin B
  BY DEF Orders, BeforeIn
<1> HIDE DEF A, B
<1>2. IsFiniteSet(B) /\ Cardinality(B) \in Nat /\ Cardinality(S) \in Nat /\ Cardinality(B) <= Cardinality(S)
      /\ (Cardinality(S) = Cardinality(B) => S = B)
  BY <1>1, FS_Subset, FS_CardinalityType
<1>3. Cardinality(A) \in Nat /\ Cardinality(A) <= Cardinality(B) /\ (Cardinality(B) = Cardinality(A) => B = A)
  BY <1>1, <1>2, FS_Subset, FS_CardinalityType
<1>4. Cardinality(B) # Cardinality(A) /\ Cardinality(S) # Cardinality(B)
  BY <1>1, <1>2, <1>3
<1> DEFINE a == Cardinality(A)
           b == Cardinality(B)
           n == Cardinality(S)
<1>5. a \in Nat /\ b \in Nat /\ n \in Nat /\ a <= b /\ b <= n /\ a # b /\ b # n
  BY <1>2, <1>3, <1>4
<1> HIDE DEF a, b, n
<1>6. a < b /\ b \in 0..n - 1
  BY <1>5
<1> QED BY <1>6 DEF a, b, n, A, B

LEMMA CountBounds ==
    ASSUME NEW S, NEW R, IsFiniteSet(S), Orders(R, S), NEW x \in S
    PROVE  Cardinality(BeforeIn(R, S, x)) \in 0..Cardinality(S) - 1
<1> DEFINE A == BeforeIn(R, S, x)
<1>1. A \subseteq S /\ x \notin A
  BY DEF Orders, BeforeIn
<1> HIDE DEF A
<1>2. Cardinality(A) \in Nat /\ Cardinality(S) \in Nat /\ Cardinality(A) <= Cardinality(S)
      /\ (Cardinality(S) = Cardinality(A) => S = A)
  BY <1>1, FS_Subset, FS_CardinalityType
<1>3. Cardinality(S) # Cardinality(A)
  BY <1>1, <1>2
<1> DEFINE a == Cardinality(A)
           n == Cardinality(S)
<1>5. a \in Nat /\ n \in Nat /\ a <= n /\ a # n
  BY <1>2, <1>3
<1> HIDE DEF a, n
<1>6. a \in 0..n - 1
  BY <1>5
<1> QED BY <1>6 DEF a, n, A

LEMMA EveryCountIsTaken ==
    ASSUME NEW S, NEW R, IsFiniteSet(S), Orders(R, S), NEW i \in 1..Cardinality(S)
    PROVE  \E x \in S : Cardinality(BeforeIn(R, S, x)) = i - 1
<1> DEFINE n == Cardinality(S)
           count == [x \in S |-> Cardinality(BeforeIn(R, S, x))]
<1>1. n \in Nat
  BY FS_CardinalityType
<1>2. \A x \in S : count[x] \in 0..n - 1
  BY CountBounds
<1>3. count \in Injection(S, 0..n - 1)
  <2>1. ASSUME NEW x \in S, NEW y \in S, x # y PROVE count[x] # count[y]
    <3>1. CASE <<x, y>> \in R
      <4>1. Cardinality(BeforeIn(R, S, x)) < Cardinality(BeforeIn(R, S, y))
        BY <3>1, CountsRise
      <4>2. count[x] \in Nat /\ count[y] \in Nat /\ count[x] < count[y]
        BY <1>1, <1>2, <4>1
      <4> HIDE DEF count
      <4> QED BY <4>2
    <3>2. CASE <<y, x>> \in R
      <4>1. Cardinality(BeforeIn(R, S, y)) < Cardinality(BeforeIn(R, S, x))
        BY <3>2, CountsRise
      <4>2. count[x] \in Nat /\ count[y] \in Nat /\ count[y] < count[x]
        BY <1>1, <1>2, <4>1
      <4> HIDE DEF count
      <4> QED BY <4>2
    <3> QED BY <2>1, <3>1, <3>2 DEF Orders
  <2>2. count \in [S -> 0..n - 1]
    BY <1>2
  <2> HIDE DEF count, n
  <2> QED BY <2>1, <2>2 DEF Injection, IsInjective
<1>4. IsFiniteSet(0..n - 1) /\ Cardinality(0..n - 1) = n
  <2> HIDE DEF n
  <2>0. n - 1 \in Int /\ 0 \in Int
    BY <1>1
  <2>1. IsFiniteSet(0..n - 1) /\ Cardinality(0..n - 1) = IF 0 > n - 1 THEN 0 ELSE n - 1 - 0 + 1
    BY <2>0, FS_Interval
  <2> QED BY <1>1, <2>1
<1>5. count \in Surjection(S, 0..n - 1)
  BY <1>3, <1>4, FS_Injection
<1>6. i - 1 \in 0..n - 1
  <2> HIDE DEF n
  <2>1. i \in 1..n
    BY DEF n
  <2> QED BY <1>1, <2>1
<1>7. \E x \in S : count[x] = i - 1
  <2> HIDE DEF count, n
  <2> QED BY <1>5, <1>6 DEF Surjection
<1> QED BY <1>7

LEMMA CountedIsListed ==
    ASSUME NEW S, NEW R, IsFiniteSet(S), Orders(R, S), NEW s \in [1..Cardinality(S) -> S],
           \A i \in 1..Cardinality(S) : Cardinality(BeforeIn(R, S, s[i])) = i - 1
    PROVE  Lists(s, R, S)
<1> DEFINE n == Cardinality(S)
           count(x) == Cardinality(BeforeIn(R, S, x))
<1>1. n \in Nat
  BY FS_CardinalityType
<1>2. \A x \in S : count(x) \in 0..n - 1
  BY CountBounds
<1>3. \A x, y \in S : <<x, y>> \in R => count(x) < count(y)
  BY CountsRise
<1>4. \A i \in 1..n : s[i] \in S /\ count(s[i]) = i - 1
  OBVIOUS
<1>5. s \in Seq(S) /\ Len(s) = n /\ DOMAIN s = 1..n
  BY <1>1
<1> HIDE DEF n, count
<1>6. \A x, y \in S : x # y => <<x, y>> \in R \/ <<y, x>> \in R
  BY DEF Orders
<1>7. \A x, y \in S : count(x) = count(y) => x = y
  <2> SUFFICES ASSUME NEW x \in S, NEW y \in S, count(x) = count(y), x # y PROVE FALSE
    OBVIOUS
  <2>1. count(x) < count(y) \/ count(y) < count(x)
    BY <1>3, <1>6
  <2>2. count(x) \in Nat /\ count(y) \in Nat
    BY <1>1, <1>2
  <2> QED BY <2>1, <2>2
<1>8. ASSUME NEW x \in S PROVE \E i \in DOMAIN s : s[i] = x
  <2> DEFINE i == count(x) + 1
  <2>1. i \in 1..n /\ i - 1 = count(x)
    BY <1>1, <1>2
  <2>2. s[i] \in S /\ count(s[i]) = count(x)
    BY <1>4, <2>1
  <2> QED BY <1>5, <1>7, <2>1, <2>2
<1>9. ASSUME NEW i \in 1..n, NEW j \in 1..n
      PROVE i < j <=> <<s[i], s[j]>> \in R
  <2>1. s[i] \in S /\ s[j] \in S /\ count(s[i]) = i - 1 /\ count(s[j]) = j - 1
    BY <1>4
  <2>2. ASSUME <<s[i], s[j]>> \in R PROVE i < j
    <3>1. count(s[i]) < count(s[j])
      BY <1>3, <2>1, <2>2
    <3> QED BY <1>1, <2>1, <3>1
  <2>3. ASSUME i < j PROVE <<s[i], s[j]>> \in R
    <3>1. s[i] # s[j]
      BY <1>1, <2>1, <2>3
    <3>2. ~ <<s[j], s[i]>> \in R
      <4> SUFFICES ASSUME <<s[j], s[i]>> \in R PROVE FALSE
        OBVIOUS
      <4>1. count(s[j]) < count(s[i])
        BY <1>3, <2>1
      <4> QED BY <1>1, <2>1, <2>3, <4>1
    <3> QED BY <1>6, <2>1, <3>1, <3>2
  <2> QED BY <2>2, <2>3
<1> QED BY <1>5, <1>8, <1>9 DEF Lists, n

(* Items of distinct children, and groups of distinct sections. *)
AreItems(S) ==
    /\ IsFiniteSet(S)
    /\ \A f \in S : f.score \in Nat /\ f.chunk \in Nat
    /\ \A f, g \in S : f.chunk = g.chunk => f = g

AreGroups(S) ==
    /\ IsFiniteSet(S)
    /\ \A g \in S : g.score \in Nat /\ g.parent \in Nat
    /\ \A g, h \in S : g.parent = h.parent => g = h

BetterPairs(S) == {p \in S \X S : Better(p[1], p[2])}

AheadPairs(S) == {p \in S \X S : Ahead(p[1], p[2])}

SmallerPairs(S) == {p \in S \X S : p[1] < p[2]}

LEMMA ItemsAreListed ==
    ASSUME NEW S, AreItems(S)
    PROVE  Lists(Sorted(S, Better), BetterPairs(S), S)
<1> DEFINE R == BetterPairs(S)
<1>1. \A x, y \in S : <<x, y>> \in R <=> Better(x, y)
  BY DEF BetterPairs
<1>2. Orders(R, S)
  <2> HIDE DEF R
  <2> QED BY <1>1 DEF Orders, AreItems, Better
<1>3. IsFiniteSet(S)
  BY DEF AreItems
<1> HIDE DEF R
<1>4. \A x \in S : BeforeIn(R, S, x) = {y \in S : Better(y, x)}
  BY <1>1 DEF BeforeIn
<1> DEFINE s == Sorted(S, Better)
<1>5. ASSUME NEW i \in 1..Cardinality(S)
      PROVE  s[i] \in S /\ Cardinality(BeforeIn(R, S, s[i])) = i - 1
  <2>1. \E x \in S : Cardinality(BeforeIn(R, S, x)) = i - 1
    BY <1>2, <1>3, EveryCountIsTaken
  <2>2. \E x \in S : Cardinality({y \in S : Better(y, x)}) = i - 1
    BY <1>4, <2>1
  <2>3. s[i] = CHOOSE x \in S : Cardinality({y \in S : Better(y, x)}) = i - 1
    BY DEF Sorted
  <2>4. s[i] \in S /\ Cardinality({y \in S : Better(y, s[i])}) = i - 1
    <3> HIDE DEF s
    <3> QED BY <2>2, <2>3
  <2> HIDE DEF s
  <2> QED BY <1>4, <2>4
<1>6. s = [i \in 1..Cardinality(S) |-> s[i]]
  <2> DEFINE place(i) == CHOOSE x \in S : Cardinality({y \in S : Better(y, x)}) = i - 1
  <2>1. s = [i \in 1..Cardinality(S) |-> place(i)]
    BY DEF Sorted
  <2> HIDE DEF s, place
  <2> QED BY <2>1
<1> HIDE DEF s
<1>7. s \in [1..Cardinality(S) -> S]
  BY <1>5, <1>6
<1>8. Lists(s, R, S)
  BY <1>2, <1>3, <1>5, <1>7, CountedIsListed
<1> QED BY <1>8 DEF s, R

LEMMA GroupsAreListed ==
    ASSUME NEW S, AreGroups(S)
    PROVE  Lists(Sorted(S, Ahead), AheadPairs(S), S)
<1> DEFINE R == AheadPairs(S)
<1>1. \A x, y \in S : <<x, y>> \in R <=> Ahead(x, y)
  BY DEF AheadPairs
<1>2. Orders(R, S)
  <2> HIDE DEF R
  <2> QED BY <1>1 DEF Orders, AreGroups, Ahead
<1>3. IsFiniteSet(S)
  BY DEF AreGroups
<1> HIDE DEF R
<1>4. \A x \in S : BeforeIn(R, S, x) = {y \in S : Ahead(y, x)}
  BY <1>1 DEF BeforeIn
<1> DEFINE s == Sorted(S, Ahead)
<1>5. ASSUME NEW i \in 1..Cardinality(S)
      PROVE  s[i] \in S /\ Cardinality(BeforeIn(R, S, s[i])) = i - 1
  <2>1. \E x \in S : Cardinality(BeforeIn(R, S, x)) = i - 1
    BY <1>2, <1>3, EveryCountIsTaken
  <2>2. \E x \in S : Cardinality({y \in S : Ahead(y, x)}) = i - 1
    BY <1>4, <2>1
  <2>3. s[i] = CHOOSE x \in S : Cardinality({y \in S : Ahead(y, x)}) = i - 1
    BY DEF Sorted
  <2>4. s[i] \in S /\ Cardinality({y \in S : Ahead(y, s[i])}) = i - 1
    <3> HIDE DEF s
    <3> QED BY <2>2, <2>3
  <2> HIDE DEF s
  <2> QED BY <1>4, <2>4
<1>6. s = [i \in 1..Cardinality(S) |-> s[i]]
  <2> DEFINE place(i) == CHOOSE x \in S : Cardinality({y \in S : Ahead(y, x)}) = i - 1
  <2>1. s = [i \in 1..Cardinality(S) |-> place(i)]
    BY DEF Sorted
  <2> HIDE DEF s, place
  <2> QED BY <2>1
<1> HIDE DEF s
<1>7. s \in [1..Cardinality(S) -> S]
  BY <1>5, <1>6
<1>8. Lists(s, R, S)
  BY <1>2, <1>3, <1>5, <1>7, CountedIsListed
<1> QED BY <1>8 DEF s, R

LEMMA NumbersAreListed ==
    ASSUME NEW S \in SUBSET Nat, IsFiniteSet(S)
    PROVE  Lists(Sorted(S, <), SmallerPairs(S), S)
<1> DEFINE R == SmallerPairs(S)
<1>1. \A x, y \in S : <<x, y>> \in R <=> x < y
  BY DEF SmallerPairs
<1>2. Orders(R, S)
  <2> HIDE DEF R
  <2> QED BY <1>1 DEF Orders, SmallerPairs
<1>3. IsFiniteSet(S)
  BY DEF SmallerPairs
<1> HIDE DEF R
<1>4. \A x \in S : BeforeIn(R, S, x) = {y \in S : y < x}
  BY <1>1 DEF BeforeIn
<1> DEFINE s == Sorted(S, <)
<1>5. ASSUME NEW i \in 1..Cardinality(S)
      PROVE  s[i] \in S /\ Cardinality(BeforeIn(R, S, s[i])) = i - 1
  <2>1. \E x \in S : Cardinality(BeforeIn(R, S, x)) = i - 1
    BY <1>2, <1>3, EveryCountIsTaken
  <2>2. \E x \in S : Cardinality({y \in S : y < x}) = i - 1
    BY <1>4, <2>1
  <2>3. s[i] = CHOOSE x \in S : Cardinality({y \in S : y < x}) = i - 1
    BY DEF Sorted
  <2>4. s[i] \in S /\ Cardinality({y \in S : y < s[i]}) = i - 1
    <3> HIDE DEF s
    <3> QED BY <2>2, <2>3
  <2> HIDE DEF s
  <2> QED BY <1>4, <2>4
<1>6. s = [i \in 1..Cardinality(S) |-> s[i]]
  <2> DEFINE place(i) == CHOOSE x \in S : Cardinality({y \in S : y < x}) = i - 1
  <2>1. s = [i \in 1..Cardinality(S) |-> place(i)]
    BY DEF Sorted
  <2> HIDE DEF s, place
  <2> QED BY <2>1
<1> HIDE DEF s
<1>7. s \in [1..Cardinality(S) -> S]
  BY <1>5, <1>6
<1>8. Lists(s, R, S)
  BY <1>2, <1>3, <1>5, <1>7, CountedIsListed
<1> QED BY <1>8 DEF s, R

LanePairs(S, raw) == {p \in S \X S : raw[p[1]] > raw[p[2]] \/ (raw[p[1]] = raw[p[2]] /\ p[1] < p[2])}

LEMMA LaneIsListed ==
    ASSUME NEW S \in SUBSET Chunks, IsFiniteSet(S), NEW raw \in [Chunks -> Similarities]
    PROVE  Lists(Sorted(S, LAMBDA c, d : raw[c] > raw[d] \/ (raw[c] = raw[d] /\ c < d)), LanePairs(S, raw), S)
<1> DEFINE R == LanePairs(S, raw)
<1>1. \A x, y \in S : <<x, y>> \in R <=> (raw[x] > raw[y] \/ (raw[x] = raw[y] /\ x < y))
  BY DEF LanePairs
<1>2. Orders(R, S)
  <2> HIDE DEF R
  <2>1. \A x \in S : x \in Nat /\ raw[x] \in Nat
    BY AnswersAssumption DEF RankingAssumption
  <2> QED BY <1>1, <2>1 DEF Orders
<1>3. IsFiniteSet(S)
  BY DEF LanePairs
<1> HIDE DEF R
<1>4. \A x \in S : BeforeIn(R, S, x) = {y \in S : (raw[y] > raw[x] \/ (raw[y] = raw[x] /\ y < x))}
  BY <1>1 DEF BeforeIn
<1> DEFINE s == Sorted(S, LAMBDA c, d : raw[c] > raw[d] \/ (raw[c] = raw[d] /\ c < d))
<1>5. ASSUME NEW i \in 1..Cardinality(S)
      PROVE  s[i] \in S /\ Cardinality(BeforeIn(R, S, s[i])) = i - 1
  <2>1. \E x \in S : Cardinality(BeforeIn(R, S, x)) = i - 1
    BY <1>2, <1>3, EveryCountIsTaken
  <2>2. \E x \in S : Cardinality({y \in S : (raw[y] > raw[x] \/ (raw[y] = raw[x] /\ y < x))}) = i - 1
    BY <1>4, <2>1
  <2>3. s[i] = CHOOSE x \in S : Cardinality({y \in S : (raw[y] > raw[x] \/ (raw[y] = raw[x] /\ y < x))}) = i - 1
    BY DEF Sorted
  <2>4. s[i] \in S /\ Cardinality({y \in S : (raw[y] > raw[s[i]] \/ (raw[y] = raw[s[i]] /\ y < s[i]))}) = i - 1
    <3> HIDE DEF s
    <3> QED BY <2>2, <2>3
  <2> HIDE DEF s
  <2> QED BY <1>4, <2>4
<1>6. s = [i \in 1..Cardinality(S) |-> s[i]]
  <2> DEFINE place(i) == CHOOSE x \in S :
                 Cardinality({y \in S : (raw[y] > raw[x] \/ (raw[y] = raw[x] /\ y < x))}) = i - 1
  <2>1. s = [i \in 1..Cardinality(S) |-> place(i)]
    BY DEF Sorted
  <2> HIDE DEF s, place
  <2> QED BY <2>1
<1> HIDE DEF s
<1>7. s \in [1..Cardinality(S) -> S]
  BY <1>5, <1>6
<1>8. Lists(s, R, S)
  BY <1>2, <1>3, <1>5, <1>7, CountedIsListed
<1> QED BY <1>8 DEF s, R

LEMMA FirstOnes ==
    ASSUME NEW S, NEW s \in Seq(S), NEW n \in Nat
    PROVE  /\ First(n, s) \in Seq(S)
           /\ DOMAIN First(n, s) = 1..Len(First(n, s))
           /\ Len(First(n, s)) = Min({n, Len(s)})
           /\ Len(First(n, s)) \in {n, Len(s)}
           /\ Len(First(n, s)) <= n /\ Len(First(n, s)) <= Len(s)
           /\ \A i \in DOMAIN First(n, s) : i \in DOMAIN s /\ First(n, s)[i] = s[i]
<1> DEFINE l == Len(s)
           m == Min({n, l})
<1>1. l \in Nat /\ s \in [1..l -> S] /\ DOMAIN s = 1..l
  BY LenProperties
<1> HIDE DEF l
<1>2. \E x \in {n, l} : \A y \in {n, l} : x <= y
  BY <1>1
<1>3. m \in {n, l} /\ m <= n /\ m <= l
  BY <1>2 DEF Min
<1> HIDE DEF m
<1>4. m \in Nat
  BY <1>1, <1>3
<1>5. First(n, s) = SubSeq(s, 1, m)
  BY DEF First, m, l
<1>6. \A i \in 1..m : s[i] \in S /\ i \in DOMAIN s
  BY <1>1, <1>3, <1>4
<1>7. /\ SubSeq(s, 1, m) \in Seq(S)
      /\ Len(SubSeq(s, 1, m)) = IF 1 <= m THEN m - 1 + 1 ELSE 0
      /\ \A i \in 1..m - 1 + 1 : SubSeq(s, 1, m)[i] = s[1 + i - 1]
  BY <1>4, <1>6, SubSeqProperties
<1>8. \A i \in 1..m : i \in 1..m - 1 + 1 /\ 1 + i - 1 = i
  BY <1>4
<1>9. Len(SubSeq(s, 1, m)) = m /\ \A i \in 1..m : SubSeq(s, 1, m)[i] = s[i]
  BY <1>4, <1>7, <1>8
<1>10. DOMAIN SubSeq(s, 1, m) = 1..m
  BY <1>7, <1>9, LenProperties
<1> QED BY <1>3, <1>5, <1>6, <1>7, <1>9, <1>10 DEF m, l

(* What a search retrieves: no child twice, and no more than there is room for. *)
LaneOK(lane) ==
    /\ lane \in Seq(Chunks) /\ Len(lane) <= LaneLimit
    /\ \A i, j \in DOMAIN lane : lane[i] = lane[j] => i = j

LEMMA LanesAreOK == ASSUME NEW lane \in Lanes PROVE LaneOK(lane)
<1>1. PICK S \in SUBSET Chunks, raw \in [Chunks -> Similarities] : lane = Lane(S, raw)
  BY DEF Lanes
<1>2. IsFiniteSet(S)
  BY AnswersAssumption, FS_Subset DEF RankingAssumption
<1> DEFINE all == Sorted(S, LAMBDA c, d : raw[c] > raw[d] \/ (raw[c] = raw[d] /\ c < d))
           R == LanePairs(S, raw)
<1>3. Lists(all, R, S)
  BY <1>2, LaneIsListed
<1>4. lane = First(LaneLimit, all)
  BY <1>1 DEF Lane
<1>5. \A x \in S : <<x, x>> \notin R
  <2>1. \A x \in S : x \in Nat /\ raw[x] \in Nat
    BY AnswersAssumption DEF RankingAssumption
  <2> QED BY <2>1 DEF LanePairs
<1> HIDE DEF all, R
<1>6. all \in Seq(S) /\ DOMAIN all = 1..Len(all) /\ Len(all) \in Nat
      /\ \A i, j \in DOMAIN all : i < j <=> <<all[i], all[j]>> \in R
  BY <1>2, <1>3, FS_CardinalityType DEF Lists
<1>7. \A i \in DOMAIN all : all[i] \in S
  BY <1>6, ElementOfSeq
<1>8. \A i, j \in DOMAIN all : all[i] = all[j] => i = j
  <2> SUFFICES ASSUME NEW i \in DOMAIN all, NEW j \in DOMAIN all, all[i] = all[j], i # j PROVE FALSE
    OBVIOUS
  <2>1. i < j \/ j < i
    BY <1>6
  <2>2. <<all[i], all[j]>> \in R \/ <<all[j], all[i]>> \in R
    BY <1>6, <2>1
  <2> QED BY <1>5, <1>7, <2>2
<1>9. LaneLimit \in Nat
  BY AnswersAssumption DEF RankingAssumption
<1>10. /\ lane \in Seq(S) /\ Len(lane) <= LaneLimit
       /\ \A i \in DOMAIN lane : i \in DOMAIN all /\ lane[i] = all[i]
  BY <1>4, <1>6, <1>9, FirstOnes
<1>11. lane \in Seq(Chunks)
  BY <1>10, SeqMonotonic
<1> QED BY <1>8, <1>10, <1>11 DEF LaneOK

LEMMA RankIs ==
    ASSUME NEW lane, LaneOK(lane), NEW c
    PROVE  /\ Rank(lane, c) \in 0..LaneLimit
           /\ Rank(lane, c) # 0 <=> c \in ToSet(lane)
           /\ Rank(lane, c) # 0 => Rank(lane, c) \in DOMAIN lane /\ lane[Rank(lane, c)] = c
<1>1. DOMAIN lane = 1..Len(lane) /\ Len(lane) \in Nat /\ Len(lane) <= LaneLimit /\ LaneLimit \in Nat
  BY AnswersAssumption DEF RankingAssumption, LaneOK
<1>2. CASE \E i \in DOMAIN lane : lane[i] = c
  <2>1. Rank(lane, c) \in DOMAIN lane /\ lane[Rank(lane, c)] = c
    BY <1>2 DEF Rank
  <2>2. c \in ToSet(lane)
    BY <1>2 DEF ToSet
  <2>3. \A i \in 1..Len(lane) : i \in 0..LaneLimit /\ i # 0
    BY <1>1
  <2> QED BY <1>1, <2>1, <2>2, <2>3
<1>3. CASE ~ \E i \in DOMAIN lane : lane[i] = c
  <2>1. Rank(lane, c) = 0 /\ c \notin ToSet(lane)
    BY <1>3 DEF Rank, ToSet
  <2> QED BY <1>1, <2>1
<1> QED BY <1>2, <1>3

LEMMA TimesIsMore == \A a, b \in Nat \ {0} : a * b \in Nat \ {0}
OBVIOUS

LEMMA DenominatorIsCommon ==
    ASSUME policy \in Policies
    PROVE  /\ Denominator \in Nat \ {0}
           /\ \A n \in 1..LaneLimit : \E q \in Nat \ {0} : Denominator = (policy.k + n) * q
<1> DEFINE k == policy.k
           m == LaneLimit
           Rule(g) == [n \in 0..m |-> IF n = 0 THEN 1 ELSE (k + n) * g[n - 1]]
           next == [n \in 1..m |-> [p \in Nat |-> (k + n) * p]]
<1>1. k \in Nat \ {0} /\ m \in Nat \ {0}
  BY AnswersAssumption DEF RankingAssumption
<1>2. Denominator = (CHOOSE g : g = Rule(g))[m]
  BY DEF Denominator
<1> HIDE DEF k, m
<1>3. \E g : g = Rule(g)
  <2>1. next \in Steps(m, Nat)
    BY <1>1 DEF Steps
  <2>2. PICK g \in Chains(m, Nat, 1, next) : TRUE
    <3>1. Chains(m, Nat, 1, next) # {}
      <4> HIDE DEF next
      <4> QED BY <1>1, <2>1, RecursionExists
    <3> QED BY <3>1
  <2>3. g \in [0..m -> Nat] /\ g[0] = 1 /\ \A n \in 1..m : g[n] = next[n][g[n - 1]]
    BY <2>2 DEF Chains
  <2>4. ASSUME NEW n \in 0..m PROVE g[n] = IF n = 0 THEN 1 ELSE (k + n) * g[n - 1]
    <3>1. CASE n = 0
      BY <2>3, <3>1
    <3>2. CASE n # 0
      <4>1. n \in 1..m /\ n - 1 \in 0..m
        BY <1>1, <3>2
      <4>2. g[n - 1] \in Nat
        BY <2>3, <4>1
      <4> QED BY <2>3, <3>2, <4>1, <4>2
    <3> QED BY <3>1, <3>2
  <2>5. g = Rule(g)
    BY <2>3, <2>4
  <2> QED BY <2>5
<1> DEFINE g == CHOOSE g : g = Rule(g)
<1>4. g = Rule(g)
  BY <1>3
<1> HIDE DEF g
<1>5. g[0] = 1 /\ \A n \in 1..m : g[n] = (k + n) * g[n - 1]
  <2>1. \A n \in 0..m : g[n] = IF n = 0 THEN 1 ELSE (k + n) * g[n - 1]
    BY <1>4
  <2>2. 0 \in 0..m /\ \A n \in 1..m : n \in 0..m /\ n # 0
    BY <1>1
  <2> HIDE DEF Rule
  <2> QED BY <2>1, <2>2
<1> HIDE DEF Rule
<1> DEFINE Common(n) ==
             /\ g[n] \in Nat \ {0}
             /\ \A i \in 1..n : \E q \in Nat \ {0} : g[n] = (k + i) * q
           A == {n \in 0..m : ~ Common(n)}
<1>6. A = {}
  <2> SUFFICES ASSUME A # {} PROVE FALSE
    OBVIOUS
  <2>1. PICK n \in A : \A j \in A : n <= j
    <3>1. A \subseteq Nat
      BY <1>1
    <3> HIDE DEF A
    <3> QED BY <3>1, Least
  <2>2. n # 0
    <3>1. Common(0)
      BY <1>5
    <3> QED BY <2>1, <3>1
  <2>3. n \in 1..m /\ n - 1 \in 0..m
    BY <1>1, <2>1, <2>2
  <2>4. n - 1 \notin A
    <3>1. n \in Nat /\ ~ n <= n - 1
      BY <1>1, <2>3
    <3> QED BY <2>1, <3>1
  <2>5. Common(n - 1)
    <3> HIDE DEF Common
    <3> QED BY <2>3, <2>4
  <2> DEFINE p == g[n - 1]
  <2>6. p \in Nat \ {0} /\ g[n] = (k + n) * p /\ k + n \in Nat \ {0}
    BY <1>1, <1>5, <2>3, <2>5
  <2>7. ASSUME NEW i \in 1..n PROVE \E q \in Nat \ {0} : g[n] = (k + i) * q
    <3>1. CASE i = n
      BY <2>6, <3>1
    <3>2. CASE i # n
      <4>1. i \in 1..n - 1 /\ k + i \in Nat
        BY <1>1, <2>3, <3>2
      <4>2. PICK q \in Nat \ {0} : p = (k + i) * q
        BY <2>5, <4>1
      <4> DEFINE a == k + i
                 b == k + n
      <4>3. a \in Nat /\ b \in Nat \ {0} /\ g[n] = b * (a * q)
        BY <2>6, <4>1, <4>2
      <4> HIDE DEF a, b
      <4>4. g[n] = a * (b * q) /\ b * q \in Nat \ {0}
        BY <4>3
      <4> QED BY <4>4 DEF a
    <3> QED BY <3>1, <3>2
  <2>8. g[n] \in Nat \ {0}
    <3> HIDE DEF p
    <3> DEFINE b == k + n
    <3>1. b \in Nat \ {0} /\ g[n] = b * p
      BY <2>6
    <3> HIDE DEF b
    <3> QED BY <2>6, <3>1, TimesIsMore
  <2>9. Common(n)
    BY <2>7, <2>8
  <2> QED BY <2>1, <2>9
<1>7. Common(m)
  <2> HIDE DEF Common
  <2>1. m \in 0..m
    BY <1>1
  <2> QED BY <1>6, <2>1
<1> QED BY <1>2, <1>7 DEF g, m, k, Rule

(* Of a common multiple, less remains for a greater divisor. *)
LEMMA GreaterDivisor ==
    ASSUME NEW a \in Nat \ {0}, NEW b \in Nat \ {0}, a < b,
           NEW p \in Nat \ {0}, NEW q \in Nat \ {0}, a * p = b * q
    PROVE  p > q
<1> SUFFICES ASSUME p <= q PROVE FALSE
  OBVIOUS
<1>1. PICK d \in Nat \ {0} : b = a + d
  <2>1. b - a \in Nat \ {0} /\ b = a + (b - a)
    OBVIOUS
  <2> QED BY <2>1
<1>2. PICK e \in Nat : q = p + e
  <2>1. q - p \in Nat /\ q = p + (q - p)
    OBVIOUS
  <2> QED BY <2>1
<1>3. b * q = a * p + a * e + d * q
  BY <1>1, <1>2
<1>4. a * e \in Nat /\ d * q \in Nat \ {0} /\ a * p \in Nat
  BY <1>1, <1>2, TimesIsMore
<1> QED BY <1>3, <1>4

LEMMA ExactDivision ==
    ASSUME NEW a \in Nat \ {0}, NEW q \in Nat, NEW d, d = a * q
    PROVE  d \div a = q
OBVIOUS

LEMMA SharesFall ==
    ASSUME policy \in Policies, NEW w \in Nat \ {0}
    PROVE  /\ Share(w, 0) = 0
           /\ \A r \in 1..LaneLimit : Share(w, r) \in Nat \ {0}
           /\ \A r, t \in 1..LaneLimit : r < t => Share(w, r) > Share(w, t)
<1> DEFINE k == policy.k
           m == LaneLimit
           D == Denominator
<1>1. k \in Nat \ {0} /\ m \in Nat \ {0}
  BY AnswersAssumption DEF RankingAssumption
<1>2. \A n \in 1..m : \E q \in Nat \ {0} : D = (k + n) * q
  BY DenominatorIsCommon
<1>3. Share(w, 0) = 0
  BY DEF Share
<1>4. \A r \in 1..m : Share(w, r) = w * (D \div (k + r))
  BY <1>1 DEF Share
<1> HIDE DEF k, m, D
<1>5. ASSUME NEW r \in 1..m
      PROVE  \E q \in Nat \ {0} : D = (k + r) * q /\ Share(w, r) = w * q
  <2>1. PICK q \in Nat \ {0} : D = (k + r) * q
    BY <1>2
  <2>2. k + r \in Nat \ {0}
    BY <1>1
  <2> DEFINE a == k + r
  <2>3. a \in Nat \ {0} /\ D = a * q
    BY <2>1, <2>2
  <2> HIDE DEF a
  <2>4. D \div a = q
    BY <2>3, ExactDivision
  <2> QED BY <1>4, <2>1, <2>4 DEF a
<1>6. \A r \in 1..m : Share(w, r) \in Nat \ {0}
  BY <1>5, TimesIsMore
<1>7. ASSUME NEW r \in 1..m, NEW t \in 1..m, r < t
      PROVE  Share(w, r) > Share(w, t)
  <2>1. PICK p \in Nat \ {0} : D = (k + r) * p /\ Share(w, r) = w * p
    BY <1>5
  <2>2. PICK q \in Nat \ {0} : D = (k + t) * q /\ Share(w, t) = w * q
    BY <1>5
  <2> DEFINE a == k + r
             b == k + t
  <2>3. a \in Nat \ {0} /\ b \in Nat \ {0} /\ a < b /\ a * p = b * q
    BY <1>1, <1>7, <2>1, <2>2
  <2> HIDE DEF a, b
  <2>4. p > q
    BY <2>3, GreaterDivisor
  <2>5. PICK e \in Nat \ {0} : p = q + e
    <3>1. p - q \in Nat \ {0} /\ p = q + (p - q)
      BY <2>4
    <3> QED BY <3>1
  <2>6. w * p = w * q + w * e /\ w * e \in Nat \ {0} /\ w * q \in Nat
    BY <2>5, TimesIsMore
  <2> QED BY <2>1, <2>2, <2>6
<1> QED BY <1>3, <1>6, <1>7 DEF m

(* What is fused of the lanes of the search. *)
Candidates == ToSet(keyword) \cup ToSet(vector)

Items == {Fused(keyword, vector, c) : c \in Candidates}

InBoth(f) == f.keyword # 0 /\ f.vector # 0

BestFirst(S) == Sorted(S, Better)

FusedOf == IF level = "strict" THEN Strict(BestFirst(Items)) ELSE BestFirst(Items)

RankingInv ==
    /\ policy \in Policies /\ limit \in Limits
    /\ LaneOK(keyword) /\ LaneOK(vector)
    /\ fused = IF stage = "retrieved" THEN <<>> ELSE FusedOf
    /\ evidence = IF stage = "grouped" THEN GroupEvidence(fused) ELSE <<>>
    /\ stage \in {"retrieved", "fused", "grouped"}

LEMMA RankingInvariant == RankingSpec => []RankingInv
<1>1. RankingInit => RankingInv
  BY LanesAreOK DEF RankingInit, RankingInv
<1>2. ASSUME RankingInv, [RankingNext]_rankingVars PROVE RankingInv'
  <2>1. CASE Fuse
    <3>1. fused' = FusedOf
      BY <2>1 DEF Fuse, FusedOf, BestFirst, Items, Candidates, Fusion
    <3>2. FusedOf' = FusedOf
      <4>1. UNCHANGED <<policy, level, keyword, vector>>
        BY <2>1 DEF Fuse
      <4> QED BY <4>1 DEF FusedOf, Items, Candidates, Fused, Share, Denominator
    <3>3. /\ policy' \in Policies /\ limit' \in Limits
          /\ LaneOK(keyword') /\ LaneOK(vector')
      BY <1>2, <2>1 DEF Fuse, RankingInv
    <3>4. stage' = "fused" /\ evidence' = <<>>
      BY <1>2, <2>1 DEF Fuse, RankingInv
    <3> HIDE DEF FusedOf
    <3> QED BY <3>1, <3>2, <3>3, <3>4 DEF RankingInv, LaneOK
  <2>2. CASE Answer
    <3>1. UNCHANGED <<policy, level, limit, keyword, vector, fused>>
      BY <2>2 DEF Answer
    <3>2. FusedOf' = FusedOf /\ GroupEvidence(fused)' = GroupEvidence(fused)
      BY <3>1 DEF FusedOf, Items, Candidates, Fused, Share, Denominator, GroupEvidence
    <3>3. stage = "fused" /\ stage' = "grouped" /\ evidence' = GroupEvidence(fused)
      BY <2>2 DEF Answer
    <3> QED BY <1>2, <3>1, <3>2, <3>3 DEF RankingInv, LaneOK
  <2>3. CASE UNCHANGED rankingVars
    <3>1. UNCHANGED <<policy, level, limit, keyword, vector, stage, fused, evidence>>
      BY <2>3 DEF rankingVars
    <3>2. FusedOf' = FusedOf /\ GroupEvidence(fused)' = GroupEvidence(fused)
      BY <3>1 DEF FusedOf, Items, Candidates, Fused, Share, Denominator, GroupEvidence
    <3> QED BY <1>2, <3>1, <3>2 DEF RankingInv, LaneOK
  <2> QED BY <1>2, <2>1, <2>2, <2>3 DEF RankingNext
<1> QED BY <1>1, <1>2, PTL DEF RankingSpec

LEMMA ItemIs ==
    ASSUME RankingInv, NEW c \in Candidates
    PROVE  LET f == Fused(keyword, vector, c)
           IN /\ c \in Chunks /\ f \in Items
              /\ f.chunk = c /\ f.keyword = Rank(keyword, c) /\ f.vector = Rank(vector, c)
              /\ f.score = Share(policy.keyword, Rank(keyword, c)) + Share(policy.vector, Rank(vector, c))
              /\ f.score \in Nat
<1> DEFINE f == Fused(keyword, vector, c)
<1>1. c \in Chunks
  <2>1. \A lane : LaneOK(lane) => ToSet(lane) \subseteq Chunks
    <3> SUFFICES ASSUME NEW lane, LaneOK(lane), NEW i \in DOMAIN lane PROVE lane[i] \in Chunks
      BY DEF ToSet
    <3> QED BY ElementOfSeq, LenProperties DEF LaneOK
  <2> QED BY <2>1 DEF RankingInv, Candidates
<1>2. /\ f.chunk = c /\ f.keyword = Rank(keyword, c) /\ f.vector = Rank(vector, c)
      /\ f.score = Share(policy.keyword, Rank(keyword, c)) + Share(policy.vector, Rank(vector, c))
  BY DEF Fused
<1>3. policy.keyword \in Nat \ {0} /\ policy.vector \in Nat \ {0} /\ policy \in Policies /\ LaneLimit \in Nat
  BY AnswersAssumption DEF RankingAssumption, RankingInv
<1>4. Rank(keyword, c) \in 0..LaneLimit /\ Rank(vector, c) \in 0..LaneLimit
  BY RankIs DEF RankingInv
<1>5. ASSUME NEW w \in Nat \ {0}, NEW r \in 0..LaneLimit PROVE Share(w, r) \in Nat
  <2>1. r = 0 \/ r \in 1..LaneLimit
    BY <1>3
  <2> QED BY <1>3, <2>1, SharesFall
<1>6. Share(policy.keyword, Rank(keyword, c)) \in Nat /\ Share(policy.vector, Rank(vector, c)) \in Nat
  BY <1>3, <1>4, <1>5
<1>7. f \in Items
  BY DEF Items
<1> HIDE DEF f
<1> QED BY <1>1, <1>2, <1>6, <1>7 DEF f

LEMMA ImageIsFinite ==
    ASSUME NEW S, NEW T, NEW f \in Surjection(S, T), IsFiniteSet(S)
    PROVE  IsFiniteSet(T)
BY FS_Surjection

LEMMA ItemsAreItems == ASSUME RankingInv PROVE AreItems(Items)
<1> DEFINE item(c) == Fused(keyword, vector, c)
           f == [c \in Candidates |-> item(c)]
<1>1. Candidates \subseteq Chunks
  BY ItemIs
<1>2. IsFiniteSet(Candidates)
  BY <1>1, AnswersAssumption, FS_Subset DEF RankingAssumption
<1>3. \A c \in Candidates : item(c).chunk = c /\ item(c).score \in Nat /\ item(c) \in Items
  BY ItemIs
<1>4. \A i \in Items : \E c \in Candidates : i = item(c)
  BY DEF Items
<1> HIDE DEF item
<1>5. f \in Surjection(Candidates, Items)
  BY <1>3, <1>4 DEF Surjection
<1>6. IsFiniteSet(Items)
  <2> HIDE DEF f
  <2> QED BY <1>2, <1>5, ImageIsFinite
<1>7. Chunks \subseteq Nat
  BY AnswersAssumption DEF RankingAssumption
<1> QED BY <1>1, <1>3, <1>4, <1>6, <1>7 DEF AreItems

(* What Fuse makes: the candidates, or those of both lanes, the best first. *)
LEMMA FusedIs ==
    ASSUME RankingInv, stage # "retrieved"
    PROVE  /\ fused \in Seq(Items)
           /\ \A i, j \in DOMAIN fused : i < j <=> Better(fused[i], fused[j])
           /\ ToSet(fused) = IF level = "strict" THEN {f \in Items : InBoth(f)} ELSE Items
<1> DEFINE all == BestFirst(Items)
           n == Len(all)
<1>1. Lists(all, BetterPairs(Items), Items) /\ IsFiniteSet(Items)
  BY ItemsAreItems, ItemsAreListed DEF BestFirst, AreItems
<1>2. fused = IF level = "strict" THEN Strict(all) ELSE all
  BY DEF RankingInv, FusedOf
<1> HIDE DEF all
<1>3. all \in Seq(Items) /\ DOMAIN all = 1..n /\ n \in Nat
  BY <1>1, FS_CardinalityType DEF Lists
<1>4. \A i \in 1..n : all[i] \in Items
  BY <1>3, ElementOfSeq
<1>5. \A x \in Items : \E i \in 1..n : all[i] = x
  BY <1>1, <1>3 DEF Lists
<1>6. \A i, j \in 1..n : i < j <=> Better(all[i], all[j])
  BY <1>1, <1>3, <1>4 DEF Lists, BetterPairs
<1>7. CASE level # "strict"
  <2>1. fused = all
    BY <1>2, <1>7
  <2>2. ToSet(all) = Items
    BY <1>3, <1>4, <1>5 DEF ToSet
  <2> QED BY <1>3, <1>6, <1>7, <2>1, <2>2
<1>8. CASE level = "strict"
  <2> DEFINE K == {i \in DOMAIN all : all[i].keyword # 0 /\ all[i].vector # 0}
             kept == Sorted(K, <)
             m == Cardinality(K)
  <2>1. fused = [k \in DOMAIN kept |-> all[kept[k]]]
    BY <1>2, <1>8 DEF Strict
  <2>2. K \subseteq 1..n /\ IsFiniteSet(K)
    <3>1. IsFiniteSet(1..n)
      BY <1>3, FS_Interval
    <3> QED BY <1>3, <3>1, FS_Subset
  <2>3. Lists(kept, SmallerPairs(K), K)
    <3>1. K \in SUBSET Nat
      BY <1>3, <2>2
    <3> HIDE DEF K
    <3> QED BY <2>2, <3>1, NumbersAreListed
  <2>4. m \in Nat
    BY <2>2, FS_CardinalityType
  <2>5. \A i \in K : InBoth(all[i])
    BY DEF InBoth
  <2>6. \A i \in 1..n : InBoth(all[i]) => i \in K
    BY <1>3 DEF InBoth
  <2> HIDE DEF K, kept, m
  <2>7. kept \in Seq(K) /\ Len(kept) = m /\ DOMAIN kept = 1..m
    BY <2>3 DEF Lists, m
  <2>8. \A k \in 1..m : kept[k] \in K
    BY <2>7, ElementOfSeq
  <2>9. \A j, k \in 1..m : j < k <=> kept[j] < kept[k]
    BY <2>3, <2>7, <2>8 DEF Lists, SmallerPairs
  <2>10. \A i \in K : \E k \in 1..m : kept[k] = i
    BY <2>3, <2>7 DEF Lists
  <2>11. fused = [k \in 1..m |-> all[kept[k]]]
    BY <2>1, <2>7
  <2>12. \A k \in 1..m : fused[k] = all[kept[k]] /\ fused[k] \in Items
    BY <1>4, <2>2, <2>8, <2>11
  <2>13. fused \in Seq(Items) /\ DOMAIN fused = 1..m
    BY <2>4, <2>11, <2>12
  <2>14. ToSet(fused) = {f \in Items : InBoth(f)}
    <3>1. ASSUME NEW f \in Items, InBoth(f) PROVE \E k \in 1..m : fused[k] = f
      <4>1. PICK i \in 1..n : all[i] = f
        BY <1>5
      <4>2. PICK k \in 1..m : kept[k] = i
        BY <2>6, <2>10, <3>1, <4>1
      <4> QED BY <2>12, <4>1, <4>2
    <3>2. \A k \in 1..m : fused[k] \in Items /\ InBoth(fused[k])
      BY <2>5, <2>8, <2>12
    <3> QED BY <2>13, <3>1, <3>2 DEF ToSet
  <2>15. ASSUME NEW j \in 1..m, NEW k \in 1..m PROVE j < k <=> Better(fused[j], fused[k])
    <3>1. kept[j] \in 1..n /\ kept[k] \in 1..n
      BY <2>2, <2>8
    <3> QED BY <1>6, <2>9, <2>12, <3>1
  <2> QED BY <1>8, <2>13, <2>14, <2>15
<1> QED BY <1>7, <1>8

(* A child that neither lane puts behind another has the greater score. *)
LEMMA ScoresRespectLanes ==
    ASSUME RankingInv, NEW c \in Candidates, NEW d \in Candidates, c # d,
           NotBehind(keyword, c, d), NotBehind(vector, c, d)
    PROVE  Better(Fused(keyword, vector, c), Fused(keyword, vector, d))
<1>1. policy.keyword \in Nat \ {0} /\ policy.vector \in Nat \ {0} /\ policy \in Policies /\ LaneLimit \in Nat
  BY AnswersAssumption DEF RankingAssumption, RankingInv
<1>2. ASSUME NEW lane, LaneOK(lane), NotBehind(lane, c, d), NEW w \in Nat \ {0}
      PROVE  /\ Share(w, Rank(lane, c)) \in Nat /\ Share(w, Rank(lane, d)) \in Nat
             /\ Share(w, Rank(lane, c)) >= Share(w, Rank(lane, d))
             /\ d \in ToSet(lane) => Share(w, Rank(lane, c)) > Share(w, Rank(lane, d))
  <2> DEFINE r == Rank(lane, c)
             t == Rank(lane, d)
  <2>1. /\ r \in 0..LaneLimit /\ t \in 0..LaneLimit
        /\ t # 0 <=> d \in ToSet(lane)
        /\ r # 0 => r \in DOMAIN lane /\ lane[r] = c
        /\ t # 0 => t \in DOMAIN lane /\ lane[t] = d
    BY <1>2, RankIs
  <2>2. t = 0 \/ r \in 1..t
    BY <1>2 DEF NotBehind
  <2>3. /\ Share(w, 0) = 0
        /\ \A i \in 1..LaneLimit : Share(w, i) \in Nat \ {0}
        /\ \A i, j \in 1..LaneLimit : i < j => Share(w, i) > Share(w, j)
    BY <1>1, SharesFall
  <2> HIDE DEF r, t
  <2>4. r = 0 \/ r \in 1..LaneLimit
    BY <1>1, <2>1
  <2>5. CASE t = 0
    <3>1. Share(w, r) \in Nat /\ Share(w, t) = 0
      BY <2>3, <2>4, <2>5
    <3> QED BY <2>1, <2>5, <3>1 DEF r, t
  <2>6. CASE t # 0
    <3>1. r # t
      BY <2>1, <2>2, <2>6
    <3>2. r \in 1..LaneLimit /\ t \in 1..LaneLimit /\ r < t
      BY <1>1, <2>1, <2>2, <2>6, <3>1
    <3>3. Share(w, r) > Share(w, t) /\ Share(w, r) \in Nat /\ Share(w, t) \in Nat
      BY <2>3, <3>2
    <3>4. Share(w, r) >= Share(w, t)
      BY <3>3
    <3> QED BY <3>3, <3>4 DEF r, t
  <2> QED BY <2>5, <2>6
<1> DEFINE a == Share(policy.keyword, Rank(keyword, c))
           b == Share(policy.keyword, Rank(keyword, d))
           x == Share(policy.vector, Rank(vector, c))
           y == Share(policy.vector, Rank(vector, d))
<1>3. a \in Nat /\ b \in Nat /\ a >= b /\ (d \in ToSet(keyword) => a > b)
  BY <1>1, <1>2 DEF RankingInv
<1>4. x \in Nat /\ y \in Nat /\ x >= y /\ (d \in ToSet(vector) => x > y)
  BY <1>1, <1>2 DEF RankingInv
<1>5. Fused(keyword, vector, c).score = a + x /\ Fused(keyword, vector, d).score = b + y
  BY ItemIs
<1>6. d \in ToSet(keyword) \/ d \in ToSet(vector)
  BY DEF Candidates
<1> HIDE DEF a, b, x, y
<1>7. a + x > b + y
  BY <1>3, <1>4, <1>6
<1> QED BY <1>5, <1>7 DEF Better

LEMMA LanesAreRespected == ASSUME RankingInv PROVE FusionRespectsLanes
<1>1. CASE stage = "retrieved"
  <2>1. DOMAIN fused = {}
    BY <1>1 DEF RankingInv
  <2> QED BY <2>1 DEF FusionRespectsLanes
<1>2. CASE stage # "retrieved"
  <2> SUFFICES ASSUME NEW i \in DOMAIN fused, NEW j \in DOMAIN fused,
                      fused[i].chunk # fused[j].chunk,
                      NotBehind(keyword, fused[i].chunk, fused[j].chunk),
                      NotBehind(vector, fused[i].chunk, fused[j].chunk)
               PROVE  i < j
    BY DEF FusionRespectsLanes
  <2>1. fused \in Seq(Items) /\ (i < j <=> Better(fused[i], fused[j]))
    BY <1>2, FusedIs
  <2>2. fused[i] \in Items /\ fused[j] \in Items
    BY <2>1, ElementOfSeq, LenProperties
  <2>3. PICK c \in Candidates : fused[i] = Fused(keyword, vector, c)
    BY <2>2 DEF Items
  <2>4. PICK d \in Candidates : fused[j] = Fused(keyword, vector, d)
    BY <2>2 DEF Items
  <2>5. fused[i].chunk = c /\ fused[j].chunk = d
    BY <2>3, <2>4, ItemIs
  <2> QED BY <2>1, <2>3, <2>4, <2>5, ScoresRespectLanes
<1> QED BY <1>1, <1>2

LEMMA StrictHasBoth == ASSUME RankingInv PROVE StrictOnlyRemoves
<1> SUFFICES ASSUME stage = "fused", level = "strict"
             PROVE  ToSet(fused) = {Fused(keyword, vector, c) : c \in ToSet(keyword) \cap ToSet(vector)}
  BY DEF StrictOnlyRemoves
<1>1. ToSet(fused) = {f \in Items : InBoth(f)}
  BY FusedIs
<1>2. ASSUME NEW c \in Candidates
      PROVE  InBoth(Fused(keyword, vector, c)) <=> c \in ToSet(keyword) \cap ToSet(vector)
  <2>1. LaneOK(keyword) /\ LaneOK(vector)
    BY DEF RankingInv
  <2>2. /\ Fused(keyword, vector, c).keyword = Rank(keyword, c)
        /\ Fused(keyword, vector, c).vector = Rank(vector, c)
    BY ItemIs
  <2> QED BY <2>1, <2>2, RankIs DEF InBoth
<1>3. ToSet(keyword) \cap ToSet(vector) \subseteq Candidates
  BY DEF Candidates
<1> QED BY <1>1, <1>2, <1>3 DEF Items

LEMMA SameSize ==
    ASSUME NEW S, NEW T, NEW f \in Surjection(S, T), IsFiniteSet(S),
           \A x, y \in S : f[x] = f[y] => x = y
    PROVE  IsFiniteSet(T) /\ Cardinality(T) = Cardinality(S)
<1>1. f \in Injection(S, T)
  BY DEF Injection, Surjection, IsInjective
<1> QED BY <1>1, FS_Surjection

(* The children that were fused, and their sections. *)
Found == ToSet(fused)

Sections == {ParentOf[f.chunk] : f \in Found}

Of(q) == {f \in Found : ParentOf[f.chunk] = q}

GroupSet == {Group(q, fused) : q \in Sections}

LEMMA FoundIs ==
    ASSUME RankingInv
    PROVE  /\ AreItems(Found) /\ Found \subseteq Items
           /\ \A f \in Found : f.chunk \in Chunks /\ ParentOf[f.chunk] \in Nat
<1>1. Found \subseteq Items
  <2>1. CASE stage = "retrieved"
    BY <2>1 DEF RankingInv, Found, ToSet
  <2>2. CASE stage # "retrieved"
    BY <2>2, FusedIs DEF Found
  <2> QED BY <2>1, <2>2
<1>2. \A f \in Items : f.chunk \in Chunks
  BY ItemIs DEF Items
<1>3. AreItems(Found)
  <2>1. AreItems(Items)
    BY ItemsAreItems
  <2>2. IsFiniteSet(Found)
    BY <1>1, <2>1, FS_Subset DEF AreItems
  <2> QED BY <1>1, <2>1, <2>2 DEF AreItems
<1> QED BY <1>1, <1>2, <1>3, AnswersAssumption DEF RankingAssumption

LEMMA GroupIs ==
    ASSUME RankingInv, NEW q \in Sections
    PROVE  LET g == Group(q, fused)
           IN /\ g.parent = q /\ q \in Nat
              /\ g.score \in Nat
              /\ \A f \in Of(q) : f \in ToSet(g.matches) /\ g.score >= f.score
<1> DEFINE S == Of(q)
           s == MatchesOf(q, fused)
<1>1. S \subseteq Found /\ S # {} /\ q \in Nat
  BY FoundIs DEF Sections, Of
<1>2. AreItems(S)
  <2>1. AreItems(Found)
    BY FoundIs
  <2>2. IsFiniteSet(S)
    BY <1>1, <2>1, FS_Subset DEF AreItems
  <2> QED BY <1>1, <2>1, <2>2 DEF AreItems
<1>3. Lists(s, BetterPairs(S), S)
  <2>1. s = Sorted(S, Better)
    BY DEF MatchesOf, Of, Found
  <2>2. Lists(Sorted(S, Better), BetterPairs(S), S)
    <3> HIDE DEF S
    <3> QED BY <1>2, ItemsAreListed
  <2> QED BY <2>1, <2>2
<1>4. Group(q, fused) = [parent |-> q, score |-> Head(s).score, matches |-> s]
  BY DEF Group
<1> DEFINE n == Cardinality(S)
<1> HIDE DEF S, s
<1>5. n \in Nat /\ n # 0
  BY <1>1, <1>2, FS_CardinalityType, FS_EmptySet DEF AreItems
<1>6. s \in Seq(S) /\ Len(s) = n /\ DOMAIN s = 1..n
  BY <1>3 DEF Lists
<1> HIDE DEF n
<1>7. 1 \in 1..n /\ Head(s) = s[1] /\ s[1] \in S
  <2>1. 1 \in 1..n
    BY <1>5
  <2>2. s[1] \in S
    BY <1>6, <2>1, ElementOfSeq
  <2> QED BY <1>6, <2>1, <2>2
<1>8. ASSUME NEW f \in S PROVE f \in ToSet(s) /\ s[1].score >= f.score
  <2>1. PICK i \in 1..n : s[i] = f
    BY <1>3, <1>6 DEF Lists
  <2>2. f \in ToSet(s)
    BY <1>6, <2>1 DEF ToSet
  <2>3. f.score \in Nat /\ s[1].score \in Nat
    BY <1>2, <1>7 DEF AreItems
  <2>4. i = 1 \/ 1 < i
    BY <1>5, <2>1
  <2>5. CASE i = 1
    BY <2>1, <2>2, <2>3, <2>5
  <2>6. CASE 1 < i
    <3>1. Better(s[1], s[i])
      BY <1>3, <1>6, <1>7, <2>6 DEF Lists, BetterPairs
    <3>2. s[1].score >= s[i].score
      <4> DEFINE a == s[1].score
                 b == s[i].score
      <4>1. a > b \/ a = b
        BY <3>1 DEF Better
      <4>2. a \in Nat /\ b \in Nat
        BY <2>1, <2>3
      <4> HIDE DEF a, b
      <4>3. a >= b
        BY <4>1, <4>2
      <4> QED BY <4>3 DEF a, b
    <3> QED BY <2>1, <2>2, <3>2
  <2> QED BY <2>4, <2>5, <2>6
<1>9. Head(s).score \in Nat
  BY <1>2, <1>7 DEF AreItems
<1> QED BY <1>1, <1>4, <1>7, <1>8, <1>9 DEF S

LEMMA GroupsAre ==
    ASSUME RankingInv
    PROVE  /\ AreGroups(GroupSet)
           /\ Cardinality(GroupSet) = Cardinality(Sections)
           /\ Lists(Groups(fused), AheadPairs(GroupSet), GroupSet)
<1>1. IsFiniteSet(Sections)
  <2> DEFINE f == [x \in Found |-> ParentOf[x.chunk]]
  <2>1. f \in Surjection(Found, Sections)
    BY DEF Surjection, Sections
  <2>2. IsFiniteSet(Found)
    BY FoundIs DEF AreItems
  <2> HIDE DEF f
  <2> QED BY <2>1, <2>2, ImageIsFinite
<1> DEFINE group(q) == Group(q, fused)
           f == [q \in Sections |-> group(q)]
<1>2. \A q \in Sections : group(q).parent = q /\ q \in Nat /\ group(q).score \in Nat
  BY GroupIs
<1>3. \A g : g \in GroupSet <=> \E q \in Sections : g = group(q)
  BY DEF GroupSet
<1>4. Groups(fused) = Sorted(GroupSet, Ahead)
  <2>1. GroupSet = {Group(ParentOf[x.chunk], fused) : x \in ToSet(fused)}
    BY DEF GroupSet, Sections, Found
  <2> QED BY <2>1 DEF Groups
<1> HIDE DEF group
<1>5. f \in Surjection(Sections, GroupSet) /\ \A p, q \in Sections : f[p] = f[q] => p = q
  <2>1. f \in Surjection(Sections, GroupSet)
    BY <1>3 DEF Surjection
  <2>2. \A p, q \in Sections : f[p] = f[q] => p = q
    BY <1>2
  <2> QED BY <2>1, <2>2
<1>6. IsFiniteSet(GroupSet) /\ Cardinality(GroupSet) = Cardinality(Sections)
  <2> HIDE DEF f
  <2> QED BY <1>1, <1>5, SameSize
<1>7. AreGroups(GroupSet)
  BY <1>2, <1>3, <1>6 DEF AreGroups
<1>8. Lists(Sorted(GroupSet, Ahead), AheadPairs(GroupSet), GroupSet)
  BY <1>7, GroupsAreListed
<1> QED BY <1>4, <1>6, <1>7, <1>8

LEMMA BestAreKept == ASSUME RankingInv PROVE BestSectionsAreKept
<1> DEFINE all == Groups(fused)
           m == Len(evidence)
           shown == {g.parent : g \in ToSet(evidence)}
<1> SUFFICES ASSUME stage = "grouped"
             PROVE  /\ m = Cardinality(shown)
                    /\ m = Min({limit, Cardinality(Sections)})
                    /\ \A f \in Found :
                         IF ParentOf[f.chunk] \in shown
                         THEN \E g \in ToSet(evidence) : f \in ToSet(g.matches)
                         ELSE \A g \in ToSet(evidence) : g.score >= f.score
  BY DEF BestSectionsAreKept, Sections, Found
<1>1. evidence = First(limit, all) /\ limit \in Nat
  BY AnswersAssumption DEF RankingInv, GroupEvidence, RankingAssumption
<1>2. /\ AreGroups(GroupSet) /\ Cardinality(GroupSet) = Cardinality(Sections)
      /\ Lists(all, AheadPairs(GroupSet), GroupSet)
  BY GroupsAre
<1> HIDE DEF all
<1> DEFINE n == Cardinality(GroupSet)
<1>3. n \in Nat /\ all \in Seq(GroupSet) /\ Len(all) = n /\ DOMAIN all = 1..n
  BY <1>2, FS_CardinalityType DEF Lists, AreGroups
<1>4. /\ \A x \in GroupSet : \E i \in 1..n : all[i] = x
      /\ \A i \in 1..n : all[i] \in GroupSet
      /\ \A i, j \in 1..n : i < j <=> Ahead(all[i], all[j])
  <2>1. \A i \in 1..n : all[i] \in GroupSet
    BY <1>3, ElementOfSeq
  <2> QED BY <1>2, <1>3, <2>1 DEF Lists, AheadPairs
<1>5. /\ evidence \in Seq(GroupSet) /\ DOMAIN evidence = 1..m
      /\ m = Min({limit, n}) /\ m \in {limit, n} /\ m <= limit /\ m <= n
      /\ \A i \in 1..m : i \in 1..n /\ evidence[i] = all[i]
  <2> DEFINE e == First(limit, all)
             l == Len(e)
  <2>1. /\ e \in Seq(GroupSet) /\ DOMAIN e = 1..l
        /\ l = Min({limit, Len(all)}) /\ l \in {limit, Len(all)} /\ l <= limit /\ l <= Len(all)
        /\ \A i \in DOMAIN e : i \in DOMAIN all /\ e[i] = all[i]
    BY <1>1, <1>3, FirstOnes
  <2> HIDE DEF e, n
  <2>2. e = evidence /\ l = m
    BY <1>1 DEF e
  <2> HIDE DEF l, m
  <2> QED BY <1>3, <2>1, <2>2
<1>6. m = Min({limit, Cardinality(Sections)})
  BY <1>2, <1>5
<1>7. \A g \in GroupSet : g.score \in Nat /\ g.parent \in Nat
  BY <1>2 DEF AreGroups
<1>8. \A g, h \in GroupSet : g.parent = h.parent => g = h
  BY <1>2 DEF AreGroups
<1>9. \A i, j \in 1..n : all[i] = all[j] => i = j
  <2> SUFFICES ASSUME NEW i \in 1..n, NEW j \in 1..n, all[i] = all[j], i # j PROVE FALSE
    OBVIOUS
  <2>1. i < j \/ j < i
    BY <1>3
  <2>2. Ahead(all[i], all[i])
    BY <1>4, <2>1
  <2>3. all[i].score \in Nat /\ all[i].parent \in Nat
    BY <1>4, <1>7
  <2> QED BY <2>2, <2>3 DEF Ahead
<1>10. m \in Nat
  BY <1>1, <1>3, <1>5
<1>11. \A g : g \in ToSet(evidence) <=> \E i \in 1..m : g = all[i]
  BY <1>5 DEF ToSet
<1> HIDE DEF m, n
<1>12. m = Cardinality(shown)
  <2> DEFINE f == [i \in 1..m |-> all[i].parent]
  <2>1. f \in Surjection(1..m, shown)
    BY <1>11 DEF Surjection
  <2>2. ASSUME NEW i \in 1..m, NEW j \in 1..m, f[i] = f[j] PROVE i = j
    <3>1. i \in 1..n /\ j \in 1..n
      BY <1>5
    <3>2. all[i] = all[j]
      BY <1>4, <1>8, <2>2, <3>1
    <3> QED BY <1>9, <3>1, <3>2
  <2>3. IsFiniteSet(1..m) /\ Cardinality(1..m) = m
    <3>1. IsFiniteSet(1..m) /\ Cardinality(1..m) = IF 1 > m THEN 0 ELSE m - 1 + 1
      BY <1>10, FS_Interval
    <3> QED BY <1>10, <3>1
  <2> HIDE DEF f, shown
  <2>4. Cardinality(shown) = Cardinality(1..m)
    BY <2>1, <2>2, <2>3, SameSize
  <2> QED BY <2>3, <2>4
<1>13. ASSUME NEW f \in Found
       PROVE  IF ParentOf[f.chunk] \in shown
              THEN \E g \in ToSet(evidence) : f \in ToSet(g.matches)
              ELSE \A g \in ToSet(evidence) : g.score >= f.score
  <2> DEFINE q == ParentOf[f.chunk]
             own == Group(q, fused)
  <2>1. q \in Sections /\ f \in Of(q)
    BY DEF Sections, Of
  <2>2. own \in GroupSet /\ own.parent = q /\ own.score \in Nat
        /\ f \in ToSet(own.matches) /\ own.score >= f.score
    BY <2>1, GroupIs DEF GroupSet
  <2> HIDE DEF own, q
  <2>3. f.score \in Nat
    BY FoundIs DEF AreItems
  <2>4. CASE q \in shown
    <3>1. PICK i \in 1..m : q = all[i].parent
      BY <1>11, <2>4
    <3>2. all[i] = own
      <4>1. i \in 1..n /\ all[i] \in GroupSet
        BY <1>4, <1>5
      <4> QED BY <1>8, <2>2, <3>1, <4>1
    <3>3. own \in ToSet(evidence)
      BY <1>11, <3>1, <3>2
    <3> QED BY <2>2, <2>4, <3>3 DEF q
  <2>5. CASE q \notin shown
    <3>1. ASSUME NEW g \in ToSet(evidence) PROVE g.score >= f.score
      <4>1. PICK i \in 1..m : g = all[i]
        BY <1>11
      <4>2. PICK j \in 1..n : own = all[j]
        BY <1>4, <2>2
      <4>3. j \notin 1..m
        <5> SUFFICES ASSUME j \in 1..m PROVE FALSE
          OBVIOUS
        <5>1. own \in ToSet(evidence)
          BY <1>11, <4>2
        <5> QED BY <2>2, <2>5, <5>1
      <4>4. i \in 1..n /\ i < j
        BY <1>3, <1>5, <1>10, <4>3
      <4>5. Ahead(g, own)
        BY <1>4, <4>1, <4>2, <4>4
      <4>6. g.score \in Nat
        BY <1>4, <1>7, <4>1, <4>4
      <4> DEFINE a == g.score
                 b == own.score
                 c == f.score
      <4>7. (a > b \/ a = b) /\ a \in Nat /\ b \in Nat /\ c \in Nat /\ b >= c
        BY <2>2, <2>3, <4>5, <4>6 DEF Ahead
      <4> HIDE DEF a, b, c
      <4>8. a >= c
        BY <4>7
      <4> QED BY <4>8 DEF a, c
    <3> QED BY <2>5, <3>1 DEF q
  <2> QED BY <2>4, <2>5
<1> QED BY <1>6, <1>12, <1>13

LEMMA RankingIsBest ==
    RankingSpec => [](FusionRespectsLanes /\ BestSectionsAreKept /\ StrictOnlyRemoves)
<1>1. RankingInv => FusionRespectsLanes /\ BestSectionsAreKept /\ StrictOnlyRemoves
  BY LanesAreRespected, BestAreKept, StrictHasBoth
<1> QED BY <1>1, RankingInvariant, PTL

---------------------------------------------------------------------------
(***************************************************************************)
(* The calibration.  The scores of the known cases are those of the batches*)
(* retrieved, and the unknown batch is the one of the fixture's unknown case.*)
(***************************************************************************)
LEMMA MaxIs ==
    ASSUME NEW n \in Nat, NEW S \in SUBSET (0..n), S # {}
    PROVE  Max(S) \in S /\ \A x \in S : x <= Max(S)
<1> DEFINE T == {n - x : x \in S}
<1>0. \A x \in S : x \in 0..n
  OBVIOUS
<1>1. T \subseteq Nat /\ T # {}
  <2>1. \A x \in S : n - x \in Nat
    BY <1>0
  <2> QED BY <2>1
<1>2. PICK t \in T : \A u \in T : t <= u
  <2> HIDE DEF T
  <2> QED BY <1>1, Least
<1>3. PICK m \in S : t = n - m
  BY <1>2
<1>4. ASSUME NEW x \in S PROVE m >= x /\ x <= m
  <2>1. t <= n - x
    BY <1>2
  <2>2. x \in 0..n /\ m \in 0..n
    BY <1>0
  <2> QED BY <1>3, <2>1, <2>2
<1>5. Max(S) \in S /\ \A y \in S : Max(S) >= y
  <2>1. \E x \in S : \A y \in S : x >= y
    BY <1>4
  <2>2. Max(S) = CHOOSE x \in S : \A y \in S : x >= y
    BY DEF Max
  <2> HIDE DEF T
  <2> QED BY <2>1, <2>2
<1>6. ASSUME NEW x \in S PROVE x <= Max(S)
  <2>1. x \in 0..n /\ Max(S) \in 0..n /\ Max(S) >= x
    BY <1>0, <1>5
  <2> QED BY <2>1
<1> QED BY <1>5, <1>6

(* What a known case adds to the scores. *)
EntryOf(batch) ==
    [keyword |-> BestAcceptable(batch.keyword), vector |-> BestAcceptable(batch.vector)]

Retrievable == UNION {Batches[i] : i \in DOMAIN Batches}

Entries == {EntryOf(batch) : batch \in Retrievable}

CalibrationInv ==
    /\ retrieved \in Seq(Retrievable) /\ Len(retrieved) <= Len(Cases)
    /\ known \in Seq(Entries)
    /\ \A i \in DOMAIN retrieved : Cases[i] = "ok" => EntryOf(retrieved[i]) \in ToSet(known)
    /\ \A e \in ToSet(known) : \E i \in DOMAIN retrieved : Cases[i] = "ok" /\ e = EntryOf(retrieved[i])
    /\ \A batch : batch \in unknown <=>
         \E i \in DOMAIN retrieved : Cases[i] = "no_evidence" /\ batch = retrieved[i]
    /\ report.status # "running" => Len(retrieved) = Len(Cases)
    /\ FloorsSeparate

LEMMA CasesAre ==
    /\ Len(Cases) \in Nat /\ DOMAIN Cases = 1..Len(Cases) /\ DOMAIN Batches = 1..Len(Cases)
    /\ \A i \in DOMAIN Cases : Cases[i] \in {"ok", "no_evidence"}
<1>1. Cases \in Seq({"ok", "no_evidence"}) /\ DOMAIN Batches = DOMAIN Cases
  BY AnswersAssumption DEF CalibrationAssumption
<1> QED BY <1>1, ElementOfSeq, LenProperties

LEMMA BatchesAre ==
    ASSUME NEW batch \in Retrievable, NEW lane \in {batch.keyword, batch.vector}
    PROVE  /\ \A c \in ToSet(lane) : c.score \in 0..One
           /\ \A c \in Acceptable(lane) : c.score \in 0..One
<1>1. PICK i \in DOMAIN Batches : batch \in Batches[i]
  BY DEF Retrievable
<1>2. \A k \in DOMAIN lane : lane[k].score \in 0..One
  BY <1>1, AnswersAssumption DEF CalibrationAssumption
<1> QED BY <1>2 DEF ToSet, Acceptable

(* No floor up to a maximum drops all that was found, and any above it does. *)
LEMMA MaximumIs ==
    ASSUME NEW batch \in Retrievable, NEW lane \in {batch.keyword, batch.vector}
    PROVE  /\ Maximum(lane) \in 0..One
           /\ \A floor \in Nat \ {0} : Retained(ToSet(lane), floor) = {} <=> floor > Maximum(lane)
<1> DEFINE S == {0} \cup ScoresOf(ToSet(lane))
           m == Maximum(lane)
<1>1. One \in Nat
  BY AnswersAssumption DEF CalibrationAssumption
<1>2. \A c \in ToSet(lane) : c.score \in 0..One
  BY BatchesAre
<1>3. S \in SUBSET (0..One) /\ S # {}
  BY <1>1, <1>2 DEF ScoresOf
<1>4. m \in S /\ \A x \in S : x <= m
  <2>1. m = Max(S)
    BY DEF Maximum
  <2> HIDE DEF S, m
  <2> QED BY <1>1, <1>3, <2>1, MaxIs
<1>5. m = 0 \/ \E c \in ToSet(lane) : m = c.score
  <2> HIDE DEF m
  <2> QED BY <1>4 DEF ScoresOf
<1>6. \A c \in ToSet(lane) : c.score <= m
  <2> HIDE DEF m
  <2> QED BY <1>4 DEF ScoresOf
<1>7. m \in 0..One
  BY <1>3, <1>4
<1> HIDE DEF m, S
<1>8. ASSUME NEW floor \in Nat \ {0}
      PROVE  Retained(ToSet(lane), floor) = {} <=> floor > m
  <2>1. ASSUME floor > m, NEW c \in ToSet(lane), c.score >= floor PROVE FALSE
    <3>1. c.score <= m /\ c.score \in Nat /\ m \in Nat
      BY <1>2, <1>6, <1>7
    <3> DEFINE a == c.score
    <3> HIDE DEF a
    <3>2. a <= m /\ a \in Nat /\ m \in Nat /\ a >= floor
      BY <3>1, <2>1 DEF a
    <3> QED BY <2>1, <3>2
  <2>2. ASSUME ~ floor > m PROVE \E c \in ToSet(lane) : c.score >= floor
    <3>1. m \in Nat /\ m # 0 /\ m >= floor
      BY <1>7, <2>2
    <3>2. PICK c \in ToSet(lane) : m = c.score
      BY <1>5, <3>1
    <3> QED BY <3>1, <3>2
  <2> QED BY <2>1, <2>2 DEF Retained
<1> QED BY <1>7, <1>8 DEF m

(* The best acceptable score passes a floor if any of them does. *)
LEMMA BestIs ==
    ASSUME NEW batch \in Retrievable, NEW lane \in {batch.keyword, batch.vector}, NEW m \in Nat
    PROVE  (\E score \in BestAcceptable(lane) : score > m) <=> Retained(Acceptable(lane), m + 1) # {}
<1> DEFINE S == ScoresOf(Acceptable(lane))
<1>1. One \in Nat
  BY AnswersAssumption DEF CalibrationAssumption
<1>2. \A c \in Acceptable(lane) : c.score \in 0..One
  BY BatchesAre
<1>3. S \in SUBSET (0..One)
  BY <1>2 DEF ScoresOf
<1>4. BestAcceptable(lane) = IF S = {} THEN {} ELSE {Max(S)}
  BY DEF BestAcceptable
<1>5. (\E x \in S : x > m) <=> Retained(Acceptable(lane), m + 1) # {}
  <2>1. \A c \in Acceptable(lane) : c.score > m <=> c.score >= m + 1
    <3> SUFFICES ASSUME NEW c \in Acceptable(lane) PROVE c.score > m <=> c.score >= m + 1
      OBVIOUS
    <3> DEFINE a == c.score
    <3>1. a \in Nat
      BY <1>1, <1>2
    <3> HIDE DEF a
    <3>2. a > m <=> a >= m + 1
      BY <3>1
    <3> QED BY <3>2 DEF a
  <2> QED BY <2>1 DEF Retained, ScoresOf
<1> HIDE DEF S
<1>6. (\E x \in S : x > m) <=> \E score \in BestAcceptable(lane) : score > m
  <2>1. CASE S = {}
    BY <1>4, <2>1
  <2>2. CASE S # {}
    <3>1. Max(S) \in S /\ \A x \in S : x <= Max(S)
      BY <1>1, <1>3, <2>2, MaxIs
    <3>2. \A x \in S : x \in Nat
      BY <1>3
    <3>3. ASSUME NEW x \in S, x > m PROVE Max(S) > m
      <4>1. x \in Nat /\ Max(S) \in Nat /\ x <= Max(S)
        BY <3>1, <3>2
      <4> QED BY <3>3, <4>1
    <3> QED BY <1>4, <2>2, <3>1, <3>3
  <2> QED BY <2>1, <2>2
<1> QED BY <1>5, <1>6

(* What the search with these floors has of one case. *)
LEMMA MoreIsRetained ==
    ASSUME NEW S, NEW a \in Nat, NEW b \in Nat, a <= b, \A c \in S : c.score \in Nat
    PROVE  Retained(S, b) \subseteq Retained(S, a)
<1> SUFFICES ASSUME NEW c \in S, c.score >= b PROVE c.score >= a
  BY DEF Retained
<1> DEFINE x == c.score
<1>1. x \in Nat /\ x >= b
  OBVIOUS
<1> HIDE DEF x
<1>2. x >= a
  BY <1>1
<1> QED BY <1>2 DEF x

LEMMA AssessIsRight ==
    ASSUME CalibrationInv, Assess
    PROVE  FloorsSeparate'
<1> DEFINE n == Len(Cases)
<1>1. n \in Nat /\ DOMAIN Cases = 1..n /\ Len(retrieved) = n /\ DOMAIN retrieved = 1..n
  BY CasesAre, LenProperties DEF CalibrationInv, Assess
<1>2. \A i \in 1..n : retrieved[i] \in Retrievable
  BY <1>1, ElementOfSeq DEF CalibrationInv
<1>3. PICK u \in 1..n : \A j \in 1..n : Cases[j] = "no_evidence" <=> j = u
  <2>1. PICK u \in DOMAIN Cases : \A j \in DOMAIN Cases : Cases[j] = "no_evidence" <=> j = u
    BY AnswersAssumption DEF CalibrationAssumption
  <2>2. DOMAIN Cases = 1..n
    BY <1>1
  <2>3. u \in 1..n /\ \A j \in 1..n : Cases[j] = "no_evidence" <=> j = u
    BY <2>1, <2>2
  <2> HIDE DEF n
  <2> QED BY <2>3
<1>4. \A i \in 1..n : Cases[i] = "ok" <=> i # u
  BY <1>1, <1>3, CasesAre
<1> HIDE DEF n
<1> DEFINE b == retrieved[u]
           mk == Maximum(b.keyword)
           mv == Maximum(b.vector)
<1>5. unknown = {b}
  BY <1>1, <1>3 DEF CalibrationInv
<1>6. known # <<>>
  <2>1. PICK i \in 1..n : Cases[i] = "ok"
    BY <1>1, AnswersAssumption DEF CalibrationAssumption
  <2>2. EntryOf(retrieved[i]) \in ToSet(known)
    BY <1>1, <2>1 DEF CalibrationInv
  <2> QED BY <2>2 DEF ToSet
<1>7. b \in Retrievable
  BY <1>2
<1>8. /\ mk \in 0..One /\ mv \in 0..One
      /\ \A floor \in Nat \ {0} : Retained(ToSet(b.keyword), floor) = {} <=> floor > mk
      /\ \A floor \in Nat \ {0} : Retained(ToSet(b.vector), floor) = {} <=> floor > mv
  BY <1>7, MaximumIs
<1>9. /\ UNCHANGED <<retrieved, known, unknown>>
      /\ report' = IF ~ Calibratable(mk, mv) THEN [status |-> "blocked"]
                   ELSE IF One \in {mk, mv} THEN Failed
                   ELSE [status |-> "calibratable", keyword |-> mk + 1, vector |-> mv + 1]
  <2>1. (CHOOSE x \in unknown : TRUE) = b /\ unknown # {}
    <3> HIDE DEF b
    <3> QED BY <1>5
  <2> HIDE DEF b
  <2> QED BY <1>6, <2>1 DEF Assess, StrictFloorAbove
<1> HIDE DEF b, mk, mv
<1>10. One \in Nat /\ mk \in Nat /\ mv \in Nat
  BY <1>8, AnswersAssumption DEF CalibrationAssumption
<1> DEFINE Ok(i, k, v) == Evidence(Acceptable(retrieved[i].keyword), Acceptable(retrieved[i].vector),
                                   [keyword |-> k, vector |-> v]) # {}
<1>11. ASSUME NEW f
       PROVE  Separates(f) <=>
                /\ Retained(ToSet(b.keyword), f.keyword) = {} /\ Retained(ToSet(b.vector), f.vector) = {}
                /\ \A i \in 1..n : i # u =>
                     \/ Retained(Acceptable(retrieved[i].keyword), f.keyword) # {}
                     \/ Retained(Acceptable(retrieved[i].vector), f.vector) # {}
  <2>1. \A i \in 1..n : Cases[i] = "no_evidence" <=> i = u
    BY <1>3
  <2>2. \A S, T : Evidence(S, T, f) = {} <=> Retained(S, f.keyword) = {} /\ Retained(T, f.vector) = {}
    BY DEF Evidence
  <2>3. Separates(f) <=> \A i \in 1..n :
             IF i = u THEN Evidence(ToSet(retrieved[i].keyword), ToSet(retrieved[i].vector), f) = {}
             ELSE Evidence(Acceptable(retrieved[i].keyword), Acceptable(retrieved[i].vector), f) # {}
    BY <1>1, <2>1 DEF Separates
  <2> QED BY <2>2, <2>3 DEF b
<1>12. Calibratable(mk, mv) <=>
         \A i \in 1..n : i # u =>
              \/ Retained(Acceptable(retrieved[i].keyword), mk + 1) # {}
              \/ Retained(Acceptable(retrieved[i].vector), mv + 1) # {}
  <2> DEFINE Good(e) == (\E score \in e.keyword : score > mk) \/ (\E score \in e.vector : score > mv)
  <2>1. Calibratable(mk, mv) <=> \A e \in ToSet(known) : Good(e)
    BY DEF Calibratable, ToSet
  <2>2. \A i \in 1..n : i # u => EntryOf(retrieved[i]) \in ToSet(known)
    BY <1>1, <1>4 DEF CalibrationInv
  <2>3. \A e \in ToSet(known) : \E i \in 1..n : i # u /\ e = EntryOf(retrieved[i])
    BY <1>1, <1>4 DEF CalibrationInv
  <2>4. ASSUME NEW i \in 1..n
        PROVE  Good(EntryOf(retrieved[i])) <=>
                 \/ Retained(Acceptable(retrieved[i].keyword), mk + 1) # {}
                 \/ Retained(Acceptable(retrieved[i].vector), mv + 1) # {}
    <3>1. retrieved[i] \in Retrievable
      BY <1>2
    <3>2. /\ EntryOf(retrieved[i]).keyword = BestAcceptable(retrieved[i].keyword)
          /\ EntryOf(retrieved[i]).vector = BestAcceptable(retrieved[i].vector)
      BY DEF EntryOf
    <3>3. (\E score \in BestAcceptable(retrieved[i].keyword) : score > mk)
            <=> Retained(Acceptable(retrieved[i].keyword), mk + 1) # {}
      BY <1>10, <3>1, BestIs
    <3>4. (\E score \in BestAcceptable(retrieved[i].vector) : score > mv)
            <=> Retained(Acceptable(retrieved[i].vector), mv + 1) # {}
      BY <1>10, <3>1, BestIs
    <3> QED BY <3>2, <3>3, <3>4
  <2> HIDE DEF Good
  <2> QED BY <2>1, <2>2, <2>3, <2>4
<1>13. \A f : Separates(f)' <=> Separates(f)
  BY <1>9 DEF Separates
<1>14. ASSUME report'.status = "calibratable" PROVE Separates(report')
  <2>1. /\ Calibratable(mk, mv)
        /\ report' = [status |-> "calibratable", keyword |-> mk + 1, vector |-> mv + 1]
    BY <1>9, <1>14 DEF Failed
  <2>2. report'.keyword = mk + 1 /\ report'.vector = mv + 1
    BY <2>1
  <2>3. /\ Retained(ToSet(b.keyword), mk + 1) = {}
        /\ Retained(ToSet(b.vector), mv + 1) = {}
    <3>1. mk + 1 \in Nat \ {0} /\ mv + 1 \in Nat \ {0} /\ mk + 1 > mk /\ mv + 1 > mv
      BY <1>10
    <3> QED BY <1>8, <3>1
  <2> QED BY <1>11, <1>12, <2>1, <2>2, <2>3
<1>15. ASSUME report'.status \in {"blocked", "unavailable"},
              NEW f \in [keyword : 1..One, vector : 1..One], Separates(f)
       PROVE  FALSE
  <2>1. f.keyword \in 1..One /\ f.vector \in 1..One
    OBVIOUS
  <2> DEFINE fk == f.keyword
             fv == f.vector
  <2>2. fk \in 1..One /\ fv \in 1..One /\ fk \in Nat \ {0} /\ fv \in Nat \ {0}
    BY <1>10, <2>1
  <2>3. /\ Retained(ToSet(b.keyword), fk) = {} /\ Retained(ToSet(b.vector), fv) = {}
        /\ \A i \in 1..n : i # u =>
                     \/ Retained(Acceptable(retrieved[i].keyword), fk) # {}
                     \/ Retained(Acceptable(retrieved[i].vector), fv) # {}
    BY <1>11, <1>15
  <2> HIDE DEF fk, fv
  <2>4. fk > mk /\ fv > mv
    BY <1>8, <2>2, <2>3
  <2>5. mk + 1 <= fk /\ mv + 1 <= fv /\ mk # One /\ mv # One /\ mk + 1 \in Nat /\ mv + 1 \in Nat
    BY <1>10, <2>2, <2>4
  <2>6. Calibratable(mk, mv)
    <3>1. ASSUME NEW i \in 1..n, i # u
          PROVE  \/ Retained(Acceptable(retrieved[i].keyword), mk + 1) # {}
                 \/ Retained(Acceptable(retrieved[i].vector), mv + 1) # {}
      <4>1. /\ \A c \in Acceptable(retrieved[i].keyword) : c.score \in Nat
            /\ \A c \in Acceptable(retrieved[i].vector) : c.score \in Nat
        <5>1. /\ \A c \in Acceptable(retrieved[i].keyword) : c.score \in 0..One
              /\ \A c \in Acceptable(retrieved[i].vector) : c.score \in 0..One
          BY <1>2, BatchesAre
        <5> QED BY <1>10, <5>1
      <4>2. /\ Retained(Acceptable(retrieved[i].keyword), fk) \subseteq Retained(Acceptable(retrieved[i].keyword), mk + 1)
            /\ Retained(Acceptable(retrieved[i].vector), fv) \subseteq Retained(Acceptable(retrieved[i].vector), mv + 1)
        BY <2>2, <2>5, <4>1, MoreIsRetained
      <4> QED BY <2>3, <3>1, <4>2
    <3> QED BY <1>12, <3>1
  <2>7. report'.status = "calibratable"
    BY <1>9, <2>5, <2>6
  <2> QED BY <1>15, <2>7
<1> QED BY <1>13, <1>14, <1>15 DEF FloorsSeparate

LEMMA CalibrationInvariant == CalibrationSpec => []CalibrationInv
<1>1. CalibrationInit => CalibrationInv
  <2> SUFFICES ASSUME CalibrationInit PROVE CalibrationInv
    OBVIOUS
  <2>1. /\ retrieved = <<>> /\ known = <<>> /\ unknown = {} /\ report.status = "running"
    BY DEF CalibrationInit
  <2>2. ToSet(known) = {} /\ DOMAIN retrieved = {} /\ Len(retrieved) = 0
    BY <2>1 DEF ToSet
  <2>3. FloorsSeparate
    BY <2>1 DEF FloorsSeparate
  <2> QED BY <2>1, <2>2, <2>3, CasesAre, EmptySeq DEF CalibrationInv
<1>2. ASSUME CalibrationInv, [CalibrationNext]_calibrationVars PROVE CalibrationInv'
  <2>1. CASE Retrieve
    <3> DEFINE n == Len(retrieved)
               i == n + 1
    <3>1. n \in Nat /\ DOMAIN retrieved = 1..n /\ i \in DOMAIN Cases /\ i \in 1..Len(Cases)
      BY <1>2, <2>1, CasesAre, LenProperties DEF CalibrationInv, Retrieve
    <3>2. PICK batch \in Batches[i] :
             /\ retrieved' = Append(retrieved, batch)
             /\ IF Cases[i] = "no_evidence"
                THEN unknown' = {batch} /\ UNCHANGED known
                ELSE known' = Append(known, EntryOf(batch)) /\ UNCHANGED unknown
      BY <2>1 DEF Retrieve, EntryOf
    <3>3. batch \in Retrievable /\ EntryOf(batch) \in Entries
      BY <3>1, CasesAre DEF Retrievable, Entries
    <3>4. report' = report /\ report.status = "running"
      <4>1. Len(retrieved) # Len(Cases)
        <5> DEFINE l == Len(Cases)
        <5>1. n \in Nat /\ l \in Nat /\ n + 1 \in 1..l
          BY <3>1, CasesAre
        <5> HIDE DEF n, l
        <5>2. n # l
          BY <5>1
        <5> QED BY <5>2 DEF n, l
      <4> QED BY <1>2, <2>1, <4>1 DEF Retrieve, CalibrationInv
    <3>5. /\ retrieved' \in Seq(Retrievable) /\ Len(retrieved') = i /\ DOMAIN retrieved' = 1..i
          /\ \A j \in 1..n : retrieved'[j] = retrieved[j]
          /\ retrieved'[i] = batch
      <4>1. retrieved \in Seq(Retrievable)
        BY <1>2 DEF CalibrationInv
      <4> HIDE DEF n, i
      <4>2. /\ Append(retrieved, batch) \in Seq(Retrievable)
            /\ Len(Append(retrieved, batch)) = Len(retrieved) + 1
            /\ \A j \in 1..Len(retrieved) : Append(retrieved, batch)[j] = retrieved[j]
            /\ Append(retrieved, batch)[Len(retrieved) + 1] = batch
        BY <3>3, <4>1, AppendProperties
      <4> QED BY <3>2, <4>2, LenProperties DEF n, i
    <3>6. ToSet(known') = ToSet(known) \cup (IF Cases[i] = "ok" THEN {EntryOf(batch)} ELSE {})
          /\ known' \in Seq(Entries)
      <4>1. known \in Seq(Entries)
        BY <1>2 DEF CalibrationInv
      <4>2. CASE Cases[i] = "no_evidence"
        BY <3>2, <4>1, <4>2
      <4>3. CASE Cases[i] # "no_evidence"
        <5> DEFINE e == EntryOf(batch)
        <5>1. Cases[i] = "ok" /\ known' = Append(known, e) /\ e \in Entries
          BY <3>1, <3>2, <3>3, <4>3, CasesAre
        <5> HIDE DEF e
        <5>2. /\ Append(known, e) \in Seq(Entries)
              /\ Len(Append(known, e)) = Len(known) + 1
              /\ \A j \in 1..Len(known) : Append(known, e)[j] = known[j]
              /\ Append(known, e)[Len(known) + 1] = e
          BY <4>1, <5>1, AppendProperties
        <5>3. /\ DOMAIN Append(known, e) = 1..Len(known) + 1 /\ DOMAIN known = 1..Len(known)
              /\ Len(known) \in Nat
          BY <4>1, <5>2, LenProperties
        <5>4. ToSet(Append(known, e)) = ToSet(known) \cup {e}
          <6> DEFINE l == Len(known)
                     a == Append(known, e)
          <6>1. /\ \A j \in 1..l : a[j] = known[j]
                /\ a[l + 1] = e /\ DOMAIN a = 1..l + 1 /\ DOMAIN known = 1..l /\ l \in Nat
            BY <5>2, <5>3
          <6> HIDE DEF l, a
          <6>2. \A j \in 1..l + 1 : j \in 1..l \/ j = l + 1
            BY <6>1
          <6>3. \A j \in 1..l : j \in 1..l + 1
            BY <6>1
          <6>4. l + 1 \in 1..l + 1
            BY <6>1
          <6>5. ToSet(a) = ToSet(known) \cup {e}
            BY <6>1, <6>2, <6>3, <6>4 DEF ToSet
          <6> QED BY <6>5 DEF a
        <5> QED BY <5>1, <5>2, <5>4 DEF e
      <4> QED BY <4>2, <4>3
    <3> HIDE DEF i, n
    <3>7. /\ \A j \in 1..i : j \in 1..n \/ j = i
          /\ \A j \in 1..n : j \in 1..i /\ j # i
          /\ i \in 1..i /\ i \in Nat /\ i <= Len(Cases)
      BY <3>1, CasesAre DEF i
    <3>8. \A j \in DOMAIN retrieved' : Cases[j] = "ok" => EntryOf(retrieved'[j]) \in ToSet(known')
      <4> SUFFICES ASSUME NEW j \in 1..i, Cases[j] = "ok" PROVE EntryOf(retrieved'[j]) \in ToSet(known')
        BY <3>5
      <4>1. CASE j \in 1..n
        <5>1. EntryOf(retrieved[j]) \in ToSet(known)
          BY <1>2, <3>1, <4>1 DEF CalibrationInv
        <5> QED BY <3>5, <3>6, <4>1, <5>1
      <4>2. CASE j = i
        BY <3>5, <3>6, <4>2
      <4> QED BY <3>7, <4>1, <4>2
    <3>9. \A e \in ToSet(known') : \E j \in DOMAIN retrieved' : Cases[j] = "ok" /\ e = EntryOf(retrieved'[j])
      <4> SUFFICES ASSUME NEW e \in ToSet(known') PROVE \E j \in 1..i : Cases[j] = "ok" /\ e = EntryOf(retrieved'[j])
        BY <3>5
      <4>1. CASE e \in ToSet(known)
        <5>1. PICK j \in 1..n : Cases[j] = "ok" /\ e = EntryOf(retrieved[j])
          BY <1>2, <3>1, <4>1 DEF CalibrationInv
        <5> QED BY <3>5, <3>7, <5>1
      <4>2. CASE e \notin ToSet(known)
        <5>1. Cases[i] = "ok" /\ e = EntryOf(batch)
          BY <3>6, <4>2
        <5> QED BY <3>5, <3>7, <5>1
      <4> QED BY <4>1, <4>2
    <3>10. ASSUME NEW x
           PROVE  x \in unknown' <=> \E j \in DOMAIN retrieved' : Cases[j] = "no_evidence" /\ x = retrieved'[j]
      <4>1. PICK u \in DOMAIN Cases : \A j \in DOMAIN Cases : Cases[j] = "no_evidence" <=> j = u
        BY AnswersAssumption DEF CalibrationAssumption
      <4>2. \A j \in 1..i : j \in DOMAIN Cases
        BY <3>7, CasesAre
      <4>3. x \in unknown <=> \E j \in 1..n : Cases[j] = "no_evidence" /\ x = retrieved[j]
        BY <1>2, <3>1 DEF CalibrationInv
      <4>4. CASE i = u
        <5>1. unknown' = {batch}
          BY <3>2, <4>1, <4>4
        <5>2. \A j \in 1..i : Cases[j] = "no_evidence" <=> j = i
          BY <4>1, <4>2, <4>4
        <5> QED BY <3>5, <3>7, <5>1, <5>2
      <4>5. CASE i # u
        <5>1. Cases[i] # "no_evidence" /\ unknown' = unknown
          BY <3>1, <3>2, <4>1, <4>5 DEF i
        <5> QED BY <3>5, <3>7, <4>3, <5>1
      <4> QED BY <4>4, <4>5
    <3>11. FloorsSeparate'
      BY <3>4 DEF FloorsSeparate
    <3> QED BY <3>4, <3>5, <3>6, <3>7, <3>8, <3>9, <3>10, <3>11 DEF CalibrationInv
  <2>2. CASE Assess
    <3>1. FloorsSeparate'
      BY <1>2, <2>2, AssessIsRight
    <3>2. UNCHANGED <<retrieved, known, unknown>> /\ Len(retrieved) = Len(Cases)
      BY <2>2 DEF Assess
    <3> QED BY <1>2, <3>1, <3>2 DEF CalibrationInv
  <2>3. CASE UNCHANGED calibrationVars
    <3>1. UNCHANGED <<retrieved, known, unknown, report>>
      BY <2>3 DEF calibrationVars
    <3>2. FloorsSeparate'
      BY <1>2, <3>1 DEF CalibrationInv, FloorsSeparate, Separates
    <3> QED BY <1>2, <3>1, <3>2 DEF CalibrationInv
  <2> QED BY <1>2, <2>1, <2>2, <2>3 DEF CalibrationNext
<1> QED BY <1>1, <1>2, PTL DEF CalibrationSpec

(* The order of the answer is that of the lanes, the best sections are in  *)
(* it whole, a strict search only leaves out what one lane lacks, and the  *)
(* proposed floors separate the cases whenever any do (rrf.py,             *)
(* evidence.py, service.py; calibrate_search.py), for all lanes, weights,  *)
(* limits, and scores.                                                     *)
THEOREM BestAnswers == RankingSpec /\ CalibrationSpec => []AnswersAreBest
<1>1. CalibrationInv => FloorsSeparate
  BY DEF CalibrationInv
<1>2. FusionRespectsLanes /\ BestSectionsAreKept /\ StrictOnlyRemoves /\ FloorsSeparate => AnswersAreBest
  BY DEF AnswersAreBest
<1> QED BY <1>1, <1>2, RankingIsBest, CalibrationInvariant, PTL

---------------------------------------------------------------------------
(***************************************************************************)
(* The web client.  A request that waits is the last one, of the screen that*)
(* is mounted, and it is the only one.                                     *)
(***************************************************************************)
Views == {"idle", "pending", "refused", "ok", "no_evidence", "malformed", "network", "timeout"}

Screen == [token : Tokens \cup {NoToken}, busy : BOOLEAN, current : Nat, view : Views, of : Nat]

Request == [by : Nat, token : Tokens \cup {NoToken}, stage : {"headers", "body", "settled"},
            timer : BOOLEAN, timedOut : BOOLEAN, rejected : BOOLEAN]

WebTypeOK ==
    /\ token \in Tokens \cup {NoToken}
    /\ screens \in Seq(Screen) /\ screens # <<>>
    /\ requests \in Seq(Request)

(* A request that waits is the last one, of the screen that is shown: no   *)
(* other one is sent while it waits, and it does not outlive its screen.   *)
Awaits(r) ==
    /\ r = Len(requests)
    /\ requests[r].by = OnScreen
    /\ Mounted.current = r /\ Mounted.of = r
    /\ ~ requests[r].timedOut
    /\ Mounted.token # NoToken => requests[r].token = Mounted.token
    /\ requests[r].stage = "body" => Mounted.token # NoToken

OneAtATime ==
    /\ Mounted.busy <=> Mounted.current # 0
    /\ Mounted.of <= Len(requests)
    /\ \A r \in DOMAIN requests : requests[r].stage # "settled" => Awaits(r)

WebInv == WebTypeOK /\ OneAtATime /\ ScreenIsTrue

(* What a step makes of a screen or of a request. *)
Sending(s, n) == [s EXCEPT !.busy = TRUE, !.current = n, !.view = "pending", !.of = n]

Telling(s, view, n) == [s EXCEPT !.view = view, !.of = n, !.busy = FALSE, !.current = 0]

Leaving(s) == [s EXCEPT !.busy = FALSE, !.current = 0]

Ending(q, rejected, timedOut) ==
    [q EXCEPT !.stage = "settled", !.timer = FALSE, !.rejected = rejected, !.timedOut = timedOut]

Reading(q) == [q EXCEPT !.stage = "body"]

LEMMA ScreenAfterSend ==
    ASSUME NEW s \in Screen, NEW n \in Nat
    PROVE  /\ Sending(s, n) \in Screen
           /\ Sending(s, n).busy /\ Sending(s, n).current = n
           /\ Sending(s, n).view = "pending" /\ Sending(s, n).of = n
           /\ Sending(s, n).token = s.token
<1>1. "pending" \in Views
  BY DEF Views
<1> QED BY <1>1, ZenonT(60) DEF Screen, Sending

LEMMA ScreenAfterSettling ==
    ASSUME NEW s \in Screen, NEW view \in Views, NEW n \in Nat
    PROVE  /\ Telling(s, view, n) \in Screen
           /\ ~ Telling(s, view, n).busy /\ Telling(s, view, n).current = 0
           /\ Telling(s, view, n).view = view /\ Telling(s, view, n).of = n
           /\ Telling(s, view, n).token = s.token
BY ZenonT(60) DEF Screen, Telling

LEMMA ScreenAfterLeaving ==
    ASSUME NEW s \in Screen
    PROVE  Leaving(s) \in Screen
BY ZenonT(60) DEF Screen, Leaving

LEMMA FreshScreen == ASSUME NEW t \in Tokens \cup {NoToken} PROVE Fresh(t) \in Screen
<1>1. "idle" \in Views
  BY DEF Views
<1> QED BY <1>1 DEF Screen, Fresh

LEMMA RequestAfterSettling ==
    ASSUME NEW q \in Request, NEW rejected \in BOOLEAN, NEW timedOut \in BOOLEAN
    PROVE  /\ Ending(q, rejected, timedOut) \in Request
           /\ Ending(q, rejected, timedOut).stage = "settled"
           /\ Ending(q, rejected, timedOut).timedOut = timedOut
           /\ Ending(q, rejected, timedOut).by = q.by
           /\ Ending(q, rejected, timedOut).token = q.token
BY ZenonT(60) DEF Request, Ending

LEMMA ClosedRequest ==
    ASSUME NEW q \in Request
    PROVE  Closed(q) \in Request /\ Closed(q).stage = "settled" /\ Closed(q).rejected = q.rejected
BY ZenonT(60) DEF Request, Closed

LEMMA RequestWithBody ==
    ASSUME NEW q \in Request
    PROVE  /\ Reading(q) \in Request /\ Reading(q).by = q.by /\ Reading(q).token = q.token
           /\ Reading(q).timedOut = q.timedOut
BY ZenonT(60) DEF Request, Reading

LEMMA SendKeeps ==
    ASSUME NEW t \in Tokens, WebInv, Send(t), ~ Mounted.busy, token \in {NoToken, t}
    PROVE  WebInv'
<1> PICK n \in Nat : n = Len(requests) + 1
  BY DEF WebInv, WebTypeOK
<1> DEFINE sent == [by |-> OnScreen, token |-> t, stage |-> "headers", timer |-> TRUE,
                    timedOut |-> FALSE, rejected |-> FALSE]
<1>0. /\ OnScreen \in DOMAIN screens /\ OnScreen \in Nat /\ n \in Nat
      /\ Mounted = screens[OnScreen] /\ Mounted \in Screen /\ Mounted.token = token
  BY DEF WebInv, WebTypeOK, OnScreen, Mounted, Last, Send, Rendered
<1>1. sent \in Request
  BY <1>0 DEF Request
<1>2. /\ requests' = Append(requests, sent)
      /\ screens' = [screens EXCEPT ![OnScreen] = Sending(Mounted, n)]
      /\ token' = token
  BY <1>0 DEF Send, Sending
<1>3. WebTypeOK'
  <2>1. Sending(Mounted, n) \in Screen
    BY <1>0, ScreenAfterSend
  <2>2. screens' \in Seq(Screen) /\ screens' # <<>>
    BY <1>0, <1>2, <2>1 DEF WebInv, WebTypeOK
  <2>3. requests' \in Seq(Request) /\ token' \in Tokens \cup {NoToken}
    BY <1>1, <1>2 DEF WebInv, WebTypeOK
  <2> QED BY <2>2, <2>3 DEF WebTypeOK
<1>4. /\ OnScreen' = OnScreen
      /\ Mounted'.busy /\ Mounted'.current = n /\ Mounted'.view = "pending"
      /\ Mounted'.of = n /\ Mounted'.token = Mounted.token
  <2>1. Len(screens') = Len(screens)
    BY <1>0, <1>2 DEF WebInv, WebTypeOK
  <2>2. Mounted' = Sending(Mounted, n)
    BY <1>0, <1>2, <2>1 DEF WebInv, WebTypeOK, Mounted, Last, OnScreen
  <2>3. OnScreen' = OnScreen
    BY <2>1 DEF OnScreen
  <2> QED BY <1>0, <2>2, <2>3, ScreenAfterSend
<1>5. /\ DOMAIN requests' = DOMAIN requests \cup {n} /\ Len(requests') = n
      /\ n \notin DOMAIN requests
      /\ \A r \in DOMAIN requests : requests'[r] = requests[r]
      /\ requests'[n] = sent
  BY <1>1, <1>2 DEF WebInv, WebTypeOK
<1>6. \A r \in DOMAIN requests : requests[r].stage = "settled"
  BY DEF WebInv, WebTypeOK, OneAtATime, Awaits
<1>7. /\ requests'[n].by = OnScreen /\ requests'[n].token = t /\ ~ requests'[n].timedOut
      /\ requests'[n].stage = "headers"
  BY <1>5
<1> HIDE DEF sent
<1>8. OneAtATime'
  <2>1. Awaits(n)'
    BY <1>0, <1>4, <1>5, <1>7 DEF Awaits
  <2>2. ASSUME NEW r \in DOMAIN requests', requests'[r].stage # "settled" PROVE r = n
    BY <1>5, <1>6, <2>2
  <2>3. (Mounted'.busy <=> Mounted'.current # 0) /\ Mounted'.of <= Len(requests')
    BY <1>0, <1>4, <1>5 DEF WebInv, WebTypeOK
  <2> QED BY <2>1, <2>2, <2>3 DEF OneAtATime
<1>9. ScreenIsTrue'
  BY <1>4, <1>7 DEF ScreenIsTrue, AnswersAreOfLastSearch, TimeoutsAreTold
<1> QED BY <1>3, <1>8, <1>9 DEF WebInv

(* How a request ends that waited. *)
LEMMA SettledKeeps ==
    ASSUME NEW r \in DOMAIN requests, NEW view \in Views, NEW rejected \in BOOLEAN,
           NEW timedOut \in BOOLEAN,
           WebInv, requests[r].stage # "settled",
           requests' = [requests EXCEPT ![r] = Ending(requests[r], rejected, timedOut)],
           screens' = Settled(r, view),
           token' \in Tokens \cup {NoToken},
           view = "timeout" <=> timedOut,
           view \in {"ok", "no_evidence"} => requests[r].stage = "body"
    PROVE  WebInv'
<1> DEFINE shown == IF view # "pending" THEN view ELSE Mounted.view
<1>1. /\ Awaits(r) /\ r \in Nat /\ r # 0 /\ r = Len(requests)
      /\ OnScreen \in DOMAIN screens /\ Mounted = screens[OnScreen] /\ Mounted \in Screen
      /\ requests[r] \in Request
  BY DEF WebInv, OneAtATime, WebTypeOK, OnScreen, Mounted, Last, Awaits
<1>2. shown \in Views
  BY <1>1 DEF Screen
<1>3. screens' = [screens EXCEPT ![OnScreen] = Telling(Mounted, shown, r)]
  <2>1. /\ requests[r].by = OnScreen /\ Mounted.current = r /\ Mounted.of = r
        /\ Mounted = screens[OnScreen]
    BY <1>1 DEF Awaits
  <2>2. CASE view # "pending"
    <3>1. shown = view
      BY <2>2
    <3>2. screens' = [screens EXCEPT ![OnScreen] =
             [[Mounted EXCEPT !.view = view, !.of = r] EXCEPT !.busy = FALSE, !.current = 0]]
      BY <1>1, <2>1, <2>2 DEF Settled, Screen
    <3> HIDE DEF shown
    <3>3. Telling(Mounted, shown, r) =
             [[Mounted EXCEPT !.view = view, !.of = r] EXCEPT !.busy = FALSE, !.current = 0]
      BY <1>1, <3>1 DEF Telling, Screen
    <3> QED BY <3>2, <3>3
  <2>3. CASE view = "pending"
    <3>1. shown = Mounted.view
      BY <2>3
    <3>2. screens' = [screens EXCEPT ![OnScreen] = [Mounted EXCEPT !.busy = FALSE, !.current = 0]]
      BY <2>1, <2>3 DEF Settled
    <3> HIDE DEF shown
    <3>3. Telling(Mounted, shown, r) = [Mounted EXCEPT !.busy = FALSE, !.current = 0]
      BY <1>1, <2>1, <3>1 DEF Telling, Screen
    <3> QED BY <3>2, <3>3
  <2> QED BY <2>2, <2>3
<1>4. WebTypeOK'
  <2> HIDE DEF shown
  <2>1. Telling(Mounted, shown, r) \in Screen
    BY <1>1, <1>2, ScreenAfterSettling
  <2>2. screens' \in Seq(Screen) /\ screens' # <<>>
    BY <1>1, <1>3, <2>1 DEF WebInv, WebTypeOK
  <2>3. Ending(requests[r], rejected, timedOut) \in Request
    BY <1>1, RequestAfterSettling
  <2>4. requests' \in Seq(Request)
    BY <2>3 DEF WebInv, WebTypeOK
  <2> QED BY <2>2, <2>4 DEF WebTypeOK
<1>5. /\ OnScreen' = OnScreen
      /\ ~ Mounted'.busy /\ Mounted'.current = 0 /\ Mounted'.view = shown
      /\ Mounted'.of = r /\ Mounted'.token = Mounted.token
  <2>1. Len(screens') = Len(screens)
    BY <1>1, <1>3 DEF WebInv, WebTypeOK
  <2>2. Mounted' = Telling(Mounted, shown, r)
    BY <1>1, <1>3, <2>1 DEF WebInv, WebTypeOK, Mounted, Last, OnScreen
  <2>3. OnScreen' = OnScreen
    BY <2>1 DEF OnScreen
  <2> HIDE DEF shown
  <2> QED BY <1>1, <1>2, <2>2, <2>3, ScreenAfterSettling
<1>6. /\ DOMAIN requests' = DOMAIN requests /\ Len(requests') = Len(requests)
      /\ requests'[r].stage = "settled" /\ requests'[r].timedOut = timedOut
      /\ requests'[r].by = requests[r].by /\ requests'[r].token = requests[r].token
  <2>1. requests'[r] = Ending(requests[r], rejected, timedOut)
    BY DEF WebInv, WebTypeOK
  <2>2. DOMAIN requests' = DOMAIN requests /\ Len(requests') = Len(requests)
    BY DEF WebInv, WebTypeOK
  <2> QED BY <1>1, <2>1, <2>2, RequestAfterSettling
<1>7. \A q \in DOMAIN requests : requests'[q].stage = "settled"
  BY <1>1, <1>6 DEF WebInv, OneAtATime, WebTypeOK, Awaits
<1>8. OneAtATime'
  BY <1>1, <1>5, <1>6, <1>7 DEF OneAtATime
<1>9. ScreenIsTrue'
  BY <1>1, <1>5, <1>6 DEF ScreenIsTrue, AnswersAreOfLastSearch, TimeoutsAreTold, Awaits, WebInv
<1> QED BY <1>4, <1>8, <1>9 DEF WebInv

LEMMA MountKeeps ==
    ASSUME NEW t \in Tokens \cup {NoToken}, WebInv, Mount(t), token' \in Tokens \cup {NoToken}
    PROVE  WebInv'
<1> USE DEF WebInv
<1>0. OnScreen \in DOMAIN screens /\ Mounted \in Screen /\ Len(screens) \in Nat
  BY DEF WebTypeOK, OnScreen, Mounted, Last
<1>1. Mounted' = Fresh(t)
  BY <1>0 DEF Mount, Mounted, Last, Fresh, WebTypeOK, OnScreen
<1>2. WebTypeOK'
  <2>1. screens' \in Seq(Screen) /\ screens' # <<>>
    <3>1. Leaving(Mounted) \in Screen /\ Fresh(t) \in Screen
      BY <1>0, ScreenAfterLeaving, FreshScreen
    <3>2. screens' = Append([screens EXCEPT ![OnScreen] = Leaving(screens[OnScreen])], Fresh(t))
      BY DEF Mount, Leaving
    <3> QED BY <1>0, <3>1, <3>2 DEF WebTypeOK, Mounted, Last, OnScreen
  <2>2. requests' \in Seq(Request)
    <3>1. \A r \in DOMAIN requests : requests[r] \in Request /\ Aborted(requests[r]) \in Request
      BY ClosedRequest DEF WebTypeOK, Aborted
    <3> QED BY <3>1 DEF Mount, WebTypeOK, Waiting
  <2> QED BY <2>1, <2>2 DEF WebTypeOK
<1>3. ASSUME NEW r \in DOMAIN requests PROVE requests'[r].stage = "settled"
  <2>1. requests[r] \in Request /\ Aborted(requests[r]).stage = "settled"
    BY ClosedRequest DEF WebTypeOK, Aborted
  <2>2. CASE requests[r].stage = "settled"
    BY <2>1, <2>2 DEF Mount, Waiting, WebTypeOK, Request
  <2>3. CASE requests[r].stage # "settled"
    <3>1. r = Mounted.current /\ Waiting(r)
      BY <2>1, <2>3 DEF OneAtATime, Awaits, Waiting, Request
    <3>2. requests' = [requests EXCEPT ![r] = Aborted(@)]
      BY <3>1 DEF Mount
    <3> QED BY <2>1, <3>2 DEF WebTypeOK
  <2> QED BY <2>2, <2>3
<1>4. DOMAIN requests' = DOMAIN requests /\ Len(requests') \in Nat
  BY <1>2 DEF Mount, WebTypeOK
<1>5. OneAtATime'
  BY <1>1, <1>3, <1>4 DEF OneAtATime, Fresh
<1>6. ScreenIsTrue'
  BY <1>1 DEF ScreenIsTrue, AnswersAreOfLastSearch, TimeoutsAreTold, Fresh
<1> QED BY <1>2, <1>5, <1>6

(* One step keeps the invariant. *)
LEMMA WebStep == ASSUME WebInv, [Next]_vars PROVE WebInv'
<1>1. ASSUME NEW t \in Tokens, SubmitToken(t) PROVE WebInv'
  BY <1>1, SendKeeps DEF SubmitToken
<1>2. CASE SubmitSearch
  <2>1. token \in Tokens
    BY <1>2 DEF SubmitSearch, WebInv, WebTypeOK
  <2> QED BY <1>2, <2>1, SendKeeps DEF SubmitSearch
<1>3. ASSUME NEW r \in 1..MaxRequests, NEW view \in {"idle", "refused", "ok", "no_evidence", "malformed", "network"},
             Waiting(r), Settle(r, view), token' \in Tokens \cup {NoToken},
             view \in {"ok", "no_evidence"} => requests[r].stage = "body"
      PROVE  WebInv'
  <2>1. requests[r] \in Request /\ ~ requests[r].timedOut /\ r \in DOMAIN requests
    BY <1>3 DEF Waiting, WebInv, WebTypeOK, OneAtATime, Awaits
  <2>2. Closed(requests[r]) = Ending(requests[r], requests[r].rejected, FALSE)
    BY <2>1 DEF Closed, Request, Ending
  <2>3. requests' = [requests EXCEPT ![r] = Ending(requests[r], requests[r].rejected, FALSE)]
    BY <1>3, <2>2 DEF Settle
  <2>4. view \in Views /\ requests[r].stage # "settled" /\ requests[r].rejected \in BOOLEAN
    BY <1>3, <2>1 DEF Views, Waiting, Request
  <2> QED BY <1>3, <2>1, <2>3, <2>4, SettledKeeps, Zenon DEF Settle
<1>4. ASSUME NEW r \in 1..MaxRequests, GateAnswer(r) PROVE WebInv'
  <2>1. Waiting(r) /\ token \in Tokens \cup {NoToken} /\ requests[r].token \in Tokens \cup {NoToken}
    <3>1. Waiting(r) /\ requests[r] \in Request /\ token \in Tokens \cup {NoToken}
      BY <1>4 DEF GateAnswer, Waiting, WebInv, WebTypeOK
    <3> QED BY <3>1 DEF Request
  <2>2. CASE Settle(r, "idle") /\ token' = requests[r].token
    BY <1>3, <2>1, <2>2
  <2>3. CASE Settle(r, "refused") /\ UNCHANGED token
    BY <1>3, <2>1, <2>3
  <2> QED BY <1>4, <2>2, <2>3 DEF GateAnswer
<1>5. ASSUME NEW r \in 1..MaxRequests, SearchHeaders(r) PROVE WebInv'
  <2>1. CASE Settle(r, "refused") /\ UNCHANGED token
    BY <1>3, <1>5, <2>1 DEF SearchHeaders, WebInv, WebTypeOK
  <2>2. CASE /\ requests' = [requests EXCEPT ![r] = [Closed(@) EXCEPT !.rejected = TRUE]]
             /\ screens' = Settled(r, "pending")
             /\ token' = NoToken
    <3>1. requests[r] \in Request /\ ~ requests[r].timedOut /\ r \in DOMAIN requests
          /\ requests[r].stage # "settled"
      BY <1>5 DEF SearchHeaders, Waiting, WebInv, WebTypeOK, OneAtATime, Awaits
    <3>2. [Closed(requests[r]) EXCEPT !.rejected = TRUE] = Ending(requests[r], TRUE, FALSE)
      BY <3>1 DEF Closed, Request, Ending
    <3>3. requests' = [requests EXCEPT ![r] = Ending(requests[r], TRUE, FALSE)]
      BY <2>2, <3>2
    <3> QED BY <2>2, <3>1, <3>3, SettledKeeps DEF Views
  <2>3. CASE requests' = [requests EXCEPT ![r].stage = "body"] /\ UNCHANGED <<token, screens>>
    <3>1. r \in DOMAIN requests /\ Awaits(r) /\ Mounted.token # NoToken
      BY <1>5 DEF SearchHeaders, Waiting, WebInv, OneAtATime, Awaits, OnScreen, Mounted, Last
    <3>2. /\ requests' = [requests EXCEPT ![r] = Reading(requests[r])]
          /\ requests[r] \in Request /\ Reading(requests[r]) \in Request
      BY <2>3, <3>1, RequestWithBody DEF WebInv, WebTypeOK, Reading
    <3>3. /\ WebTypeOK' /\ Mounted' = Mounted /\ OnScreen' = OnScreen
          /\ Len(requests') = Len(requests) /\ DOMAIN requests' = DOMAIN requests
      BY <2>3, <3>1, <3>2, RequestWithBody DEF WebInv, WebTypeOK, Mounted, OnScreen
    <3>4. \A q \in DOMAIN requests :
             /\ requests'[q].by = requests[q].by /\ requests'[q].token = requests[q].token
             /\ requests'[q].timedOut = requests[q].timedOut
             /\ q # r => requests'[q] = requests[q]
      BY <2>3, <3>2, RequestWithBody DEF WebInv, WebTypeOK
    <3>5. Awaits(r)'
      BY <3>1, <3>3, <3>4 DEF Awaits
    <3>6. OneAtATime'
      BY <3>1, <3>3, <3>4, <3>5 DEF OneAtATime, Awaits, WebInv
    <3>7. ScreenIsTrue'
      BY <3>1, <3>3, <3>4 DEF ScreenIsTrue, AnswersAreOfLastSearch, TimeoutsAreTold, WebInv, Awaits
    <3> QED BY <3>3, <3>6, <3>7 DEF WebInv
  <2> QED BY <1>5, <2>1, <2>2, <2>3 DEF SearchHeaders
<1>6. ASSUME NEW r \in 1..MaxRequests, SearchBody(r) PROVE WebInv'
  BY <1>3, <1>6 DEF SearchBody, WebInv, WebTypeOK
<1>7. ASSUME NEW r \in 1..MaxRequests, Lose(r) PROVE WebInv'
  BY <1>3, <1>7 DEF Lose, WebInv, WebTypeOK
<1>8. ASSUME NEW r \in 1..MaxRequests, TimerFires(r) PROVE WebInv'
  <2>1. requests[r] \in Request /\ r \in DOMAIN requests /\ requests[r].stage # "settled"
    BY <1>8 DEF TimerFires, Waiting, WebInv, WebTypeOK
  <2>2. Aborted([requests[r] EXCEPT !.timer = FALSE, !.timedOut = TRUE]) =
          Ending(requests[r], requests[r].rejected, TRUE)
    BY <2>1 DEF Aborted, Closed, Request, Ending
  <2>3. requests' = [requests EXCEPT ![r] = Ending(requests[r], requests[r].rejected, TRUE)]
    BY <1>8, <2>2 DEF TimerFires
  <2>4. screens' = Settled(r, "timeout")
    <3>1. requests'[r].stage = "settled"
      BY <2>1, <2>3, RequestAfterSettling DEF Request, WebInv, WebTypeOK
    <3> QED BY <1>8, <3>1 DEF TimerFires, Waiting, Told
  <2>5. requests[r].rejected \in BOOLEAN /\ token' \in Tokens \cup {NoToken}
    BY <1>8, <2>1 DEF Request, TimerFires, WebInv, WebTypeOK
  <2> QED BY <2>1, <2>3, <2>4, <2>5, SettledKeeps DEF Views
<1>9. CASE Render
  BY <1>9, MountKeeps DEF Render, WebInv, WebTypeOK
<1>10. CASE Disconnect
  BY <1>10, MountKeeps DEF Disconnect
<1>11. CASE UNCHANGED vars
  BY <1>11 DEF vars, WebInv, WebTypeOK, OneAtATime, Awaits, ScreenIsTrue, AnswersAreOfLastSearch, TimeoutsAreTold, Mounted, OnScreen
<1> QED BY <1>1, <1>2, <1>4, <1>5, <1>6, <1>7, <1>8, <1>9, <1>10, <1>11 DEF Next

LEMMA WebInvariant == Spec => []WebInv
<1>1. Init => WebInv
  BY DEF Init, WebInv, WebTypeOK, OneAtATime, ScreenIsTrue, AnswersAreOfLastSearch, TimeoutsAreTold,
         Fresh, Screen, Views, Mounted, OnScreen, Last
<1> QED BY <1>1, WebStep, PTL DEF Spec

(* The screen shows the answer of its last search and tells of timeouts,   *)
(* however many requests, tokens and screens there are.                    *)
THEOREM AnswerIsOfLastSearch == Spec => []ScreenIsTrue
BY WebInvariant, PTL DEF WebInv

(* A refusal finds its own screen in place. *)
THEOREM RefusalHitsItsToken == Spec => OnlyItsTokenIsRefused
<1>1. ASSUME WebInv, Next, NEW r \in DOMAIN requests, requests'[r].rejected, ~ requests[r].rejected
      PROVE  requests[r].by = OnScreen
  <2>1. requests \in Seq(Request)
    BY <1>1 DEF WebInv, WebTypeOK
  <2>2. ASSUME NEW t, Send(t) PROVE FALSE
    BY <1>1, <2>1, <2>2 DEF Send
  <2>3. ASSUME NEW t, Mount(t) PROVE FALSE
    BY <1>1, <2>1, <2>3 DEF Mount, Aborted, Closed, Request, Waiting
  <2>4. ASSUME NEW q, NEW view, Waiting(q), Settle(q, view) PROVE FALSE
    BY <1>1, <2>1, <2>4 DEF Settle, Closed, Request, Waiting
  <2>5. ASSUME NEW q, TimerFires(q) PROVE FALSE
    BY <1>1, <2>1, <2>5 DEF TimerFires, Aborted, Closed, Request, Waiting
  <2>6. PICK q \in 1..MaxRequests : SearchHeaders(q)
    BY <1>1, <2>2, <2>3, <2>4, <2>5
       DEF Next, SubmitToken, SubmitSearch, GateAnswer, SearchBody, Lose, Render, Disconnect
  <2>7. q = r
    BY <1>1, <2>1, <2>4, <2>6 DEF SearchHeaders, Closed, Request, Waiting
  <2> QED BY <1>1, <2>6, <2>7 DEF SearchHeaders, Waiting, WebInv, OneAtATime, Awaits
<1>2. WebInv /\ [Next]_vars =>
        [\A r \in DOMAIN requests : requests'[r].rejected /\ ~ requests[r].rejected
            => requests[r].by = OnScreen]_vars
  BY <1>1
<1> QED BY <1>2, WebInvariant, PTL DEF Spec, OnlyItsTokenIsRefused
===========================================================================
