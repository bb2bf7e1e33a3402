------------------------------- MODULE LabLog ---------------------------------
(***************************************************************************)
(* The lab logger (src/lab.rs): threads timestamp a row and put it into a  *)
(* channel; a writer thread formats rows into a buffer that it flushes now *)
(* and then; dropping the logger closes the channel and joins the writer.  *)
(***************************************************************************)
EXTENDS Integers, Sequences, FiniteSets

CONSTANTS
  Loggers,       \* threads that log
  MaxRows,       \* bound: rows per thread
  FlushEvery     \* rows between two flushes

ASSUME LabAssumption == IsFiniteSet(Loggers) /\ MaxRows \in Nat /\ FlushEvery \in Nat \ {0}

VARIABLES
  logged,     \* logged[t]: rows t has logged, 0 .. MaxRows
  channel,    \* rows [by, n] on their way
  buffer,     \* rows in the BufWriter
  file,       \* rows in the file
  sinceFlush,
  disk,       \* FALSE once a write has failed
  writer,     \* "run", "ending" or "done"
  drop        \* "held", "closed" or "joined": the logger

labVars == <<logged, channel, buffer, file, sinceFlush, disk, writer, drop>>

LabInit ==
  /\ logged = [t \in Loggers |-> 0]
  /\ channel = <<>> /\ buffer = <<>> /\ file = <<>> /\ sinceFlush = 0
  /\ disk = TRUE /\ writer = "run" /\ drop = "held"

\* log: once the writer has ended the send fails, which is ignored.
Log(t) ==
  /\ drop = "held" /\ logged[t] < MaxRows
  /\ logged' = [logged EXCEPT ![t] = @ + 1]
  /\ channel' = IF writer = "run" THEN Append(channel, [by |-> t, n |-> logged'[t]]) ELSE channel
  /\ UNCHANGED <<buffer, file, sinceFlush, disk, writer, drop>>

\* The writer takes a row, and flushes when it is time to.
WriteRow ==
  /\ writer = "run" /\ channel # <<>>
  /\ channel' = Tail(channel)
  /\ LET full == Append(buffer, Head(channel)) IN
     IF sinceFlush + 1 >= FlushEvery
     THEN file' = file \o full /\ buffer' = <<>> /\ sinceFlush' = 0
     ELSE buffer' = full /\ sinceFlush' = sinceFlush + 1 /\ UNCHANGED file
  /\ UNCHANGED <<logged, disk, writer, drop>>

\* What is left in the buffer when a failing disk took its first k rows.
Salvaged(k) == file' = file \o SubSeq(buffer, 1, k) /\ buffer' = SubSeq(buffer, k + 1, Len(buffer))

\* writeln fails: the row is lost (if only a piece of it was written, too), and the
\* loop ends, with rows still in the channel.
WriteFails ==
  /\ writer = "run" /\ channel # <<>>
  /\ disk' = FALSE /\ writer' = "ending" /\ channel' = <<>>
  /\ \E k \in 0 .. Len(buffer) : Salvaged(k)
  /\ UNCHANGED <<logged, sinceFlush, drop>>

\* A flush between two rows fails, which is ignored: the buffer keeps its rows.
FlushFails ==
  /\ writer = "run" /\ channel # <<>> /\ sinceFlush + 1 >= FlushEvery
  /\ disk' = FALSE /\ sinceFlush' = 0 /\ channel' = Tail(channel)
  /\ buffer' = Append(buffer, Head(channel))
  /\ UNCHANGED <<logged, file, writer, drop>>

\* Fault: the end of the channel is taken for the end of the work.
WriterSeesEnd_Early ==
  /\ writer = "run" /\ drop # "held"
  /\ writer' = "ending"
  /\ UNCHANGED <<logged, channel, buffer, file, sinceFlush, disk, drop>>

\* Fault: the sender is kept, and the writer waits for more.
WriterSeesEnd_Waits ==
  /\ writer = "run" /\ channel = <<>> /\ drop = "joined"
  /\ writer' = "ending"
  /\ UNCHANGED <<logged, channel, buffer, file, sinceFlush, disk, drop>>

\* recv fails when the sender is gone and the channel empty.
WriterSeesEnd ==
  /\ writer = "run" /\ channel = <<>> /\ drop # "held"
  /\ writer' = "ending"
  /\ UNCHANGED <<logged, channel, buffer, file, sinceFlush, disk, drop>>

\* The last flush, as much of it as the disk takes, and the thread ends.
WriterEnds ==
  /\ writer = "ending"
  /\ writer' = "done"
  /\ \E k \in (IF disk THEN {Len(buffer)} ELSE 0 .. Len(buffer)) : file' = file \o SubSeq(buffer, 1, k)
  /\ buffer' = <<>>
  /\ UNCHANGED <<logged, channel, sinceFlush, disk, drop>>

\* Drop: the sender goes first.
CloseLog ==
  /\ drop = "held"
  /\ drop' = "closed"
  /\ UNCHANGED <<logged, channel, buffer, file, sinceFlush, disk, writer>>

\* Then the writer is joined.
JoinLog ==
  /\ drop = "closed" /\ writer = "done"
  /\ drop' = "joined"
  /\ UNCHANGED <<logged, channel, buffer, file, sinceFlush, disk, writer>>

LabStep == WriteRow \/ WriterSeesEnd \/ WriterEnds \/ JoinLog
LabNext == (\E t \in Loggers : Log(t)) \/ LabStep \/ WriteFails \/ FlushFails \/ CloseLog

-----------------------------------------------------------------------------
\* The rows that have reached the file, of one thread.
Of(t) == SelectSeq(file, LAMBDA r : r.by = t)

\* Dropping the logger returns, whether or not the disk fails, and by then the rows
\* of each thread are in the file in their order, all of them unless the disk failed
\* ("so the CSV is complete before the process inspects it").
LogComplete ==
  drop = "closed" ~>
    /\ drop = "joined"
    /\ \A t \in Loggers :
         /\ \A i, j \in DOMAIN Of(t) : i < j => Of(t)[i].n < Of(t)[j].n
         /\ disk => Len(Of(t)) = logged[t]
=============================================================================
