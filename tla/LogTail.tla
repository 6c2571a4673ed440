------------------------------- MODULE LogTail -------------------------------
(***************************************************************************)
(* The stdout of one job on its way to the driver's terminal: the ring     *)
(* buffer the tee of job-queue.ts fills, the tail GET /jobs/:id answers    *)
(* with, and printNewLog of shard-coordinator.ts, which finds in each tail *)
(* the lines that are new by looking for the text of the last one it saw.  *)
(*                                                                         *)
(* A line is its number in everything the job has written, and written[n]  *)
(* is its text: two lines may have the same text, and only texts travel.   *)
(* Abstracted: chunks that end inside a line (each piece is a line, as in  *)
(* the code), empty lines (dropped before they are counted), the prefix    *)
(* with the shard's label.                                                 *)
(***************************************************************************)
EXTENDS Integers, Sequences

CONSTANTS
  Text,        \* the texts a line can have
  LOG_CAP,     \* lines the ring buffer holds
  LogLines,    \* ?logLines of the poll
  MaxWritten   \* bound: lines the job writes

ASSUME LogTailAssumption ==
  /\ LOG_CAP \in Nat \ {0}
  /\ LogLines \in Nat \ {0}
  /\ MaxWritten \in Nat

VARIABLES
  written,     \* the texts of all lines written so far
  log,         \* job.log
  ended,       \* how many lines were written when the job settled, or -1
  answer,      \* the response to the poll, on its way
  lastLogTail, \* ShardState.lastLogTail
  printed,     \* the lines printed on the driver's terminal
  done         \* whether the driver was told that the job is done

tailVars == <<written, log, ended, answer, lastLogTail, printed, done>>

Line == Nat \ {0}

\* No poll in flight.
NoAnswer == [tail |-> <<>>, status |-> "none"]

TailTypeOK ==
  /\ written \in Seq(Text)
  /\ log \in Seq(Line) /\ Len(log) <= LOG_CAP
  /\ ended \in Int
  /\ answer \in [tail : Seq(Line), status : {"none", "running", "done"}]
  /\ Len(answer.tail) <= LogLines
  /\ lastLogTail \in Seq(Line)
  /\ printed \in Seq(Line)
  /\ done \in BOOLEAN

TailInit ==
  /\ written = <<>>
  /\ log = <<>>
  /\ ended = -1
  /\ answer = NoAnswer
  /\ lastLogTail = <<>>
  /\ printed = <<>>
  /\ done = FALSE

----------------------------------------------------------------------------
(* The bench-runner. *)

\* slice(-n).
LastOf(s, n) == SubSeq(s, (IF Len(s) > n THEN Len(s) - n ELSE 0) + 1, Len(s))

\* The tee: push the line, and shift when there are more than LOG_CAP.  The
\* buffer is written as long as the job is in the map, settled or not.
Write(text) ==
  /\ Len(written) < MaxWritten
  /\ written' = Append(written, text)
  /\ log' = LastOf(Append(log, Len(written) + 1), LOG_CAP)
  /\ UNCHANGED <<ended, answer, lastLogTail, printed, done>>

\* The continuation of fn().then.
JobReturns ==
  /\ ended = -1
  /\ ended' = Len(written)
  /\ UNCHANGED <<written, log, answer, lastLogTail, printed, done>>

\* GET /jobs/:id answers with the tail and the status of one instant.
Poll ==
  /\ ~done
  /\ answer.status = "none"
  /\ answer' = [tail   |-> LastOf(log, LogLines),
                status |-> IF ended = -1 THEN "running" ELSE "done"]
  /\ UNCHANGED <<written, log, ended, lastLogTail, printed, done>>

\* The response is lost: the driver sees {error} and prints nothing.
PollFails ==
  /\ answer.status # "none"
  /\ answer' = NoAnswer
  /\ UNCHANGED <<written, log, ended, lastLogTail, printed, done>>

----------------------------------------------------------------------------
(* The driver. *)

TextOf(line) == written[line]

\* tail.lastIndexOf(text), counted from 1; 0 is not found.
IsLastIndexOf(i, tail, text) ==
  /\ i # 0 => TextOf(tail[i]) = text
  /\ \A k \in (i + 1)..Len(tail) : TextOf(tail[k]) # text

\* tail.indexOf(text).
IsFirstIndexOf(i, tail, text) ==
  /\ i # 0 => TextOf(tail[i]) = text
  /\ \A k \in 1..(IF i = 0 THEN Len(tail) ELSE i - 1) : TextOf(tail[k]) # text

\* The first occurrence in place of the last.
PrintNewLog_FirstIndex(tail) ==
  \E i \in 0..Len(tail) :
    /\ IF lastLogTail = <<>> THEN i = 0
       ELSE IsFirstIndexOf(i, tail, TextOf(lastLogTail[Len(lastLogTail)]))
    /\ printed' = printed \o SubSeq(tail, i + 1, Len(tail))
    /\ lastLogTail' = tail

\* The new lines found by how many there are, as if the tail only ever grew.
PrintNewLog_ByLength(tail) ==
  /\ printed' = printed \o SubSeq(tail, Len(lastLogTail) + 1, Len(tail))
  /\ lastLogTail' = tail

\* Everything the first time, then what comes after the last line seen before,
\* or everything if that line is not in the tail.
PrintNewLog(tail) ==
  \E i \in 0..Len(tail) :
    /\ IF lastLogTail = <<>> THEN i = 0
       ELSE IsLastIndexOf(i, tail, TextOf(lastLogTail[Len(lastLogTail)]))
    /\ printed' = printed \o SubSeq(tail, i + 1, Len(tail))
    /\ lastLogTail' = tail

\* The status looked at first, so that the last tail is dropped.
TailArrives_StatusFirst ==
  /\ answer.status # "none"
  /\ IF answer.status = "done" THEN UNCHANGED <<printed, lastLogTail>>
     ELSE PrintNewLog(answer.tail)
  /\ done' = (answer.status = "done")
  /\ answer' = NoAnswer
  /\ UNCHANGED <<written, log, ended>>

\* The tail of every answer without an error is printed, the final one's too.
TailArrives ==
  /\ answer.status # "none"
  /\ PrintNewLog(answer.tail)
  /\ done' = (answer.status = "done")
  /\ answer' = NoAnswer
  /\ UNCHANGED <<written, log, ended>>

TailNext ==
  \/ \E text \in Text : Write(text)
  \/ JobReturns
  \/ Poll
  \/ PollFails
  \/ TailArrives

TailSpec == TailInit /\ [][TailNext]_tailVars

----------------------------------------------------------------------------
(* Properties. *)

\* No line is printed twice or before an earlier one, whatever was overwritten
\* between two polls, however texts repeat, and however many polls are lost.
PrintedInOrder ==
  \A i, k \in 1..Len(printed) : i < k => printed[i] < printed[k]

DistinctTexts == \A i, k \in 1..Len(written) : written[i] = written[k] => i = k

Printed(line) == \E i \in 1..Len(printed) : printed[i] = line

\* As long as no text repeats, a tail that was handled is on the terminal in
\* full: only lines no tail ever carried are missing from it.
HandledTailIsPrinted ==
  DistinctTexts => \A i \in 1..Len(lastLogTail) : Printed(lastLogTail[i])

\* Once the driver knows that the job is done, it has printed all the job wrote
\* until it settled, if the job's output fits the window of one poll.
DoneLogIsComplete ==
  done /\ DistinctTexts /\ Len(written) <= LogLines /\ Len(written) <= LOG_CAP =>
    \A line \in 1..ended : Printed(line)

=============================================================================
