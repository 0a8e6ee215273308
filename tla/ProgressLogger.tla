--------------------------- MODULE ProgressLogger ----------------------------
(***************************************************************************)
(* The goroutine that shows the progress of a task while the caller waits  *)
(* for it (pkg/vsphere_api/dumbProgressLogger.go).  loopA repeats a prefix *)
(* until the channel of Sink arrives, loopB prints the reports that come   *)
(* over it until it is closed, and a verdict closes the line.              *)
(*                                                                         *)
(* This module has the state and the operations.  Wait, which would end    *)
(* loopA, is not among them: nothing calls it.  The ticker only prints.    *)
(***************************************************************************)
EXTENDS Naturals

VARIABLES
  logger,     \* where the goroutine is
  sinkClosed, \* the channel Sink returned has been closed
  reportErr,  \* err of loopB: the last report received carried an error
  verdict     \* the end of the line: "none", "OK" or "Error"

loggerVars == <<logger, sinkClosed, reportErr, verdict>>

LoggerTypeOK ==
  /\ logger \in {"none", "loopA", "loopB", "ended"}
  /\ sinkClosed \in BOOLEAN /\ reportErr \in BOOLEAN
  /\ verdict \in {"none", "OK", "Error"}

LoggerInit ==
  /\ logger = "none"
  /\ sinkClosed = FALSE /\ reportErr = FALSE
  /\ verdict = "none"

newDumbProgressLogger ==
  /\ logger = "none" /\ logger' = "loopA"
  /\ UNCHANGED <<sinkClosed, reportErr, verdict>>

\* p.sink <- ch: the caller and loopA meet.
Sink ==
  /\ logger = "loopA" /\ logger' = "loopB"
  /\ UNCHANGED <<sinkClosed, reportErr, verdict>>

\* A report the sender insists on, with or without an error: they meet.
Report(err) ==
  /\ logger = "loopB"
  /\ reportErr' = err
  /\ UNCHANGED <<logger, sinkClosed, verdict>>

CloseSink ==
  /\ sinkClosed' = TRUE
  /\ UNCHANGED <<logger, reportErr, verdict>>

\* The faulty program that forgets `stop = true' after loopB.
loopAGoesOn ==
  /\ logger = "loopB" /\ logger' = "loopA"
  /\ sinkClosed
  /\ UNCHANGED <<sinkClosed, reportErr, verdict>>

\* loopB finds the channel closed, and loopA prints the verdict.
loopBEnds ==
  /\ logger = "loopB" /\ logger' = "ended"
  /\ sinkClosed
  /\ verdict' = IF reportErr THEN "Error" ELSE "OK"
  /\ UNCHANGED <<sinkClosed, reportErr>>

=============================================================================
