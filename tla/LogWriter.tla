----------------------------------- MODULE LogWriter -----------------------------------
(***************************************************************************)
(* What the Logs collector promises: its output file is the log, from the  *)
(* line where collecting began, and grows line by line up to what has been *)
(* collected; when the collector is cleaned up all of that is in the file, *)
(* which does not change any more.  How slices that overlap and come in    *)
(* any order are made one is the business of LogsCollector.                *)
(***************************************************************************)
EXTENDS Naturals, Sequences

CONSTANT LogEnd  \* the last line of the log

VARIABLES collected,  \* the lines that have been collected
          file,       \* the lines of the output file
          closed      \* whether the collector has been cleaned up

vars == <<collected, file, closed>>

Init == collected = {} /\ file = <<>> /\ closed = FALSE

\* More of the log has been collected, or some of it again.
Collect == /\ ~closed
           /\ \E last \in 1 .. LogEnd : collected' = collected \cup (1 .. last)
           /\ UNCHANGED <<file, closed>>

\* The line that follows those in the file is written.
Write == /\ ~closed
         /\ Len(file) + 1 \in collected
         /\ file' = Append(file, Len(file) + 1)
         /\ UNCHANGED <<collected, closed>>

Close == /\ ~closed
         /\ collected = 1 .. Len(file)
         /\ closed' = TRUE
         /\ UNCHANGED <<collected, file>>

Next == Collect \/ Write \/ Close

Spec == Init /\ [][Next]_vars
=======================================================================================
