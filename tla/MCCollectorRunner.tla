---------------------------- MODULE MCCollectorRunner ----------------------------
(***************************************************************************)
(* CollectorRunner for TLC, and the property that sums over collectors.    *)
(***************************************************************************)
EXTENDS CollectorRunner, Functions

\* The poll that c's poller, past its select, may be about to begin.
AboutToPoll(c) == IF poller[c] = "default" THEN 1 ELSE 0

\* Results that the polls at work, and those about to begin, still hand over.
ResultsToCome == SumFunction([c \in Names |-> Undelivered(c) + AboutToPoll(c)])

\* Main, which has forwarded a signal and receives no more results, gets to
\* clean-up whenever pollResults has room for those to come (runner.go:255-263).
ShutdownWithRoomEnds ==
  (/\ main = "awaitCollectors"
   /\ ResultsToCome <= PollResultsQueueSize - Len(pollResults)) ~> (main = "done")
=============================================================================
