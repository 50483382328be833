--------------------------- MODULE CollectorLifecycle ---------------------------
(***************************************************************************)
(* What the Collector interface promises to its implementers: a collector  *)
(* is built, started once, polled only while it is started, by a bounded   *)
(* number of overlapping polls, and cleaned up when none of its polls is   *)
(* still at work.  How that is achieved is the business of                 *)
(* CollectorRunner, which implements this module.                          *)
(***************************************************************************)
EXTENDS Naturals

CONSTANTS Names,           \* the names of the registered collectors
          MaxRunningPolls  \* overlapping polls allowed per collector

VARIABLES life,     \* the stage of its life each collector is in
          running   \* polls of each collector that have not delivered a result

vars == <<life, running>>

Init == /\ life = [c \in Names |-> "absent"]
        /\ running = [c \in Names |-> 0]

\* The collector's builder function returned an instance.
Build(c) == /\ life[c] = "absent"
            /\ life' = [life EXCEPT ![c] = "built"]
            /\ UNCHANGED running

\* Collector.Start
Start(c) == /\ life[c] = "built"
            /\ life' = [life EXCEPT ![c] = "started"]
            /\ UNCHANGED running

\* Collector.Poll is entered, in a goroutine of its own.
BeginPoll(c) == /\ life[c] = "started"
                /\ running[c] < MaxRunningPolls
                /\ running' = [running EXCEPT ![c] = @ + 1]
                /\ UNCHANGED life

\* Collector.Poll hands its result over.
EndPoll(c) == /\ life[c] = "started"
              /\ running[c] > 0
              /\ running' = [running EXCEPT ![c] = @ - 1]
              /\ UNCHANGED life

\* Collector.CleanUp
CleanUp(c) == /\ life[c] = "started"
              /\ running[c] = 0
              /\ life' = [life EXCEPT ![c] = "cleaned"]
              /\ UNCHANGED running

Next == \E c \in Names :
          Build(c) \/ Start(c) \/ BeginPoll(c) \/ EndPoll(c) \/ CleanUp(c)

Spec == Init /\ [][Next]_vars
=============================================================================
