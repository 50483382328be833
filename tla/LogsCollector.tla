------------------------------- MODULE LogsCollector -------------------------------
(***************************************************************************)
(* The Logs collector (collectors/log_follower.go, loglines/lines.go):     *)
(* overlapping polls read windows of the log of the PTP daemon and queue   *)
(* them as slices; processSlices files the slices by generation, flushes   *)
(* the oldest generations de-duplicated to the lines channel, and          *)
(* writeToLogFile writes them; the generation dumper keeps a copy of every *)
(* slice.  CleanUp stops the three goroutines one after the other.         *)
(*                                                                         *)
(* Time is a clock of small integers.  The daemon logs line t at time t,   *)
(* so a window of the log is an interval of numbers.  The state starts     *)
(* after Start, and polls are those CollectorRunner lets a collector have: *)
(* at most MaxRunningPolls at once and none during CleanUp.                *)
(***************************************************************************)
EXTENDS Dedup, FiniteSets

CONSTANTS
  PollInterval,        \* logPollInterval
  MaxRunningPolls,     \* the runner's maxRunningPolls
  keepGenerations,     \* loglines.keepGenerations
  GenerationModulus,   \* 2^32 in the code: generations are uint32
  LineSliceChanLength, \* lineSliceChanLength
  LineChanLength,      \* lineChanLength
  DumpChannelSize,     \* dumpChannelSize
  KeepLogs,            \* whether the dumped slices are kept
  OpenLag,             \* ticks the log request of a poll may take to be answered
  ReadLag,             \* ticks the stream of a poll may lag behind the log
  StreamsBreak,        \* whether a stream may break off early
  MaxTime              \* bound: the clock

ASSUME LogsAssumption ==
  /\ PollInterval \in Nat \ {0}
  /\ MaxRunningPolls \in Nat \ {0}
  /\ keepGenerations \in Nat \ {0}
  /\ GenerationModulus \in Nat /\ GenerationModulus > MaxTime
  /\ LineSliceChanLength \in Nat \ {0}
  /\ LineChanLength \in Nat \ {0}
  /\ DumpChannelSize \in Nat \ {0}
  /\ KeepLogs \in BOOLEAN /\ StreamsBreak \in BOOLEAN
  /\ OpenLag \in Nat /\ ReadLag \in Nat
  /\ MaxTime \in Nat \ {0}

VARIABLES
  now,        \* the clock
  lastBegin,  \* when the poller last began a poll
  polls,      \* the polls at work, by slot
  lastPoll,   \* the GenerationalLockedTime
  slices,     \* channel of slices
  store,      \* Generations.Store: the slices of each generation, as they came
  latest,     \* Generations.Latest
  oldest,     \* Generations.Oldest
  processor,  \* where processSlices is
  out,        \* lines processSlices has still to queue
  lines,      \* channel of lines
  writer,     \* where writeToLogFile is
  file,       \* lines of the output file
  toDump,     \* length of the dumper's channel
  dumpFiles,  \* files of dumped slices
  dumper,     \* where dumpProcessor is
  wg,         \* LogsCollector.wg
  cleanUp,    \* where CleanUp is
  collected   \* history: the lines polls have queued

pollVars  == <<now, lastBegin, polls, lastPoll, collected>>
genVars   == <<store, latest, oldest>>
writeVars == <<lines, writer, file>>
dumpVars  == <<toDump, dumpFiles, dumper>>
vars == <<pollVars, slices, genVars, processor, out, writeVars, dumpVars, wg, cleanUp>>

Slots == 1 .. MaxRunningPolls
Idle  == [at |-> "idle", since |-> 0, start |-> 0, generation |-> 0, lines |-> <<>>]

Init ==
  /\ now = 1
  /\ lastBegin = 0 - PollInterval
  /\ polls = [p \in Slots |-> Idle]
  /\ lastPoll = [time |-> 0, generation |-> 0]
  /\ slices = <<>>
  /\ store = [g \in {} |-> <<>>]
  /\ latest = 0 /\ oldest = 0
  /\ processor = "spawned" /\ out = <<>>
  /\ lines = <<>> /\ writer = "spawned" /\ file = <<>>
  /\ toDump = 0 /\ dumpFiles = 0 /\ dumper = "select"
  /\ wg = 0
  /\ cleanUp = "no"
  /\ collected = {}
-----------------------------------------------------------------------------
(***************************************************************************)
(* Polls                                                                   *)
(***************************************************************************)
Polling == cleanUp = "no"

\* poll() reads lastPoll.Time() for its request.
BeginPoll(p) ==
  /\ Polling /\ polls[p] = Idle
  /\ now - lastBegin > PollInterval
  /\ now + OpenLag + PollInterval + 1 + ReadLag <= MaxTime
  /\ lastBegin' = now
  /\ polls' = [polls EXCEPT ![p].at = "request", ![p].since = lastPoll.time]
  /\ UNCHANGED <<now, lastPoll, collected, slices, genVars, processor, out, writeVars,
                 dumpVars, wg, cleanUp>>

\* The stream is open: start := time.Now() and generation := lastPoll.Generation().
OpenStream(p) ==
  /\ polls[p].at = "request"
  /\ polls' = [polls EXCEPT ![p].at = "reading", ![p].start = now,
                            ![p].generation = lastPoll.generation]
  /\ UNCHANGED <<now, lastBegin, lastPoll, collected, slices, genVars, processor, out,
                 writeVars, dumpVars, wg, cleanUp>>

\* Mutant of LastLine: the end is expected by what was asked for, not by when it was opened.
LastLineOfRequest(p) == polls[p].since + PollInterval + 1

\* The last line processStream reads: the first one past the expected end.
LastLine(p) == polls[p].start + PollInterval + 1

\* Mutant of ReadUpTo: a slice without lines is queued as well.
ReadUpToEvenNothing(p, last) ==
  polls' = [polls EXCEPT ![p].at = "queueing",
                         ![p].lines = Log(IF @ = <<>> /\ polls[p].since > 0
                                            THEN polls[p].since ELSE 1, last)]

\* processStream returns the lines from since to last; without a line the poll
\* is over and lastPoll stays.  A line that processLine cannot read is skipped, by each
\* poll alike, and neither ends a stream nor counts: the log is the lines it can read.
FirstLine(p) == IF polls[p].since = 0 THEN 1 ELSE polls[p].since

ReadUpTo(p, last) ==
  LET window == Log(FirstLine(p), last)
  IN  polls' = [polls EXCEPT ![p] =
                  IF window = <<>> THEN Idle ELSE [@ EXCEPT !.at = "queueing", !.lines = window]]

ReadStream(p) ==
  /\ polls[p].at = "reading"
  /\ LastLine(p) <= now
  /\ ReadUpTo(p, LastLine(p))
  /\ UNCHANGED <<now, lastBegin, lastPoll, collected, slices, genVars, processor, out,
                 writeVars, dumpVars, wg, cleanUp>>

\* The stream breaks off: Scan returns false and the error of the scanner, which
\* is looked at inside the loop only, is not seen.
BreakStream(p) ==
  /\ StreamsBreak
  /\ polls[p].at = "reading"
  /\ \E last \in FirstLine(p) - 1 .. now :
       last < LastLine(p) /\ ReadUpTo(p, last)
  /\ UNCHANGED <<now, lastBegin, lastPoll, collected, slices, genVars, processor, out,
                 writeVars, dumpVars, wg, cleanUp>>

\* logs.slices <- lineSlice
QueueSlice(p) ==
  /\ polls[p].at = "queueing"
  /\ Len(slices) < LineSliceChanLength
  /\ slices' = Append(slices, Slice(polls[p].lines, polls[p].generation))
  /\ collected' = collected \cup ToSet(polls[p].lines)
  /\ polls' = [polls EXCEPT ![p].at = "updating", ![p].lines = <<>>]
  /\ UNCHANGED <<now, lastBegin, lastPoll, genVars, processor, out, writeVars, dumpVars,
                 wg, cleanUp>>

\* SetLastPoll(start): a new generation, if start is later than what is there.
SetLastPoll(p) ==
  /\ polls[p].at = "updating"
  /\ lastPoll' = IF polls[p].start > lastPoll.time
                   THEN [time |-> polls[p].start,
                         generation |-> (lastPoll.generation + 1) % GenerationModulus]
                   ELSE lastPoll
  /\ polls' = [polls EXCEPT ![p] = Idle]
  /\ UNCHANGED <<now, lastBegin, collected, slices, genVars, processor, out, writeVars,
                 dumpVars, wg, cleanUp>>

\* Time passes, unless it is time for a poll to get on.
Tick ==
  /\ Polling /\ now < MaxTime
  /\ \A p \in Slots : /\ polls[p].at = "request" => now < lastBegin + OpenLag
                      /\ polls[p].at \in {"reading", "queueing", "updating"}
                           => now < LastLine(p) + ReadLag
  /\ now' = now + 1
  /\ UNCHANGED <<lastBegin, polls, lastPoll, collected, slices, genVars, processor, out,
                 writeVars, dumpVars, wg, cleanUp>>
-----------------------------------------------------------------------------
(***************************************************************************)
(* processSlices                                                           *)
(***************************************************************************)

\* Each goroutine joins the wait group itself, once it runs.
StartProcessor ==
  /\ processor = "spawned"
  /\ processor' = "select"
  /\ wg' = wg + 1
  /\ UNCHANGED <<pollVars, slices, genVars, out, writeVars, dumpVars, cleanUp>>

\* Generations.Add, which also queues the slice for the dumper.
AddSlice ==
  LET s == Head(slices)
  IN  /\ slices' = Tail(slices)
      /\ toDump < DumpChannelSize
      /\ toDump' = toDump + 1
      /\ store' = [g \in DOMAIN store \cup {s.generation} |->
                     (IF g \in DOMAIN store THEN store[g] ELSE <<>>)
                       \o (IF g = s.generation THEN <<s>> ELSE <<>>)]
      /\ latest' = IF latest < s.generation THEN s.generation ELSE latest
      /\ UNCHANGED <<oldest, dumpFiles, dumper>>

TakeSlice ==
  /\ processor \in {"select", "draining"}
  /\ slices # <<>>
  /\ AddSlice
  /\ UNCHANGED <<pollVars, processor, out, writeVars, wg, cleanUp>>

\* Mutant of ShouldFlush: generations are not kept until late slices have come.
ShouldFlushAtOnce == latest # oldest

\* Generations.ShouldFlush; the subtraction is on uint32.
ShouldFlush ==
  /\ (latest - oldest) % GenerationModulus > keepGenerations
  /\ Cardinality(DOMAIN store) > keepGenerations

\* Mutant of FlushableGenerations: the oldest alone.
OldestGeneration == {g \in DOMAIN store : g <= oldest}

\* The generations Flush takes, and what flush makes of a set of generations.
FlushableGenerations == {g \in DOMAIN store : g <= (oldest + keepGenerations) % GenerationModulus}

flush(gens) ==
  LET all(dedup) == [DedupLineSlices(Evaluated([i \in 1 .. Len(dedup) |-> dedup[i].slice]))
                       EXCEPT !.ok = @ /\ \A i \in 1 .. Len(dedup) : dedup[i].ok]
      ofEach(ordered) ==
        Once(Evaluated([i \in 1 .. Len(ordered) |-> dedupGeneration(store[ordered[i]])]), all)
  IN  Once(Ascending(gens), ofEach)

\* Mutant of Flush: the slice that stays is queued too.
FlushWithLast ==
  /\ processor = "select" /\ slices = <<>> /\ cleanUp # "quit"
  /\ ShouldFlush
  /\ \E d \in {flush(FlushableGenerations)} :
       LET g == d.last.generation
       IN /\ processor' = IF d.ok THEN "queueing" ELSE "panicked"
         /\ out' = d.result.lines \o d.last.lines
         /\ store' = [h \in {k \in DOMAIN store : k >= g} \cup {g} |->
                        IF h = g THEN <<d.last>> ELSE store[h]]
         /\ oldest' = g
  /\ UNCHANGED <<pollVars, slices, latest, writeVars, dumpVars, wg, cleanUp>>

\* Generations.Flush in the default case: what the last slice does not repeat
\* goes to the writer, the last slice stays as the only one of its generation.
Flush ==
  /\ processor = "select" /\ slices = <<>> /\ cleanUp # "quit"
  /\ ShouldFlush
  /\ \E d \in {flush(FlushableGenerations)} :
       LET g == d.last.generation
       IN /\ processor' = IF d.ok THEN "queueing" ELSE "panicked"
         /\ out' = d.result.lines
         /\ store' = [h \in {k \in DOMAIN store : k >= g} \cup {g} |->
                        IF h = g THEN <<d.last>> ELSE store[h]]
         /\ oldest' = g
  /\ UNCHANGED <<pollVars, slices, latest, writeVars, dumpVars, wg, cleanUp>>

\* logs.lines <- line
QueueLine ==
  /\ processor \in {"queueing", "lastQueueing"} /\ out # <<>>
  /\ Len(lines) < LineChanLength
  /\ lines' = Append(lines, Head(out))
  /\ out' = Tail(out)
  /\ UNCHANGED <<pollVars, slices, genVars, processor, writer, file, dumpVars, wg, cleanUp>>

LinesQueued ==
  /\ processor = "queueing" /\ out = <<>>
  /\ processor' = "select"
  /\ UNCHANGED <<pollVars, slices, genVars, out, writeVars, dumpVars, wg, cleanUp>>

\* case sig := <-logs.sliceQuit, which CleanUp is sending on.
TakeSliceQuit ==
  /\ processor = "select" /\ cleanUp = "quit"
  /\ processor' = "draining"
  /\ cleanUp' = "waiting"
  /\ UNCHANGED <<pollVars, slices, genVars, out, writeVars, dumpVars, wg>>

\* Mutant of FlushAll: the slices still queued are left there.
FlushAllAtOnce ==
  /\ processor = "draining"
  /\ \E d \in {flush(DOMAIN store)} :
         IF DOMAIN store = {}
           THEN processor' = "lastQueueing" /\ out' = <<>>
           ELSE /\ processor' = IF d.ok THEN "lastQueueing" ELSE "panicked"
                /\ out' = d.result.lines \o d.last.lines
  /\ UNCHANGED <<pollVars, slices, genVars, writeVars, dumpVars, wg, cleanUp>>

\* Mutant of FlushAll: an empty store is flushed like any other.
FlushAllUnchecked ==
  /\ processor = "draining" /\ slices = <<>>
  /\ \E d \in {flush(DOMAIN store)} :
         /\ processor' = IF d.ok THEN "lastQueueing" ELSE "panicked"
         /\ out' = d.result.lines \o d.last.lines
  /\ UNCHANGED <<pollVars, slices, genVars, writeVars, dumpVars, wg, cleanUp>>

\* FlushAll, once no slice is left: the store is read, not changed.
FlushAll ==
  /\ processor = "draining" /\ slices = <<>>
  /\ \E d \in {flush(DOMAIN store)} :
         IF DOMAIN store = {}
           THEN processor' = "lastQueueing" /\ out' = <<>>
           ELSE /\ processor' = IF d.ok THEN "lastQueueing" ELSE "panicked"
                /\ out' = d.result.lines \o d.last.lines
  /\ UNCHANGED <<pollVars, slices, genVars, writeVars, dumpVars, wg, cleanUp>>

\* Mutant of SignalWriter: the writer is not told.
SignalWriterNot ==
  /\ processor = "lastQueueing" /\ out = <<>>
  /\ writer = "select"
  /\ processor' = "done"
  /\ wg' = wg - 1
  /\ UNCHANGED <<pollVars, slices, genVars, out, writeVars, dumpVars, cleanUp>>

\* logs.writeQuit <- sig meets the writer's select; processSlices returns.
SignalWriter ==
  /\ processor = "lastQueueing" /\ out = <<>>
  /\ writer = "select"
  /\ processor' = "done"
  /\ writer' = "draining"
  /\ wg' = wg - 1
  /\ UNCHANGED <<pollVars, slices, genVars, out, lines, file, dumpVars, cleanUp>>
-----------------------------------------------------------------------------
(***************************************************************************)
(* writeToLogFile and the dumper                                           *)
(***************************************************************************)
StartWriter ==
  /\ writer = "spawned"
  /\ writer' = "select"
  /\ wg' = wg + 1
  /\ UNCHANGED <<pollVars, slices, genVars, processor, out, lines, file, dumpVars, cleanUp>>

\* writeLine, whose write succeeds: one that fails is only logged, and its line is lost.
WriteLine ==
  /\ writer \in {"select", "draining"} /\ lines # <<>>
  /\ file' = Append(file, Head(lines))
  /\ lines' = Tail(lines)
  /\ UNCHANGED <<pollVars, slices, genVars, processor, out, writer, dumpVars, wg, cleanUp>>

\* Mutant of WriterDone: the lines still in the channel are left there.
WriterDoneAtOnce ==
  /\ writer = "draining"
  /\ writer' = "done"
  /\ wg' = wg - 1
  /\ UNCHANGED <<pollVars, slices, genVars, processor, out, lines, file, dumpVars, cleanUp>>

WriterDone ==
  /\ writer = "draining" /\ lines = <<>>
  /\ writer' = "done"
  /\ wg' = wg - 1
  /\ UNCHANGED <<pollVars, slices, genVars, processor, out, lines, file, dumpVars, cleanUp>>

DumpSlice ==
  /\ dumper \in {"select", "draining"} /\ toDump > 0
  /\ toDump' = toDump - 1
  /\ dumpFiles' = dumpFiles + 1
  /\ UNCHANGED <<pollVars, slices, genVars, processor, out, writeVars, dumper, wg, cleanUp>>

DumperDone ==
  /\ dumper = "draining" /\ toDump = 0
  /\ dumper' = "done"
  /\ UNCHANGED <<pollVars, slices, genVars, processor, out, writeVars, toDump, dumpFiles, wg, cleanUp>>
-----------------------------------------------------------------------------
(***************************************************************************)
(* CleanUp, called when every poll is over                                 *)
(***************************************************************************)
BeginCleanUp ==
  /\ cleanUp = "no" /\ \A p \in Slots : polls[p] = Idle
  /\ cleanUp' = "quit"
  /\ UNCHANGED <<pollVars, slices, genVars, processor, out, writeVars, dumpVars, wg>>

\* Mutant of AwaitGoroutines: there is no waiting.
AwaitGoroutinesNot ==
  /\ cleanUp = "waiting"
  /\ cleanUp' = "stopDumper"
  /\ UNCHANGED <<pollVars, slices, genVars, processor, out, writeVars, dumpVars, wg>>

\* logs.wg.Wait()
AwaitGoroutines ==
  /\ cleanUp = "waiting" /\ wg = 0
  /\ cleanUp' = "stopDumper"
  /\ UNCHANGED <<pollVars, slices, genVars, processor, out, writeVars, dumpVars, wg>>

\* Dumper.Stop sends on the dumper's quit channel ...
StopDumper ==
  /\ cleanUp = "stopDumper" /\ dumper = "select"
  /\ dumper' = "draining"
  /\ cleanUp' = "awaitDumper"
  /\ UNCHANGED <<pollVars, slices, genVars, processor, out, writeVars, toDump, dumpFiles, wg>>

\* ... waits for it and removes its files unless they are to be kept.
CleanUpDone ==
  /\ cleanUp = "awaitDumper" /\ dumper = "done"
  /\ dumpFiles' = IF KeepLogs THEN dumpFiles ELSE 0
  /\ cleanUp' = "done"
  /\ UNCHANGED <<pollVars, slices, genVars, processor, out, writeVars, toDump, dumper, wg>>

\* The default case of each select, when there is nothing to do.
Sleep ==
  /\ \/ processor = "select" /\ slices = <<>> /\ cleanUp # "quit" /\ ~ShouldFlush
     \/ writer = "select" /\ lines = <<>>
     \/ dumper = "select" /\ toDump = 0
  /\ UNCHANGED vars

Ended == cleanUp = "done" /\ UNCHANGED vars
-----------------------------------------------------------------------------
Poll(p) == \/ BeginPoll(p) \/ OpenStream(p) \/ ReadStream(p) \/ BreakStream(p)
           \/ QueueSlice(p) \/ SetLastPoll(p)

Processor == \/ StartProcessor \/ TakeSlice \/ Flush \/ QueueLine \/ LinesQueued
             \/ TakeSliceQuit \/ FlushAll \/ SignalWriter

Writer  == StartWriter \/ WriteLine \/ WriterDone
Dumper  == DumpSlice \/ DumperDone
CleanUp == BeginCleanUp \/ AwaitGoroutines \/ StopDumper \/ CleanUpDone

Next == \/ Tick \/ \E p \in Slots : Poll(p)
        \/ Processor \/ Writer \/ Dumper \/ CleanUp
        \/ Sleep \/ Ended

Spec == Init /\ [][Next]_vars

\* The goroutines of the collector run when they can; nothing obliges the runner
\* to clean up, nor the log to be answered.
Fairness == /\ WF_vars(Processor) /\ WF_vars(Writer) /\ WF_vars(Dumper)
            /\ WF_vars(AwaitGoroutines \/ StopDumper \/ CleanUpDone)

FairSpec == Spec /\ Fairness
-----------------------------------------------------------------------------
(***************************************************************************)
(* Properties                                                              *)
(***************************************************************************)
SliceType == [lines : Seq(1 .. MaxTime + PollInterval), generation : 0 .. GenerationModulus - 1]

TypeOK ==
  /\ now \in 1 .. MaxTime
  /\ lastBegin \in Int
  /\ \A p \in Slots : polls[p].at \in {"idle", "request", "reading", "queueing", "updating"}
  /\ lastPoll.time \in 0 .. MaxTime
  /\ lastPoll.generation \in 0 .. GenerationModulus - 1
  /\ Len(slices) <= LineSliceChanLength
  /\ \A g \in DOMAIN store : store[g] # <<>> /\ \A s \in ToSet(store[g]) : s.lines # <<>>
  /\ Len(lines) <= LineChanLength
  /\ toDump \in 0 .. DumpChannelSize
  /\ dumpFiles \in Nat
  /\ wg \in 0 .. 2

\* Every line is written once and in the order of the log, whichever way polls,
\* generations and flushes interleave (log_follower.go:41-42).
FileInOrder == \A i \in 1 .. Len(file) - 1 : file[i] < file[i + 1]

\* Once cleaned up, the output file holds every line a poll collected, whichever slices
\* were in flight, filed or queued when CleanUp began (log_follower.go:112-131, 286-295).
NothingLost == cleanUp = "done" => ToSet(file) = collected

\* ... and the polls left no gap in the log between the first line and the last.
NoGap == cleanUp = "done" /\ file # <<>> => Last(file) - Head(file) = Len(file) - 1

\* A flush that is due takes a generation besides the oldest, which is there: it
\* does not run on nothing, and the oldest generation moves on.
FlushMakesProgress ==
  processor = "select" /\ ShouldFlush =>
    /\ oldest \in FlushableGenerations
    /\ Cardinality(FlushableGenerations) > 1

\* No slice that waits is of a generation that has been flushed already: it would be
\* filed behind lines that are in the file (log_follower.go:252, lines.go:203-237).
NoLateSlice == \A i \in 1 .. Len(slices) : slices[i].generation >= oldest

\* De-duplication never runs into an index out of range.
NeverPanics == processor # "panicked"

\* CleanUp returns after all three goroutines did, with every channel empty,
\* although the goroutines join the wait group by themselves.
CleanUpWaits ==
  /\ cleanUp \in {"stopDumper", "awaitDumper", "done"}
       => processor = "done" /\ writer = "done" /\ slices = <<>> /\ lines = <<>>
  /\ cleanUp = "done" => dumper = "done" /\ toDump = 0 /\ (~KeepLogs => dumpFiles = 0)

\* The collector keeps the promise of LogWriter: the file is the log, written line by
\* line and never ahead of the polls, whole when CleanUp returns and left alone from then
\* on (log_follower.go:41-42, 286-295).
Promise == INSTANCE LogWriter WITH LogEnd <- MaxTime, closed <- (cleanUp = "done")
ImplementsLogWriter == Promise!Spec

\* A CleanUp that was begun comes to its end.
CleanUpEnds == (cleanUp = "quit") ~> (cleanUp = "done")
=============================================================================
