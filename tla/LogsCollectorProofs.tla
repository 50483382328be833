---------------------------- MODULE LogsCollectorProofs ----------------------------
(***************************************************************************)
(* Theorems about LogsCollector, for any number of polls, any log and any  *)
(* size of its channels.  First its control: which goroutine is where      *)
(* while CleanUp goes on.  Then what it writes, as long as streams do not  *)
(* break and requests are answered in time.                                *)
(***************************************************************************)
EXTENDS LogsCollector, DedupProofs

Counted == {"select", "queueing", "draining", "lastQueueing", "panicked"}

\* The wait group counts the goroutines that have joined it and have not returned.
GroupCount ==
  /\ processor \in Counted \cup {"spawned", "done"}
  /\ writer \in {"spawned", "select", "draining", "done"}
  /\ wg = (IF processor \in Counted THEN 1 ELSE 0)
          + (IF writer \in {"select", "draining"} THEN 1 ELSE 0)

\* How far CleanUp has come, and the goroutines with it.
Stopping ==
  /\ cleanUp \in {"no", "quit", "waiting", "stopDumper", "awaitDumper", "done"}
  /\ cleanUp # "no" => \A p \in Slots : polls[p] = Idle
  /\ processor \in {"draining", "lastQueueing", "done"} => cleanUp \notin {"no", "quit"}
  /\ cleanUp = "waiting" => processor \in {"draining", "lastQueueing", "panicked", "done"}
  /\ processor \in {"lastQueueing", "done"} => slices = <<>>
  /\ writer \in {"draining", "done"} <=> processor = "done"
  /\ processor = "done" => out = <<>>
  /\ writer = "done" => lines = <<>>
  /\ cleanUp \in {"stopDumper", "awaitDumper", "done"} =>
       processor = "done" /\ writer = "done"
  /\ dumper \in {"draining", "done"} => cleanUp \in {"awaitDumper", "done"}
  /\ dumper = "done" => toDump = 0
  /\ cleanUp = "done" => dumper = "done" /\ (~KeepLogs => dumpFiles = 0)

IInv == GroupCount /\ Stopping
-----------------------------------------------------------------------------
LEMMA InitIInv == Init => IInv
  BY DEF Init, IInv, GroupCount, Stopping, Counted

\* A poll is at work only before CleanUp, and touches nothing but the queue of slices.
LEMMA PollKeepsIInv == ASSUME IInv, NEW p \in Slots, Poll(p) PROVE IInv'
  <1>1. UNCHANGED <<processor, out, lines, writer, toDump, dumpFiles, dumper, wg, cleanUp>>
    BY DEF Poll, BeginPoll, OpenStream, ReadStream, BreakStream, QueueSlice, SetLastPoll,
           writeVars, dumpVars
  <1>2. cleanUp = "no"
    <2>1. CASE BeginPoll(p)
      BY <2>1 DEF BeginPoll, Polling
    <2>2. polls[p] = Idle => polls[p].at = "idle"
      BY DEF Idle
    <2>3. CASE ~BeginPoll(p)
      <3>1. polls[p].at # "idle"
        BY <2>3 DEF Poll, OpenStream, ReadStream, BreakStream, QueueSlice, SetLastPoll
      <3> QED
        BY <2>2, <3>1 DEF IInv, Stopping
    <2> QED
      BY <2>1, <2>3
  <1>3. processor \notin {"draining", "lastQueueing", "done"}
    BY <1>2 DEF IInv, Stopping
  <1> QED
    BY <1>1, <1>2, <1>3 DEF IInv, GroupCount, Stopping

LEMMA ProcessorKeepsIInv == ASSUME IInv, Processor PROVE IInv'
  <1>1. GroupCount /\ Stopping
    BY DEF IInv
  <1>2. CASE StartProcessor
    BY <1>1, <1>2 DEF StartProcessor, IInv, GroupCount, Stopping, Counted, pollVars, genVars,
                      writeVars, dumpVars
  <1>3. CASE TakeSlice
    <2>1. UNCHANGED <<polls, processor, out, lines, writer, wg, cleanUp, dumper, dumpFiles>>
      BY <1>3 DEF TakeSlice, AddSlice, pollVars, writeVars
    <2>2. processor \in {"select", "draining"}
      BY <1>3 DEF TakeSlice
    <2>3. dumper \notin {"draining", "done"}
      BY <1>1, <2>2 DEF Stopping
    <2> QED
      BY <1>1, <2>1, <2>2, <2>3 DEF IInv, GroupCount, Stopping
  <1>4. CASE Flush
    <2>1. /\ UNCHANGED <<polls, slices, lines, writer, wg, cleanUp, dumper, toDump, dumpFiles>>
          /\ processor = "select"
      BY <1>4 DEF Flush, pollVars, writeVars, dumpVars
    <2>2. processor' \in {"queueing", "panicked"}
      BY <1>4 DEF Flush
    <2> QED
      BY <1>1, <2>1, <2>2 DEF IInv, GroupCount, Stopping, Counted
  <1>5. CASE QueueLine
    <2>1. /\ UNCHANGED <<polls, slices, processor, writer, wg, cleanUp, dumper, toDump,
                         dumpFiles>>
          /\ processor \in {"queueing", "lastQueueing"}
      BY <1>5 DEF QueueLine, pollVars, dumpVars
    <2>2. writer # "done"
      BY <1>1, <2>1 DEF Stopping
    <2> QED
      BY <1>1, <2>1, <2>2 DEF IInv, GroupCount, Stopping
  <1>6. CASE LinesQueued
    BY <1>1, <1>6 DEF LinesQueued, IInv, GroupCount, Stopping, Counted, pollVars, writeVars,
                      dumpVars
  <1>7. CASE TakeSliceQuit
    BY <1>1, <1>7 DEF TakeSliceQuit, IInv, GroupCount, Stopping, Counted, pollVars, writeVars,
                      dumpVars
  <1>8. CASE FlushAll
    <2>1. /\ UNCHANGED <<polls, slices, lines, writer, wg, cleanUp, dumper, toDump, dumpFiles>>
          /\ processor = "draining" /\ slices = <<>>
      BY <1>8 DEF FlushAll, pollVars, writeVars, dumpVars
    <2>2. processor' \in {"lastQueueing", "panicked"}
      BY <1>8 DEF FlushAll
    <2> QED
      BY <1>1, <2>1, <2>2 DEF IInv, GroupCount, Stopping, Counted
  <1>9. CASE SignalWriter
    BY <1>1, <1>9 DEF SignalWriter, IInv, GroupCount, Stopping, Counted, pollVars, dumpVars
  <1> QED
    BY <1>2, <1>3, <1>4, <1>5, <1>6, <1>7, <1>8, <1>9 DEF Processor

LEMMA WriterKeepsIInv == ASSUME IInv, Writer PROVE IInv'
  <1>1. GroupCount /\ Stopping
    BY DEF IInv
  <1>2. UNCHANGED <<polls, slices, processor, out, cleanUp, dumper, toDump, dumpFiles>>
    BY DEF Writer, StartWriter, WriteLine, WriterDone, pollVars, dumpVars
  <1>3. CASE StartWriter
    BY <1>1, <1>2, <1>3 DEF StartWriter, IInv, GroupCount, Stopping
  <1>4. CASE WriteLine
    BY <1>1, <1>2, <1>4 DEF WriteLine, IInv, GroupCount, Stopping
  <1>5. CASE WriterDone
    BY <1>1, <1>2, <1>5 DEF WriterDone, IInv, GroupCount, Stopping
  <1> QED
    BY <1>3, <1>4, <1>5 DEF Writer

LEMMA DumperKeepsIInv == ASSUME IInv, Dumper PROVE IInv'
  <1>1. GroupCount /\ Stopping
    BY DEF IInv
  <1>2. UNCHANGED <<polls, slices, processor, out, lines, writer, wg, cleanUp>>
    BY DEF Dumper, DumpSlice, DumperDone, pollVars, writeVars
  <1>3. CASE DumpSlice
    BY <1>1, <1>2, <1>3 DEF DumpSlice, IInv, GroupCount, Stopping
  <1>4. CASE DumperDone
    BY <1>1, <1>2, <1>4 DEF DumperDone, IInv, GroupCount, Stopping
  <1> QED
    BY <1>3, <1>4 DEF Dumper

LEMMA CleanUpKeepsIInv == ASSUME IInv, CleanUp PROVE IInv'
  <1>1. GroupCount /\ Stopping
    BY DEF IInv
  <1>2. UNCHANGED <<polls, slices, processor, out, lines, writer, wg, toDump>>
    BY DEF CleanUp, BeginCleanUp, AwaitGoroutines, StopDumper, CleanUpDone, pollVars,
           writeVars, dumpVars
  <1>3. CASE BeginCleanUp
    BY <1>1, <1>2, <1>3 DEF BeginCleanUp, IInv, GroupCount, Stopping, dumpVars
  <1>4. CASE AwaitGoroutines
    <2>1. processor = "done" /\ writer = "done"
      BY <1>1, <1>4 DEF AwaitGoroutines, GroupCount, Stopping, Counted
    <2> QED
      BY <1>1, <1>2, <1>4, <2>1 DEF AwaitGoroutines, IInv, GroupCount, Stopping, dumpVars
  <1>5. CASE StopDumper
    BY <1>1, <1>2, <1>5 DEF StopDumper, IInv, GroupCount, Stopping
  <1>6. CASE CleanUpDone
    BY <1>1, <1>2, <1>6 DEF CleanUpDone, IInv, GroupCount, Stopping
  <1> QED
    BY <1>3, <1>4, <1>5, <1>6 DEF CleanUp

LEMMA NextKeepsIInv == IInv /\ [Next]_vars => IInv'
  <1> SUFFICES ASSUME IInv, [Next]_vars PROVE IInv'
    OBVIOUS
  <1>1. CASE Tick
    BY <1>1 DEF Tick, IInv, GroupCount, Stopping, writeVars, dumpVars
  <1>2. CASE UNCHANGED vars
    BY <1>2 DEF vars, IInv, GroupCount, Stopping, pollVars, writeVars, dumpVars
  <1> QED
    BY <1>1, <1>2, PollKeepsIInv, ProcessorKeepsIInv, WriterKeepsIInv, DumperKeepsIInv,
       CleanUpKeepsIInv DEF Next, Sleep, Ended

LEMMA Inductive == Spec => []IInv
  BY InitIInv, NextKeepsIInv, PTL DEF Spec
-----------------------------------------------------------------------------
\* CleanUp gets past its wait only when processSlices and writeToLogFile have returned
\* and their channels are empty, and returns when the dumper has emptied its own: the
\* goroutines join the wait group by themselves, but the signals on the channels
\* without room come first (log_follower.go:284-294).
THEOREM CleanUpOutlivesGoroutines == Spec => []CleanUpWaits
  <1>1. IInv => CleanUpWaits
    BY DEF IInv, Stopping, CleanUpWaits
  <1> QED
    BY <1>1, Inductive, PTL
-----------------------------------------------------------------------------
(***************************************************************************)
(* What is written                                                         *)
(*                                                                         *)
(* A read is what a poll contributes: the lines from first to last under a *)
(* generation.  It is pending while the stream is open and until its slice *)
(* is queued, and queued from then on until a flush makes it part of       *)
(* another one.                                                            *)
(***************************************************************************)
Spread     == PollInterval + 1
FirstOf(t) == IF t = 0 THEN 1 ELSE t

OfSlice(s) == [first |-> startOf(s), last |-> endOf(s), generation |-> s.generation]
OfPoll(p)  == [first |-> FirstLine(p), last |-> LastLine(p), generation |-> polls[p].generation]

Open(p)  == polls[p].at \in {"reading", "queueing"}
Asked(p) == polls[p].at = "request"

Stored  == {OfSlice(s) : s \in UNION {ToSet(store[g]) : g \in DOMAIN store}}
Queued  == {OfSlice(slices[i]) : i \in 1 .. Len(slices)} \cup Stored
Pending == {OfPoll(p) : p \in {q \in Slots : Open(q)}}
Reads   == Queued \cup Pending

\* Requests are answered before the next poll begins, streams do not break, and a poll is
\* over before the third one after it could be.
Timely == ~StreamsBreak /\ OpenLag <= PollInterval /\ OpenLag + ReadLag <= 2 * PollInterval + 1

PollRecord == [at : {"idle", "request", "reading", "queueing", "updating"},
               since : Nat, start : Nat, generation : Nat, lines : Lines]

\* A slice that has all lines from its first to its last.
Whole(s) ==
  /\ Unbroken(s) /\ startOf(s) >= 1 /\ endOf(s) <= now
  /\ s.generation <= lastPoll.generation

Clocks ==
  /\ now \in Nat /\ now >= 1 /\ now <= MaxTime /\ lastBegin \in Int /\ lastBegin <= now
  /\ lastPoll \in [time : Nat, generation : Nat]
  /\ lastPoll.time <= now /\ lastPoll.generation <= lastPoll.time

Shapes ==
  /\ slices \in Seq(LineSlice) /\ \A i \in 1 .. Len(slices) : Whole(slices[i])
  /\ IsFiniteSet(DOMAIN store)
  /\ \A g \in DOMAIN store : /\ g \in Nat /\ store[g] \in Seq(LineSlice) /\ store[g] # <<>>
                             /\ \A s \in ToSet(store[g]) : Whole(s) /\ s.generation = g
  /\ out \in Lines /\ lines \in Lines /\ file \in Lines

\* What a poll knows where it is.
PollTimes ==
  /\ polls \in [Slots -> PollRecord]
  /\ \A p \in Slots :
       /\ polls[p].at # "idle" => polls[p].since <= lastPoll.time
       /\ Asked(p) => now <= lastBegin + OpenLag
       /\ polls[p].at \in {"reading", "queueing", "updating"} =>
            /\ polls[p].since <= polls[p].start /\ polls[p].start <= now
            /\ now <= LastLine(p) + ReadLag
            /\ polls[p].generation <= lastPoll.generation
       /\ polls[p].at = "queueing" => /\ polls[p].lines = Log(FirstLine(p), LastLine(p))
                                      /\ LastLine(p) <= now

\* The store holds generations from oldest to latest, and no read is late.
InStore ==
  /\ latest \in Nat /\ oldest \in Nat /\ oldest <= latest /\ latest <= lastPoll.generation
  /\ \A g \in DOMAIN store : g <= latest
  /\ IF DOMAIN store = {} THEN latest = oldest ELSE latest \in DOMAIN store
  /\ \A r \in Reads : oldest <= r.generation

\* No two polls wait for an answer, and no two reads start at the same time.
Apart ==
  /\ \A p, q \in Slots : Asked(p) /\ Asked(q) => p = q
  /\ \A p, q \in Slots : Open(p) /\ Open(q) /\ polls[p].start = polls[q].start => p = q
  /\ \A p \in Slots, r \in Queued : Open(p) => r.last # LastLine(p)

\* How far apart reads start: one poll interval less what the answer to one may take.
Spaced ==
  /\ \A r \in Reads :
       /\ r.last - Spread <= lastBegin + OpenLag
       /\ r.last - Spread < lastBegin => r.last <= lastBegin + OpenLag
       /\ \A p \in Slots : Asked(p) => r.last - Spread < lastBegin
  /\ \A r, s \in Reads :
       r.last < s.last =>
         /\ r.last - Spread < lastBegin
         /\ s.last - Spread < lastBegin => r.last + Spread <= lastBegin + OpenLag
  /\ \A r, s, t \in Reads :
       r.last < s.last /\ s.last < t.last => r.last + 2 * Spread <= t.last + OpenLag

\* Reads that start later begin with later lines and have later generations, and those of
\* one generation overlap.
InTurn ==
  /\ \A r, s \in Reads : r.last < s.last => r.first <= s.first /\ r.generation <= s.generation
  /\ \A r, s \in Reads : r.last = s.last => r = s
  /\ \A r, s \in Reads : r.generation = s.generation => r.first <= s.last
  /\ \A r \in Reads :
       /\ r.first <= FirstOf(lastPoll.time)
       /\ r.generation = lastPoll.generation => FirstOf(lastPoll.time) <= r.last
       /\ \A p \in Slots : Asked(p) => r.first <= FirstLine(p)

\* A poll asks for the log from a line on that an earlier one has read.
Reached(t) == t = 0 \/ \E s \in Queued : t <= s.last

Known ==
  /\ Reached(lastPoll.time)
  /\ \A p \in Slots : /\ Asked(p) => Reached(polls[p].since)
                      /\ polls[p].at = "updating" => Reached(polls[p].start)

\* What goes to the file, and how many lines that is.
Written == (file \o lines) \o out
Done    == Len(Written)

Flushed  == {"lastQueueing", "done"}
Emptied == processor \in {"spawned", "select", "draining", "done"} => out = <<>>

\* What is still to be written follows on what is, and each read on another one.
Linked ==
  processor \notin Flushed =>
    /\ FirstOf(lastPoll.time) > Done
    /\ \A p \in Slots : Asked(p) => FirstLine(p) > Done
    /\ \A r \in Reads :
         /\ r.first > Done
         /\ r.first = Done + 1 \/ \E s \in Queued : s.last < r.last /\ r.first <= s.last

\* What goes to the file is the log, up to some line, and all that was collected is there
\* or queued.
Content ==
  /\ Written = Log(1, Done)
  /\ collected = IF processor \in Flushed THEN 1 .. Done
                 ELSE (1 .. Done) \cup UNION {r.first .. r.last : r \in Queued}

Reading == Clocks /\ Shapes /\ PollTimes /\ InStore /\ Apart /\ Spaced /\ InTurn /\ Known
Writing == Emptied /\ Linked /\ Content
LogInv  == Reading /\ Writing
-----------------------------------------------------------------------------
LEMMA Constants ==
  /\ PollInterval \in Nat \ {0} /\ Spread \in Nat /\ Spread >= 2 /\ Spread = PollInterval + 1
  /\ OpenLag \in Nat /\ ReadLag \in Nat /\ MaxTime \in Nat
  /\ GenerationModulus \in Nat /\ GenerationModulus > MaxTime
  /\ keepGenerations \in Nat \ {0}
  BY LogsAssumption DEF LogsAssumption, Spread

\* What a read is.
LEMMA ReadsAre ==
  ASSUME Clocks, Shapes, PollTimes
  PROVE  /\ \A r \in Reads : /\ r.first \in Nat /\ r.last \in Nat /\ r.generation \in Nat
                             /\ 1 <= r.first /\ r.first <= r.last
                             /\ r.generation <= lastPoll.generation
                             /\ r.last - Spread <= now
         /\ \A r \in Queued : r \in Reads /\ r.last <= now
         /\ \A p \in Slots : FirstLine(p) \in Nat /\ LastLine(p) \in Int
  <1>1. \A s \in LineSlice : s.generation \in Nat
    BY DEF LineSlice
  <1>2. ASSUME NEW s, Whole(s)
        PROVE  LET r == OfSlice(s)
               IN  /\ r.first \in Nat /\ r.last \in Nat /\ r.generation \in Nat
                   /\ 1 <= r.first /\ r.first <= r.last /\ r.last <= now
                   /\ r.generation <= lastPoll.generation
    BY <1>1, <1>2 DEF Whole, Unbroken, OfSlice
  <1>3. \A r \in Queued : \E s : Whole(s) /\ r = OfSlice(s)
    BY DEF Queued, Stored, Shapes
  <1>4. \A r \in Queued : /\ r.first \in Nat /\ r.last \in Nat /\ r.generation \in Nat
                          /\ 1 <= r.first /\ r.first <= r.last /\ r.last <= now
                          /\ r.generation <= lastPoll.generation
    BY <1>2, <1>3
  <1>5. \A p \in Slots : FirstLine(p) \in Nat /\ FirstLine(p) >= 1 /\ LastLine(p) \in Int
    BY Constants DEF FirstLine, LastLine, PollTimes, PollRecord
  <1>6. ASSUME NEW p \in Slots, Open(p)
        PROVE  LET r == OfPoll(p)
               IN  /\ r.first \in Nat /\ r.last \in Nat /\ r.generation \in Nat
                   /\ 1 <= r.first /\ r.first <= r.last
                   /\ r.generation <= lastPoll.generation
                   /\ r.last - Spread <= now
    <2>1. /\ polls[p].since \in Nat /\ polls[p].start \in Nat /\ polls[p].generation \in Nat
          /\ polls[p].since <= polls[p].start /\ polls[p].start <= now
          /\ polls[p].generation <= lastPoll.generation
      BY <1>6 DEF PollTimes, PollRecord, Open
    <2> QED
      BY <2>1, Constants DEF OfPoll, FirstLine, LastLine, Spread, Clocks
  <1>7. \A r \in Pending : \E p \in Slots : Open(p) /\ r = OfPoll(p)
    BY DEF Pending
  <1>8. now \in Nat
    BY DEF Clocks
  <1> QED
    BY <1>4, <1>5, <1>6, <1>7, <1>8, Constants DEF Reads

\* Reads are those of the polls, of the queue and of the store.
LEMMA SameReads ==
  ASSUME UNCHANGED <<polls, slices, store>>
  PROVE  /\ Queued' = Queued /\ Reads' = Reads
         /\ \A p \in Slots : /\ (Open(p) <=> Open(p)') /\ (Asked(p) <=> Asked(p)')
                             /\ FirstLine(p)' = FirstLine(p) /\ LastLine(p)' = LastLine(p)
  BY DEF Queued, Stored, Reads, Pending, Open, Asked, OfPoll, FirstLine, LastLine

\* The invariant does not depend on where the goroutines are, but for processSlices.
LEMMA ControlKeeps ==
  ASSUME LogInv, Emptied', processor' \in Flushed <=> processor \in Flushed,
         UNCHANGED <<now, lastBegin, polls, lastPoll, collected, slices, store, latest, oldest,
                     out, lines, file>>
  PROVE  LogInv'
  <1>1. /\ Queued' = Queued /\ Reads' = Reads
        /\ \A p \in Slots : /\ (Open(p) <=> Open(p)') /\ (Asked(p) <=> Asked(p)')
                            /\ FirstLine(p)' = FirstLine(p) /\ LastLine(p)' = LastLine(p)
    BY SameReads
  <1>2. Written' = Written /\ Done' = Done
    BY DEF Written, Done
  <1>3. Reading'
    <2>1. Clocks' /\ Shapes' /\ PollTimes'
      BY <1>1 DEF LogInv, Reading, Clocks, Shapes, PollTimes, Whole, Asked
    <2>2. InStore' /\ Apart'
      BY <1>1 DEF LogInv, Reading, InStore, Apart
    <2>3. Spaced' /\ InTurn'
      BY <1>1 DEF LogInv, Reading, Spaced, InTurn
    <2>4. Known'
      BY <1>1 DEF LogInv, Reading, Known, Reached
    <2> QED
      BY <2>1, <2>2, <2>3, <2>4 DEF Reading
  <1>4. Writing'
    BY <1>1, <1>2 DEF LogInv, Writing, Linked, Content
  <1> QED
    BY <1>3, <1>4 DEF LogInv

LEMMA InitLogInv == Init => LogInv
  <1> SUFFICES ASSUME Init PROVE LogInv
    OBVIOUS
  <1>1. Queued = {} /\ Pending = {} /\ Reads = {}
    BY DEF Init, Queued, Stored, Pending, Reads, Open, Idle
  <1>2. Written = <<>> /\ Done = 0 /\ Log(1, 0) = <<>>
    BY DEF Init, Written, Done, Log
  <1>3. <<>> \in Lines /\ <<>> \in Seq(LineSlice)
    BY DEF Lines
  <1>4. Clocks /\ Shapes
    <2>1. DOMAIN store = {} /\ IsFiniteSet({})
      BY FS_EmptySet DEF Init
    <2> QED
      BY <1>3, <2>1, LogsAssumption DEF Init, Clocks, Shapes, LogsAssumption
  <1>5. PollTimes
    BY <1>3 DEF Init, PollTimes, PollRecord, Idle, Asked
  <1>6. InStore /\ Apart /\ Spaced /\ InTurn
    BY <1>1 DEF Init, InStore, Apart, Spaced, InTurn, Asked, Open, Idle
  <1>7. Known
    BY DEF Init, Known, Reached, Asked, Idle
  <1>8. Emptied /\ Linked
    BY <1>1, <1>2 DEF Init, Emptied, Linked, Flushed, FirstOf, Asked, Idle
  <1>9. Content
    BY <1>1, <1>2 DEF Init, Content, Flushed
  <1> QED
    BY <1>4, <1>5, <1>6, <1>7, <1>8, <1>9 DEF LogInv, Reading, Writing

\* Lines that have been queued are written in turn.
LEMMA MovingKeeps ==
  ASSUME LogInv, UNCHANGED <<now, lastBegin, polls, lastPoll, collected, slices, store, latest,
                             oldest, processor>>,
         out' \in Lines, lines' \in Lines, file' \in Lines, Emptied', Written' = Written
  PROVE  LogInv'
  <1>1. /\ Queued' = Queued /\ Reads' = Reads
        /\ \A p \in Slots : /\ (Open(p) <=> Open(p)') /\ (Asked(p) <=> Asked(p)')
                            /\ FirstLine(p)' = FirstLine(p) /\ LastLine(p)' = LastLine(p)
    BY SameReads
  <1>2. Done' = Done
    BY DEF Done
  <1>3. Reading'
    <2>1. Clocks' /\ Shapes' /\ PollTimes'
      BY <1>1 DEF LogInv, Reading, Clocks, Shapes, PollTimes, Whole, Asked
    <2>2. InStore' /\ Apart'
      BY <1>1 DEF LogInv, Reading, InStore, Apart
    <2>3. Spaced' /\ InTurn'
      BY <1>1 DEF LogInv, Reading, Spaced, InTurn
    <2>4. Known'
      BY <1>1 DEF LogInv, Reading, Known, Reached
    <2> QED
      BY <2>1, <2>2, <2>3, <2>4 DEF Reading
  <1>4. Writing'
    BY <1>1, <1>2 DEF LogInv, Writing, Linked, Content
  <1> QED
    BY <1>3, <1>4 DEF LogInv

LEMMA QueueLineKeeps == ASSUME LogInv, QueueLine PROVE LogInv'
  <1>1. /\ UNCHANGED <<now, lastBegin, polls, lastPoll, collected, slices, store, latest,
                       oldest, processor, file>>
        /\ out # <<>> /\ lines' = Append(lines, Head(out)) /\ out' = Tail(out)
        /\ processor \in {"queueing", "lastQueueing"}
    BY DEF QueueLine, pollVars, genVars
  <1>2. out \in Lines /\ lines \in Lines /\ file \in Lines
    BY DEF LogInv, Reading, Shapes
  <1>3. lines' \in Lines /\ out' \in Lines /\ lines' \o out' = lines \o out
    BY <1>1, <1>2, HeadMoves
  <1>4. /\ (file \o lines') \o out' = file \o (lines' \o out')
        /\ (file \o lines) \o out = file \o (lines \o out)
    BY <1>2, <1>3, LinesAssociative
  <1>5. Written' = Written
    BY <1>1, <1>3, <1>4 DEF Written
  <1>6. Emptied'
    BY <1>1 DEF Emptied
  <1> QED
    BY <1>1, <1>2, <1>3, <1>5, <1>6, MovingKeeps

LEMMA WriteLineKeeps == ASSUME LogInv, WriteLine PROVE LogInv'
  <1>1. /\ UNCHANGED <<now, lastBegin, polls, lastPoll, collected, slices, store, latest,
                       oldest, processor, out>>
        /\ lines # <<>> /\ file' = Append(file, Head(lines)) /\ lines' = Tail(lines)
    BY DEF WriteLine, pollVars, genVars
  <1>2. out \in Lines /\ lines \in Lines /\ file \in Lines
    BY DEF LogInv, Reading, Shapes
  <1>3. file' \in Lines /\ lines' \in Lines /\ file' \o lines' = file \o lines
    BY <1>1, <1>2, HeadMoves
  <1>4. Written' = Written
    BY <1>1, <1>3 DEF Written
  <1>5. Emptied'
    BY <1>1 DEF LogInv, Writing, Emptied
  <1> QED
    BY <1>1, <1>2, <1>3, <1>4, <1>5, MovingKeeps

\* A poll that is at work is waited for.
LEMMA TickKeeps == ASSUME LogInv, Tick PROVE LogInv'
  <1>1. /\ UNCHANGED <<lastBegin, polls, lastPoll, collected, slices, store, latest, oldest,
                       out, lines, file, processor>>
        /\ now < MaxTime /\ now' = now + 1
        /\ \A p \in Slots : /\ Asked(p) => now < lastBegin + OpenLag
                            /\ polls[p].at \in {"reading", "queueing", "updating"}
                                 => now < LastLine(p) + ReadLag
    BY DEF Tick, genVars, writeVars, Asked
  <1>2. /\ Queued' = Queued /\ Reads' = Reads
        /\ \A p \in Slots : /\ (Open(p) <=> Open(p)') /\ (Asked(p) <=> Asked(p)')
                            /\ FirstLine(p)' = FirstLine(p) /\ LastLine(p)' = LastLine(p)
    BY <1>1, SameReads
  <1>3. Clocks'
    BY <1>1, Constants DEF LogInv, Reading, Clocks
  <1>4. Shapes'
    <2>1. \A s : Whole(s) => Whole(s)'
      BY <1>1 DEF LogInv, Reading, Clocks, Whole, Unbroken
    <2> QED
      BY <1>1, <2>1 DEF LogInv, Reading, Shapes
  <1>5. PollTimes'
    <2>1. polls \in [Slots -> PollRecord] /\ now \in Nat /\ lastBegin \in Int
      BY DEF LogInv, Reading, PollTimes, Clocks
    <2>2. \A p \in Slots : LastLine(p) \in Int /\ polls[p].start \in Nat
      BY <2>1, Constants DEF LastLine, PollRecord
    <2>3. \A p \in Slots :
            /\ Asked(p) => now + 1 <= lastBegin + OpenLag
            /\ polls[p].at \in {"reading", "queueing", "updating"}
                 => now + 1 <= LastLine(p) + ReadLag
      BY <1>1, <2>1, <2>2, Constants
    <2>4. \A p \in Slots : /\ polls[p].start <= now => polls[p].start <= now + 1
                           /\ LastLine(p) <= now => LastLine(p) <= now + 1
      BY <2>1, <2>2
    <2> QED
      BY <1>1, <1>2, <2>3, <2>4 DEF LogInv, Reading, PollTimes
  <1>6. InStore' /\ Apart'
    BY <1>1, <1>2 DEF LogInv, Reading, InStore, Apart
  <1>7. Spaced' /\ InTurn'
    BY <1>1, <1>2 DEF LogInv, Reading, Spaced, InTurn
  <1>8. Known'
    BY <1>1, <1>2 DEF LogInv, Reading, Known, Reached
  <1>9. Written' = Written /\ Done' = Done
    BY <1>1 DEF Written, Done
  <1>10. Writing'
    BY <1>1, <1>2, <1>9 DEF LogInv, Writing, Emptied, Linked, Content
  <1> QED
    BY <1>3, <1>4, <1>5, <1>6, <1>7, <1>8, <1>10 DEF LogInv, Reading
-----------------------------------------------------------------------------
LEMMA PollsStay ==
  ASSUME UNCHANGED <<slices, store>>,
         \A q \in Slots : (Open(q)' <=> Open(q)) /\ (Open(q) => OfPoll(q)' = OfPoll(q))
  PROVE  Queued' = Queued /\ Reads' = Reads
  <1>1. Queued' = Queued
    BY DEF Queued, Stored
  <1>2. Pending' = Pending
    BY DEF Pending
  <1> QED
    BY <1>1, <1>2 DEF Reads

\* One poll goes on.
LEMMA OneSlot ==
  ASSUME NEW p \in Slots, polls \in [Slots -> PollRecord], NEW x \in PollRecord,
         polls' = [polls EXCEPT ![p] = x]
  PROVE  /\ polls' \in [Slots -> PollRecord] /\ polls'[p] = x
         /\ \A q \in Slots : q # p => polls'[q] = polls[q]
         /\ \A q \in Slots : q # p => /\ (Open(q)' <=> Open(q)) /\ (Asked(q)' <=> Asked(q))
                                      /\ OfPoll(q)' = OfPoll(q)
                                      /\ FirstLine(q)' = FirstLine(q)
                                      /\ LastLine(q)' = LastLine(q)
  BY DEF Open, Asked, OfPoll, FirstLine, LastLine

LEMMA BeginPollKeeps == ASSUME LogInv, Timely, NEW p \in Slots, BeginPoll(p) PROVE LogInv'
  <1> DEFINE x == [polls[p] EXCEPT !.at = "request", !.since = lastPoll.time]
  <1>1. /\ UNCHANGED <<now, lastPoll, collected, slices, store, latest, oldest, out, lines,
                       file, processor>>
        /\ polls[p] = Idle /\ now - lastBegin > PollInterval /\ lastBegin' = now
        /\ polls' = [polls EXCEPT ![p] = x]
    BY DEF BeginPoll, genVars, writeVars
  <1>2. Clocks /\ Shapes /\ PollTimes /\ Spaced /\ InTurn /\ Known
    BY DEF LogInv, Reading
  <1>3. /\ now \in Nat /\ lastBegin \in Int /\ lastPoll.time \in Nat /\ lastPoll.time <= now
        /\ polls \in [Slots -> PollRecord]
    BY <1>2 DEF Clocks, PollTimes
  <1>4. /\ x \in PollRecord /\ x.at = "request" /\ x.since = lastPoll.time
        /\ polls[p].at = "idle"
    <2>1. polls[p] \in PollRecord
      BY <1>3
    <2>2. x \in PollRecord /\ x.at = "request" /\ x.since = lastPoll.time
      BY <1>3, <2>1 DEF PollRecord
    <2> QED
      BY <1>1, <2>2 DEF Idle
  <1> HIDE DEF x
  <1>5. /\ polls' \in [Slots -> PollRecord] /\ polls'[p] = x
        /\ \A q \in Slots : q # p => /\ polls'[q] = polls[q]
                                     /\ (Open(q)' <=> Open(q)) /\ (Asked(q)' <=> Asked(q))
                                     /\ OfPoll(q)' = OfPoll(q)
                                     /\ FirstLine(q)' = FirstLine(q)
                                     /\ LastLine(q)' = LastLine(q)
    BY <1>1, <1>3, <1>4, OneSlot
  <1>6. /\ ~Open(p) /\ ~Open(p)' /\ ~Asked(p) /\ Asked(p)'
        /\ FirstLine(p)' = FirstOf(lastPoll.time)
    BY <1>4, <1>5 DEF Open, Asked, FirstLine, FirstOf
  <1>7. Queued' = Queued /\ Reads' = Reads
    BY <1>1, <1>5, <1>6, PollsStay
  <1>8. \A q \in Slots : ~Asked(q)
    BY <1>1, <1>2, <1>3, Constants DEF Timely, PollTimes
  <1>9. \A q \in Slots : (Asked(q)' <=> q = p) /\ (Open(q)' <=> Open(q))
    BY <1>5, <1>6, <1>8
  <1>10. Clocks' /\ Shapes'
    BY <1>1, <1>2, <1>3 DEF Clocks, Shapes, Whole
  <1>11. PollTimes'
    <2>1. ASSUME NEW q \in Slots
          PROVE  /\ polls'[q].at # "idle" => polls'[q].since <= lastPoll.time
                 /\ Asked(q)' => now <= now + OpenLag
                 /\ polls'[q].at \in {"reading", "queueing", "updating"} =>
                      /\ polls'[q].since <= polls'[q].start /\ polls'[q].start <= now
                      /\ now <= LastLine(q)' + ReadLag
                      /\ polls'[q].generation <= lastPoll.generation
                 /\ polls'[q].at = "queueing" =>
                      /\ polls'[q].lines = Log(FirstLine(q)', LastLine(q)')
                      /\ LastLine(q)' <= now
      <3>1. CASE q = p
        BY <1>3, <1>4, <1>5, <3>1, Constants
      <3>2. CASE q # p
        BY <1>2, <1>3, <1>5, <3>2, Constants DEF PollTimes
      <3> QED
        BY <3>1, <3>2
    <2> QED
      BY <1>1, <1>5, <2>1 DEF PollTimes
  <1>12. InStore'
    BY <1>1, <1>7 DEF LogInv, Reading, InStore
  <1>13. Apart'
    <2>1. \A q \in Slots : Open(q) => q # p
      BY <1>6
    <2> QED
      BY <1>5, <1>7, <1>9, <2>1 DEF LogInv, Reading, Apart
  <1>14. Spaced'
    <2>1. \A r \in Reads : r.last \in Int
      BY <1>2, ReadsAre
    <2>2. Spread \in Nat /\ OpenLag \in Nat /\ OpenLag < Spread /\ now >= lastBegin + Spread
      BY <1>1, <1>3, Constants DEF Timely
    <2>3. \A r \in Reads : /\ r.last - Spread <= now + OpenLag
                           /\ r.last - Spread < now
                           /\ r.last <= now + OpenLag
      BY <1>2, <1>3, <2>1, <2>2 DEF Spaced
    <2>4. \A r, s \in Reads : r.last < s.last => r.last + Spread <= now + OpenLag
      BY <1>2, <1>3, <2>1, <2>2 DEF Spaced
    <2> QED
      BY <1>1, <1>2, <1>7, <2>3, <2>4 DEF Spaced
  <1>15. InTurn'
    BY <1>1, <1>2, <1>6, <1>7, <1>9 DEF InTurn
  <1>16. Known'
    <2>1. \A t : Reached(t) => Reached(t)'
      BY <1>7 DEF Reached
    <2>2. ASSUME NEW q \in Slots
          PROVE  /\ Asked(q)' => Reached(polls'[q].since)
                 /\ polls'[q].at = "updating" => Reached(polls'[q].start)
      BY <1>2, <1>4, <1>5, <1>9 DEF Known
    <2> QED
      BY <1>1, <1>2, <2>1, <2>2 DEF Known, Reached
  <1>17. Writing'
    <2>1. Written' = Written /\ Done' = Done
      BY <1>1 DEF Written, Done
    <2> QED
      BY <1>1, <1>6, <1>7, <1>9, <2>1 DEF LogInv, Writing, Emptied, Linked, Content
  <1> QED
    BY <1>10, <1>11, <1>12, <1>13, <1>14, <1>15, <1>16, <1>17 DEF LogInv, Reading

LEMMA WrittenIs ==
  ASSUME Shapes
  PROVE  Written \in Lines /\ Done \in Nat
  <1>1. file \o lines \in Lines /\ out \in Lines
    BY ConcatProperties DEF Shapes, Lines
  <1>2. Written \in Lines
    BY <1>1, ConcatProperties DEF Written, Lines
  <1> QED
    BY <1>2, LenProperties DEF Done, Lines

LEMMA FirstOfIs ==
  ASSUME NEW t \in Nat, NEW u \in Nat, t <= u
  PROVE  FirstOf(t) \in Nat /\ FirstOf(t) >= 1 /\ FirstOf(t) <= FirstOf(u)
  BY DEF FirstOf

\* The read that begins when a stream is open comes after all others.
LEMMA OpenStreamKeeps == ASSUME LogInv, Timely, NEW p \in Slots, OpenStream(p) PROVE LogInv'
  <1> DEFINE x == [polls[p] EXCEPT !.at = "reading", !.start = now,
                                   !.generation = lastPoll.generation]
             w == [first |-> FirstLine(p), last |-> now + Spread,
                   generation |-> lastPoll.generation]
  <1>1. /\ UNCHANGED <<now, lastBegin, lastPoll, collected, slices, store, latest, oldest, out,
                       lines, file, processor>>
        /\ Asked(p) /\ polls' = [polls EXCEPT ![p] = x]
    BY DEF OpenStream, genVars, writeVars, Asked
  <1>2. /\ Clocks /\ Shapes /\ PollTimes /\ InStore /\ Apart /\ Spaced /\ InTurn /\ Known
        /\ Emptied /\ Linked /\ Content
    BY DEF LogInv, Reading, Writing
  <1>3. /\ now \in Nat /\ lastBegin \in Int /\ lastPoll.time \in Nat /\ lastPoll.time <= now
        /\ lastPoll.generation \in Nat /\ lastBegin <= now /\ 1 <= now
        /\ polls \in [Slots -> PollRecord]
    BY <1>2 DEF Clocks, PollTimes
  <1>4. /\ x \in PollRecord /\ x.at = "reading" /\ x.start = now
        /\ x.since = polls[p].since /\ x.generation = lastPoll.generation
        /\ polls[p].at = "request" /\ polls[p].since \in Nat
    <2>1. polls[p] \in PollRecord
      BY <1>3
    <2> QED
      BY <1>1, <1>3, <2>1 DEF PollRecord, Asked
  <1>5. polls[p].since <= lastPoll.time /\ now <= lastBegin + OpenLag
    BY <1>1, <1>2, <1>4 DEF PollTimes
  <1> HIDE DEF x
  <1>6. /\ polls' \in [Slots -> PollRecord] /\ polls'[p] = x
        /\ \A q \in Slots : q # p => /\ polls'[q] = polls[q]
                                     /\ (Open(q)' <=> Open(q)) /\ (Asked(q)' <=> Asked(q))
                                     /\ OfPoll(q)' = OfPoll(q)
                                     /\ FirstLine(q)' = FirstLine(q)
                                     /\ LastLine(q)' = LastLine(q)
    BY <1>1, <1>3, <1>4, OneSlot
  <1>7. /\ ~Open(p) /\ Open(p)' /\ ~Asked(p)'
        /\ FirstLine(p)' = FirstLine(p) /\ LastLine(p)' = now + Spread /\ OfPoll(p)' = w
        /\ FirstLine(p) = FirstOf(polls[p].since)
    BY <1>4, <1>6, <1>3, Constants DEF Open, Asked, FirstLine, FirstOf, LastLine, OfPoll, Spread
  <1>8. \A q \in Slots : ~Asked(q)' /\ (Open(q)' <=> Open(q) \/ q = p)
    BY <1>1, <1>2, <1>6, <1>7 DEF Apart
  <1>9. Queued' = Queued /\ Reads' = Reads \cup {w}
    <2>1. Queued' = Queued
      BY <1>1 DEF Queued, Stored
    <2>2. Pending' = Pending \cup {w}
      BY <1>6, <1>7, <1>8 DEF Pending
    <2> QED
      BY <2>1, <2>2 DEF Reads
  <1>10. /\ w.first = FirstLine(p) /\ w.last = now + Spread
         /\ w.generation = lastPoll.generation /\ w.first \in Nat /\ w.last \in Nat
         /\ w.first <= FirstOf(lastPoll.time) /\ w.first <= w.last /\ FirstOf(lastPoll.time) <= w.last
    BY <1>3, <1>4, <1>5, <1>7, FirstOfIs, Constants DEF FirstOf
  <1> HIDE DEF w
  <1>11. /\ \A r \in Reads : /\ r.first \in Nat /\ r.last \in Nat /\ r.generation \in Nat
                             /\ r.first <= r.last /\ r.generation <= lastPoll.generation
                             /\ r.last < w.last /\ r.first <= w.first
         /\ \A r \in Queued : r \in Reads
    <2>1. \A r \in Reads : r.last - Spread < lastBegin /\ r.first <= FirstLine(p)
      BY <1>1, <1>2 DEF Spaced, InTurn
    <2> QED
      BY <1>2, <1>3, <1>10, <2>1, ReadsAre, Constants
  <1>12. Clocks' /\ Shapes'
    BY <1>1, <1>2, <1>3 DEF Clocks, Shapes, Whole
  <1>13. PollTimes'
    <2>1. ASSUME NEW q \in Slots
          PROVE  /\ polls'[q].at # "idle" => polls'[q].since <= lastPoll.time
                 /\ Asked(q)' => now <= lastBegin + OpenLag
                 /\ polls'[q].at \in {"reading", "queueing", "updating"} =>
                      /\ polls'[q].since <= polls'[q].start /\ polls'[q].start <= now
                      /\ now <= LastLine(q)' + ReadLag
                      /\ polls'[q].generation <= lastPoll.generation
                 /\ polls'[q].at = "queueing" =>
                      /\ polls'[q].lines = Log(FirstLine(q)', LastLine(q)')
                      /\ LastLine(q)' <= now
      <3>1. CASE q = p
        BY <1>3, <1>4, <1>5, <1>6, <1>7, <1>8, <3>1, Constants
      <3>2. CASE q # p
        BY <1>2, <1>6, <1>8, <3>2 DEF PollTimes
      <3> QED
        BY <3>1, <3>2
    <2> QED
      BY <1>1, <1>6, <2>1 DEF PollTimes
  <1>14. InStore'
    <2>1. oldest <= lastPoll.generation
      BY <1>2, <1>3 DEF InStore
    <2> QED
      BY <1>1, <1>2, <1>9, <1>10, <2>1 DEF InStore
  <1>15. Apart'
    <2>1. \A q \in Slots : Open(q) => polls[q].start # now
      <3>1. \A q \in Slots : Open(q) => OfPoll(q) \in Reads /\ OfPoll(q).last = LastLine(q)
        BY DEF Reads, Pending, OfPoll
      <3>2. \A q \in Slots : Open(q) => LastLine(q) < w.last
        BY <1>11, <3>1
      <3> QED
        BY <1>3, <1>10, <3>2, Constants DEF LastLine, Spread
    <2>2. \A r \in Queued : r.last # now + Spread
      BY <1>10, <1>11
    <2>3. \A q, t \in Slots : Open(q)' /\ Open(t)' /\ polls'[q].start = polls'[t].start => q = t
      BY <1>2, <1>4, <1>6, <1>8, <2>1 DEF Apart
    <2>4. \A q \in Slots, r \in Queued : Open(q)' => r.last # LastLine(q)'
      BY <1>2, <1>6, <1>7, <1>8, <2>2 DEF Apart
    <2> QED
      BY <1>8, <1>9, <2>3, <2>4 DEF Apart
  <1>16. Spaced'
    <2>1. \A r \in Reads : r.last - Spread < lastBegin /\ r.last - Spread <= lastBegin + OpenLag
                           /\ r.last <= lastBegin + OpenLag
      BY <1>1, <1>2 DEF Spaced
    <2>2. w.last - Spread <= lastBegin + OpenLag /\ ~(w.last - Spread < lastBegin)
      BY <1>3, <1>5, <1>10, Constants
    <2>3. \A r, s \in Reads : r.last < s.last => r.last + Spread <= lastBegin + OpenLag
      BY <1>2, <2>1 DEF Spaced
    <2>4. \A r, s \in Reads : r.last < s.last => r.last + 2 * Spread <= w.last + OpenLag
      BY <1>3, <1>10, <1>11, <2>3, Constants
    <2>5. \A r \in Reads : ~(w.last < r.last)
      BY <1>10, <1>11
    <2>6. ~(w.last < w.last)
      BY <1>10
    <2>7. \A r, s, t \in Reads \cup {w} :
            r.last < s.last /\ s.last < t.last => r.last + 2 * Spread <= t.last + OpenLag
      BY <1>2, <2>4, <2>5, <2>6 DEF Spaced
    <2>8. \A r, s \in Reads \cup {w} :
            r.last < s.last =>
              /\ r.last - Spread < lastBegin
              /\ s.last - Spread < lastBegin => r.last + Spread <= lastBegin + OpenLag
      BY <2>1, <2>2, <2>3, <2>5, <2>6
    <2> QED
      BY <1>1, <1>8, <1>9, <2>1, <2>2, <2>7, <2>8 DEF Spaced
  <1>17. InTurn'
    <2>1. \A r \in Reads : ~(w.last < r.last) /\ w.last # r.last /\ r.last # w.last
      BY <1>10, <1>11
    <2>2. ~(w.last < w.last)
      BY <1>10
    <2>3. \A r \in Reads : r.first <= w.first /\ r.generation <= w.generation
      BY <1>10, <1>11
    <2>4. \A r \in Reads :
            r.generation = w.generation => r.first <= w.last /\ w.first <= r.last
      <3>1. \A r \in Reads : r.generation = w.generation => FirstOf(lastPoll.time) <= r.last
        BY <1>2, <1>10 DEF InTurn
      <3>2. FirstOf(lastPoll.time) \in Nat
        BY <1>3, FirstOfIs
      <3> QED
        BY <1>10, <1>11, <3>1, <3>2
    <2>5. \A r, s \in Reads \cup {w} :
            r.last < s.last => r.first <= s.first /\ r.generation <= s.generation
      BY <1>2, <2>1, <2>2, <2>3 DEF InTurn
    <2>6. \A r, s \in Reads \cup {w} : r.last = s.last => r = s
      BY <1>2, <2>1 DEF InTurn
    <2>7. \A r, s \in Reads \cup {w} : r.generation = s.generation => r.first <= s.last
      BY <1>2, <1>10, <2>4 DEF InTurn
    <2> QED
      BY <1>1, <1>2, <1>8, <1>9, <1>10, <2>5, <2>6, <2>7 DEF InTurn
  <1>18. Known'
    BY <1>1, <1>2, <1>4, <1>6, <1>8, <1>9 DEF Known, Reached
  <1>19. Writing'
    <2>1. Written' = Written /\ Done' = Done /\ Done \in Nat
      BY <1>1, <1>2, WrittenIs DEF Written, Done
    <2>2. Emptied' /\ Content'
      BY <1>1, <1>2, <1>9, <2>1 DEF Emptied, Content
    <2>3. ASSUME processor \notin Flushed
          PROVE  /\ w.first > Done
                 /\ w.first = Done + 1 \/ \E s \in Queued : s.last < w.last /\ w.first <= s.last
      <3>1. w.first > Done
        BY <1>1, <1>2, <1>10, <2>3 DEF Linked
      <3>2. CASE polls[p].since = 0
        <4>1. w.first = 1
          BY <1>7, <1>10, <3>2 DEF FirstOf
        <4> QED
          BY <2>1, <3>1, <4>1
      <3>3. CASE polls[p].since # 0
        <4>1. w.first = polls[p].since
          BY <1>7, <1>10, <3>3 DEF FirstOf
        <4>2. Reached(polls[p].since)
          BY <1>1, <1>2 DEF Known
        <4> QED
          BY <1>11, <3>1, <3>3, <4>1, <4>2 DEF Reached
      <3> QED
        BY <3>2, <3>3
    <2>4. Linked'
      BY <1>1, <1>2, <1>8, <1>9, <2>1, <2>3 DEF Linked
    <2> QED
      BY <2>2, <2>4 DEF Writing
  <1> QED
    BY <1>12, <1>13, <1>14, <1>15, <1>16, <1>17, <1>18, <1>19 DEF LogInv, Reading

LEMMA ReadStreamKeeps == ASSUME LogInv, NEW p \in Slots, ReadStream(p) PROVE LogInv'
  <1> DEFINE window == Log(FirstLine(p), LastLine(p))
             x == [polls[p] EXCEPT !.at = "queueing", !.lines = window]
  <1>1. /\ UNCHANGED <<now, lastBegin, lastPoll, collected, slices, store, latest, oldest, out,
                       lines, file, processor>>
        /\ polls[p].at = "reading" /\ LastLine(p) <= now
        /\ polls' = [polls EXCEPT ![p] = IF window = <<>> THEN Idle ELSE x]
    BY DEF ReadStream, ReadUpTo, genVars, writeVars
  <1>2. /\ Clocks /\ Shapes /\ PollTimes /\ InStore /\ Apart /\ Spaced /\ InTurn /\ Known
        /\ Emptied /\ Linked /\ Content
    BY DEF LogInv, Reading, Writing
  <1>3. polls \in [Slots -> PollRecord]
    BY <1>2 DEF PollTimes
  <1>4. window \in Lines /\ window # <<>>
    <2>1. polls[p] \in PollRecord /\ polls[p].since <= polls[p].start
      BY <1>1, <1>2, <1>3 DEF PollTimes
    <2>2. FirstLine(p) \in Nat /\ LastLine(p) \in Nat /\ FirstLine(p) <= LastLine(p)
      BY <2>1, Constants DEF FirstLine, LastLine, PollRecord
    <2>3. LastLine(p) \in Int /\ FirstLine(p) <= LastLine(p) + 1
      BY <2>2
    <2> QED
      BY <2>2, <2>3, LogIs, ZenonT(30)
  <1> HIDE DEF window
  <1>5. /\ x \in PollRecord /\ x.at = "queueing" /\ x.lines = window
        /\ x.since = polls[p].since /\ x.start = polls[p].start
        /\ x.generation = polls[p].generation
    <2>1. polls[p] \in PollRecord
      BY <1>3
    <2> QED
      BY <1>4, <2>1 DEF PollRecord
  <1> HIDE DEF x
  <1>6. /\ polls' \in [Slots -> PollRecord] /\ polls'[p] = x
        /\ \A q \in Slots : q # p => /\ polls'[q] = polls[q]
                                     /\ (Open(q)' <=> Open(q)) /\ (Asked(q)' <=> Asked(q))
                                     /\ OfPoll(q)' = OfPoll(q)
                                     /\ FirstLine(q)' = FirstLine(q)
                                     /\ LastLine(q)' = LastLine(q)
    BY <1>1, <1>3, <1>4, <1>5, OneSlot
  <1>7. /\ Open(p) /\ Open(p)' /\ ~Asked(p) /\ ~Asked(p)'
        /\ FirstLine(p)' = FirstLine(p) /\ LastLine(p)' = LastLine(p) /\ OfPoll(p)' = OfPoll(p)
        /\ polls'[p].start = polls[p].start
    BY <1>1, <1>5, <1>6 DEF Open, Asked, FirstLine, LastLine, OfPoll
  <1>8. Queued' = Queued /\ Reads' = Reads
    BY <1>1, <1>6, <1>7, PollsStay
  <1>9. \A q \in Slots : /\ (Open(q)' <=> Open(q)) /\ (Asked(q)' <=> Asked(q))
                         /\ FirstLine(q)' = FirstLine(q) /\ LastLine(q)' = LastLine(q)
                         /\ polls'[q].since = polls[q].since /\ polls'[q].start = polls[q].start
                         /\ polls'[q].generation = polls[q].generation
    BY <1>5, <1>6, <1>7
  <1>10. Clocks' /\ Shapes'
    BY <1>1, <1>2 DEF Clocks, Shapes, Whole
  <1>11. PollTimes'
    <2>1. ASSUME NEW q \in Slots
          PROVE  /\ polls'[q].at # "idle" => polls'[q].since <= lastPoll.time
                 /\ Asked(q)' => now <= lastBegin + OpenLag
                 /\ polls'[q].at \in {"reading", "queueing", "updating"} =>
                      /\ polls'[q].since <= polls'[q].start /\ polls'[q].start <= now
                      /\ now <= LastLine(q)' + ReadLag
                      /\ polls'[q].generation <= lastPoll.generation
                 /\ polls'[q].at = "queueing" =>
                      /\ polls'[q].lines = Log(FirstLine(q)', LastLine(q)')
                      /\ LastLine(q)' <= now
      <3>1. CASE q = p
        <4>1. polls'[q].lines = Log(FirstLine(q)', LastLine(q)')
          BY <1>5, <1>6, <1>7, <3>1 DEF window
        <4> QED
          BY <1>1, <1>2, <1>7, <1>9, <3>1, <4>1 DEF PollTimes
      <3>2. CASE q # p
        BY <1>2, <1>6, <1>9, <3>2 DEF PollTimes
      <3> QED
        BY <3>1, <3>2
    <2> QED
      BY <1>1, <1>6, <2>1 DEF PollTimes
  <1>12. InStore' /\ Apart'
    BY <1>1, <1>2, <1>8, <1>9 DEF InStore, Apart
  <1>13. Spaced' /\ InTurn'
    BY <1>1, <1>2, <1>8, <1>9 DEF Spaced, InTurn
  <1>14. Known'
    <2>1. \A q \in Slots : polls'[q].at = "updating" => polls[q].at = "updating"
      BY <1>5, <1>6
    <2> QED
      BY <1>1, <1>2, <1>8, <1>9, <2>1 DEF Known, Reached
  <1>15. Writing'
    <2>1. Written' = Written /\ Done' = Done
      BY <1>1 DEF Written, Done
    <2> QED
      BY <1>1, <1>2, <1>8, <1>9, <2>1 DEF Writing, Emptied, Linked, Content
  <1> QED
    BY <1>10, <1>11, <1>12, <1>13, <1>14, <1>15 DEF LogInv, Reading

\* Polls are at work only until what is left is flushed.
LEMMA BeforeFlushed ==
  ASSUME IInv, NEW p \in Slots, polls[p].at # "idle"
  PROVE  processor \notin Flushed
  BY DEF IInv, Stopping, Idle, Flushed

LEMMA QueueSliceKeeps == ASSUME LogInv, IInv, NEW p \in Slots, QueueSlice(p) PROVE LogInv'
  <1> DEFINE x == [polls[p] EXCEPT !.at = "updating", !.lines = <<>>]
             s == Slice(polls[p].lines, polls[p].generation)
             w == OfPoll(p)
  <1>1. /\ UNCHANGED <<now, lastBegin, lastPoll, store, latest, oldest, out, lines, file,
                       processor>>
        /\ polls[p].at = "queueing" /\ slices' = Append(slices, s)
        /\ collected' = collected \cup ToSet(polls[p].lines)
        /\ polls' = [polls EXCEPT ![p] = x]
    BY DEF QueueSlice, genVars, writeVars
  <1>2. /\ Clocks /\ Shapes /\ PollTimes /\ InStore /\ Apart /\ Spaced /\ InTurn /\ Known
        /\ Emptied /\ Linked /\ Content
    BY DEF LogInv, Reading, Writing
  <1>3. polls \in [Slots -> PollRecord] /\ polls[p] \in PollRecord
    BY <1>2 DEF PollTimes
  <1>4. /\ x \in PollRecord /\ x.at = "updating" /\ x.since = polls[p].since
        /\ x.start = polls[p].start /\ x.generation = polls[p].generation
    <2>1. <<>> \in Lines
      BY DEF Lines
    <2> QED
      BY <1>3, <2>1 DEF PollRecord
  <1> HIDE DEF x
  <1>5. /\ polls' \in [Slots -> PollRecord] /\ polls'[p] = x
        /\ \A q \in Slots : q # p => /\ polls'[q] = polls[q]
                                     /\ (Open(q)' <=> Open(q)) /\ (Asked(q)' <=> Asked(q))
                                     /\ OfPoll(q)' = OfPoll(q)
                                     /\ FirstLine(q)' = FirstLine(q)
                                     /\ LastLine(q)' = LastLine(q)
    BY <1>1, <1>3, <1>4, OneSlot
  <1>6. /\ Open(p) /\ ~Open(p)' /\ ~Asked(p) /\ ~Asked(p)'
        /\ FirstLine(p)' = FirstLine(p) /\ LastLine(p)' = LastLine(p)
    BY <1>1, <1>4, <1>5 DEF Open, Asked, FirstLine, LastLine
  <1>7. \A q \in Slots : /\ (Open(q)' <=> Open(q) /\ q # p) /\ (Asked(q)' <=> Asked(q))
                         /\ FirstLine(q)' = FirstLine(q) /\ LastLine(q)' = LastLine(q)
                         /\ polls'[q].since = polls[q].since /\ polls'[q].start = polls[q].start
                         /\ polls'[q].generation = polls[q].generation
    BY <1>4, <1>5, <1>6
  <1>8. /\ polls[p].since <= polls[p].start /\ polls[p].start <= now /\ LastLine(p) <= now
        /\ polls[p].lines = Log(FirstLine(p), LastLine(p))
        /\ polls[p].generation <= lastPoll.generation
    BY <1>1, <1>2 DEF PollTimes
  <1>9. /\ FirstLine(p) \in Nat /\ FirstLine(p) >= 1 /\ LastLine(p) \in Nat
        /\ FirstLine(p) <= LastLine(p) /\ polls[p].start <= LastLine(p)
    BY <1>3, <1>8, Constants DEF FirstLine, LastLine, PollRecord
  <1>10. /\ s \in LineSlice /\ Whole(s) /\ OfSlice(s) = w
         /\ ToSet(polls[p].lines) = FirstLine(p) .. LastLine(p)
    <2> DEFINE a == FirstLine(p)
               b == LastLine(p)
               l == Log(a, b)
    <2>1. a \in Nat /\ b \in Int /\ a <= b + 1 /\ a <= b
      BY <1>9
    <2> HIDE DEF a, b, s
    <2>2. l \in Lines /\ ToSet(l) = a .. b /\ l # <<>> /\ Head(l) = a /\ Last(l) = b
      BY <2>1, LogIs
    <2>3. s.lines = l /\ s.generation = polls[p].generation /\ s \in LineSlice
      BY <1>3, <1>8, <2>2 DEF s, Slice, LineSlice, PollRecord, a, b
    <2> HIDE DEF l
    <2>4. startOf(s) = a /\ endOf(s) = b
      BY <2>2, <2>3 DEF startOf, endOf
    <2>5. Whole(s)
      BY <1>8, <1>9, <2>1, <2>3, <2>4 DEF Whole, Unbroken, a, b, l
    <2>6. OfSlice(s) = w
      BY <2>3, <2>4 DEF OfSlice, OfPoll, a, b
    <2> QED
      BY <1>8, <2>2, <2>3, <2>5, <2>6 DEF a, b, l
  <1> HIDE DEF s
  <1>11. /\ slices' \in Seq(LineSlice) /\ Len(slices') = Len(slices) + 1
         /\ \A i \in 1 .. Len(slices) : slices'[i] = slices[i]
         /\ slices'[Len(slices) + 1] = s
    BY <1>1, <1>2, <1>10, AppendProperties DEF Shapes
  <1>12. /\ Len(slices) + 1 \in 1 .. Len(slices) + 1
         /\ \A i \in 1 .. Len(slices) + 1 : i \in 1 .. Len(slices) \/ i = Len(slices) + 1
         /\ \A i \in 1 .. Len(slices) : i \in 1 .. Len(slices) + 1
    BY <1>2, LenProperties DEF Shapes
  <1>13. Queued' = Queued \cup {w}
    <2>1. Stored' = Stored
      BY <1>1 DEF Stored
    <2>2. {OfSlice(slices'[i]) : i \in 1 .. Len(slices')}
            = {OfSlice(slices[i]) : i \in 1 .. Len(slices)} \cup {w}
      BY <1>10, <1>11, <1>12
    <2> QED
      BY <2>1, <2>2 DEF Queued, OfSlice, startOf, endOf
  <1>14. Reads' = Reads
    <2>1. Pending = Pending' \cup {w}
      BY <1>5, <1>6, <1>7 DEF Pending
    <2> QED
      BY <1>13, <2>1 DEF Reads
  <1>15. w.first = FirstLine(p) /\ w.last = LastLine(p)
    BY DEF OfPoll
  <1> HIDE DEF w
  <1>16. Clocks' /\ Shapes'
    <2>1. \A y : Whole(y)' <=> Whole(y)
      BY <1>1 DEF Whole, Unbroken
    <2>2. \A i \in 1 .. Len(slices') : Whole(slices'[i])
      BY <1>2, <1>10, <1>11, <1>12 DEF Shapes
    <2> QED
      BY <1>1, <1>2, <1>11, <2>1, <2>2 DEF Clocks, Shapes
  <1>17. PollTimes'
    <2>1. ASSUME NEW q \in Slots
          PROVE  /\ polls'[q].at # "idle" => polls[q].at # "idle"
                 /\ polls'[q].at = "queueing" => q # p
                 /\ polls'[q].at \in {"reading", "queueing", "updating"} =>
                      polls[q].at \in {"reading", "queueing", "updating"}
      BY <1>1, <1>4, <1>5
    <2>2. ASSUME NEW q \in Slots, polls'[q].at = "queueing"
          PROVE  polls'[q].lines = polls[q].lines /\ polls[q].at = "queueing"
      BY <1>5, <2>1, <2>2
    <2> QED
      BY <1>1, <1>2, <1>5, <1>7, <2>1, <2>2 DEF PollTimes
  <1>18. InStore'
    BY <1>1, <1>2, <1>14 DEF InStore
  <1>19. Apart'
    <2>1. \A q \in Slots : Open(q)' => w.last # LastLine(q)'
      <3>1. ASSUME NEW q \in Slots, Open(q), q # p PROVE LastLine(p) # LastLine(q)
        <4>1. polls[q].start # polls[p].start
          BY <1>2, <1>6, <3>1 DEF Apart
        <4>2. polls[q].start \in Nat /\ polls[p].start \in Nat
          BY <1>3 DEF PollRecord
        <4> QED
          BY <4>1, <4>2, Constants DEF LastLine
      <3> QED
        BY <1>7, <1>15, <3>1
    <2> QED
      BY <1>2, <1>7, <1>13, <2>1 DEF Apart
  <1>20. Spaced' /\ InTurn'
    BY <1>1, <1>2, <1>7, <1>14 DEF Spaced, InTurn
  <1>21. Known'
    <2>1. \A t : t = 0 \/ (\E r \in Queued : t <= r.last)
                 => t = 0 \/ \E r \in Queued' : t <= r.last
      BY <1>13
    <2>2. \E r \in Queued' : polls[p].start <= r.last
      BY <1>9, <1>13, <1>15
    <2>3. \A q \in Slots : polls'[q].at = "updating" => q = p \/ polls[q].at = "updating"
      BY <1>5
    <2>4. ASSUME NEW q \in Slots
          PROVE  /\ Asked(q)' => polls'[q].since = 0
                                 \/ \E r \in Queued' : polls'[q].since <= r.last
                 /\ polls'[q].at = "updating" =>
                      polls'[q].start = 0 \/ \E r \in Queued' : polls'[q].start <= r.last
      <3>1. Asked(q)' => polls[q].since = 0 \/ \E r \in Queued : polls[q].since <= r.last
        BY <1>2, <1>7 DEF Known, Reached
      <3>2. polls[q].at = "updating" =>
              polls[q].start = 0 \/ \E r \in Queued : polls[q].start <= r.last
        BY <1>2 DEF Known, Reached
      <3>3. polls'[q].since = polls[q].since /\ polls'[q].start = polls[q].start
        BY <1>7
      <3> QED
        BY <2>1, <2>2, <2>3, <3>1, <3>2, <3>3
    <2>5. lastPoll'.time = 0 \/ \E r \in Queued' : lastPoll'.time <= r.last
      BY <1>1, <1>2, <2>1 DEF Known, Reached
    <2> QED
      BY <2>4, <2>5 DEF Known, Reached
  <1>22. Writing'
    <2>1. Written' = Written /\ Done' = Done
      BY <1>1 DEF Written, Done
    <2>2. processor \notin Flushed
      BY <1>1, BeforeFlushed
    <2>3. Linked'
      BY <1>1, <1>2, <1>7, <1>13, <1>14, <2>1 DEF Linked
    <2>4. collected' = (1 .. Done) \cup UNION {r.first .. r.last : r \in Queued'}
      BY <1>1, <1>2, <1>10, <1>13, <1>15, <2>2 DEF Content
    <2> QED
      BY <1>1, <1>2, <2>1, <2>2, <2>3, <2>4 DEF Writing, Emptied, Content
  <1> QED
    BY <1>16, <1>17, <1>18, <1>19, <1>20, <1>21, <1>22 DEF LogInv, Reading

\* Generations stay below the modulus, so that they are not taken modulo it.
LEMMA NoWrap ==
  ASSUME NEW k \in Nat, k <= MaxTime
  PROVE  k % GenerationModulus = k
  BY Constants

\* The time and the generation of the last poll grow, and the new generation is no read's.
LEMMA SetLastPollKeeps == ASSUME LogInv, NEW p \in Slots, SetLastPoll(p) PROVE LogInv'
  <1>1. /\ UNCHANGED <<now, lastBegin, collected, slices, store, latest, oldest, out, lines,
                       file, processor>>
        /\ polls[p].at = "updating" /\ polls' = [polls EXCEPT ![p] = Idle]
        /\ lastPoll' = IF polls[p].start > lastPoll.time
                         THEN [time |-> polls[p].start,
                               generation |-> (lastPoll.generation + 1) % GenerationModulus]
                         ELSE lastPoll
    BY DEF SetLastPoll, genVars, writeVars
  <1>2. /\ Clocks /\ Shapes /\ PollTimes /\ InStore /\ Apart /\ Spaced /\ InTurn /\ Known
        /\ Emptied /\ Linked /\ Content
    BY DEF LogInv, Reading, Writing
  <1>3. polls \in [Slots -> PollRecord] /\ polls[p].start \in Nat /\ polls[p].start <= now
    BY <1>1, <1>2 DEF PollTimes, PollRecord
  <1>4. Idle \in PollRecord /\ Idle.at = "idle"
    BY DEF Idle, PollRecord, Lines
  <1>5. /\ polls' \in [Slots -> PollRecord] /\ polls'[p] = Idle
        /\ \A q \in Slots : q # p => /\ polls'[q] = polls[q]
                                     /\ (Open(q)' <=> Open(q)) /\ (Asked(q)' <=> Asked(q))
                                     /\ OfPoll(q)' = OfPoll(q)
                                     /\ FirstLine(q)' = FirstLine(q)
                                     /\ LastLine(q)' = LastLine(q)
    BY <1>1, <1>3, <1>4, OneSlot
  <1>6. ~Open(p) /\ ~Open(p)' /\ ~Asked(p) /\ ~Asked(p)'
    BY <1>1, <1>4, <1>5 DEF Open, Asked
  <1>7. Queued' = Queued /\ Reads' = Reads
    BY <1>1, <1>5, <1>6, PollsStay
  <1>8. /\ lastPoll'.time \in Nat /\ lastPoll'.generation \in Nat
        /\ lastPoll' \in [time : Nat, generation : Nat]
        /\ lastPoll.time <= lastPoll'.time /\ lastPoll'.time <= now
        /\ lastPoll.generation <= lastPoll'.generation
        /\ lastPoll'.generation <= lastPoll'.time
        /\ lastPoll' = lastPoll \/ (/\ lastPoll'.time = polls[p].start
                                    /\ lastPoll.generation < lastPoll'.generation)
    <2>1. /\ lastPoll.time \in Nat /\ lastPoll.generation \in Nat /\ now \in Nat /\ now <= MaxTime
          /\ lastPoll.time <= now /\ lastPoll.generation <= lastPoll.time
          /\ lastPoll \in [time : Nat, generation : Nat]
      BY <1>2 DEF Clocks
    <2>2. CASE polls[p].start > lastPoll.time
      <3>1. lastPoll.generation + 1 \in Nat /\ lastPoll.generation + 1 <= MaxTime
        BY <1>3, <2>1, <2>2, Constants
      <3>2. lastPoll' = [time |-> polls[p].start, generation |-> lastPoll.generation + 1]
        BY <1>1, <2>2, <3>1, NoWrap
      <3> QED
        BY <1>3, <2>1, <2>2, <3>2
    <2>3. CASE ~(polls[p].start > lastPoll.time)
      BY <1>1, <2>1, <2>3
    <2> QED
      BY <2>2, <2>3
  <1>9. /\ FirstOf(lastPoll.time) \in Nat /\ FirstOf(lastPoll'.time) \in Nat
        /\ FirstOf(lastPoll.time) <= FirstOf(lastPoll'.time)
    <2>1. lastPoll.time \in Nat
      BY <1>2 DEF Clocks
    <2> QED
      BY <1>8, <2>1, FirstOfIs
  <1>10. \A r \in Reads : /\ r.first \in Nat /\ r.generation \in Nat
                          /\ r.generation <= lastPoll.generation
    BY <1>2, ReadsAre
  <1>11. Clocks'
    BY <1>1, <1>2, <1>8 DEF Clocks
  <1>12. Shapes'
    <2>1. ASSUME NEW s, Whole(s), s.generation \in Nat PROVE Whole(s)'
      BY <1>1, <1>2, <1>8, <2>1 DEF Whole, Unbroken, Clocks
    <2>2. \A s : Whole(s) => s.generation \in Nat
      BY DEF Whole, Unbroken, LineSlice
    <2> QED
      BY <1>1, <1>2, <2>1, <2>2 DEF Shapes
  <1>13. PollTimes'
    <2>1. ASSUME NEW q \in Slots, q # p
          PROVE  /\ polls'[q].at # "idle" => polls'[q].since <= lastPoll'.time
                 /\ polls'[q].at \in {"reading", "queueing", "updating"} =>
                      polls'[q].generation <= lastPoll'.generation
      <3>1. polls[q].since \in Nat /\ polls[q].generation \in Nat
        BY <1>3 DEF PollRecord
      <3>2. lastPoll.time \in Nat /\ lastPoll.generation \in Nat
        BY <1>2 DEF Clocks
      <3> QED
        BY <1>2, <1>5, <1>8, <2>1, <3>1, <3>2 DEF PollTimes
    <2>2. ASSUME NEW q \in Slots, q # p
          PROVE  /\ Asked(q)' => now <= lastBegin + OpenLag
                 /\ polls'[q].at \in {"reading", "queueing", "updating"} =>
                      /\ polls'[q].since <= polls'[q].start /\ polls'[q].start <= now
                      /\ now <= LastLine(q)' + ReadLag
                 /\ polls'[q].at = "queueing" =>
                      /\ polls'[q].lines = Log(FirstLine(q)', LastLine(q)')
                      /\ LastLine(q)' <= now
      BY <1>2, <1>5, <2>2 DEF PollTimes
    <2> QED
      BY <1>1, <1>4, <1>5, <1>6, <2>1, <2>2 DEF PollTimes
  <1>14. InStore'
    <2>1. latest \in Nat /\ latest <= lastPoll.generation /\ lastPoll.generation \in Nat
      BY <1>2 DEF InStore, Clocks
    <2>2. latest <= lastPoll'.generation
      BY <1>8, <2>1
    <2> QED
      BY <1>1, <1>2, <1>7, <2>2 DEF InStore
  <1>15. Apart' /\ Spaced'
    <2>1. Apart'
      BY <1>2, <1>5, <1>6, <1>7 DEF Apart
    <2>2. Spaced'
      BY <1>1, <1>2, <1>5, <1>6, <1>7 DEF Spaced
    <2> QED
      BY <2>1, <2>2
  <1>16. InTurn'
    <2>1. \A r \in Reads :
            /\ r.first <= FirstOf(lastPoll'.time)
            /\ r.generation = lastPoll'.generation => FirstOf(lastPoll'.time) <= r.last
      <3>1. ASSUME NEW r \in Reads PROVE r.first <= FirstOf(lastPoll'.time)
        BY <1>2, <1>9, <1>10 DEF InTurn
      <3>2. ASSUME NEW r \in Reads, r.generation = lastPoll'.generation
            PROVE  lastPoll' = lastPoll
        BY <1>8, <1>10, <3>2, <1>2 DEF Clocks
      <3> QED
        BY <1>2, <3>1, <3>2 DEF InTurn
    <2>2. \A r \in Reads, q \in Slots : Asked(q)' => r.first <= FirstLine(q)'
      BY <1>2, <1>5, <1>6 DEF InTurn
    <2>3. /\ \A r, s \in Reads : r.last < s.last => r.first <= s.first /\ r.generation <= s.generation
          /\ \A r, s \in Reads : r.last = s.last => r = s
          /\ \A r, s \in Reads : r.generation = s.generation => r.first <= s.last
      BY <1>2 DEF InTurn
    <2> QED
      BY <1>7, <2>1, <2>2, <2>3 DEF InTurn
  <1>17. Known'
    <2>1. lastPoll'.time = 0 \/ \E s \in Queued : lastPoll'.time <= s.last
      BY <1>1, <1>2, <1>8 DEF Known, Reached
    <2>2. ASSUME NEW q \in Slots
          PROVE  /\ Asked(q)' => q # p
                 /\ polls'[q].at = "updating" => q # p
      BY <1>4, <1>5, <1>6
    <2> QED
      BY <1>2, <1>5, <1>7, <2>1, <2>2 DEF Known, Reached
  <1>18. Writing'
    <2>1. Written' = Written /\ Done' = Done /\ Done \in Nat
      BY <1>1, <1>2, WrittenIs DEF Written, Done
    <2>2. Emptied' /\ Content'
      BY <1>1, <1>2, <1>7, <2>1 DEF Emptied, Content
    <2>3. processor \notin Flushed => FirstOf(lastPoll'.time) > Done
      BY <1>2, <1>9, <2>1 DEF Linked
    <2>4. Linked'
      BY <1>1, <1>2, <1>5, <1>6, <1>7, <2>1, <2>3 DEF Linked
    <2> QED
      BY <2>2, <2>4 DEF Writing
  <1> QED
    BY <1>11, <1>12, <1>13, <1>14, <1>15, <1>16, <1>17, <1>18 DEF LogInv, Reading

\* The slices of a generation to which one more is added.
With(g, s) == [h \in DOMAIN store \cup {g} |->
                 (IF h \in DOMAIN store THEN store[h] ELSE <<>>)
                   \o (IF h = g THEN <<s>> ELSE <<>>)]

LEMMA WithIs ==
  ASSUME Shapes, NEW s \in LineSlice
  PROVE  LET g == s.generation
             t == With(g, s)
         IN  /\ DOMAIN t = DOMAIN store \cup {g}
             /\ \A h \in DOMAIN t : t[h] \in Seq(LineSlice) /\ t[h] # <<>>
             /\ \A h \in DOMAIN store \ {g} : t[h] = store[h]
             /\ ToSet(t[g]) = {s} \cup (IF g \in DOMAIN store THEN ToSet(store[g]) ELSE {})
  <1> DEFINE g == s.generation
             t == With(g, s)
             one == <<s>>
  <1>1. \A h \in DOMAIN store : store[h] \in Seq(LineSlice) /\ store[h] # <<>>
    BY DEF Shapes
  <1>2. DOMAIN t = DOMAIN store \cup {g}
    BY DEF With
  <1>3. one \in Seq(LineSlice) /\ one # <<>> /\ ToSet(one) = {s} /\ Len(one) = 1
    BY DEF ToSet
  <1>4. ASSUME NEW h \in DOMAIN store \ {g} PROVE t[h] = store[h]
    <2>1. t[h] = store[h] \o <<>>
      BY <1>4 DEF With
    <2> QED
      BY <1>1, <2>1, ConcatEmptySeq
  <1>5. /\ t[g] \in Seq(LineSlice) /\ t[g] # <<>>
        /\ ToSet(t[g]) = {s} \cup (IF g \in DOMAIN store THEN ToSet(store[g]) ELSE {})
    <2> HIDE DEF one
    <2>1. CASE g \in DOMAIN store
      <3>1. t[g] = store[g] \o one
        BY <2>1 DEF With, one
      <3>2. store[g] \in Seq(LineSlice)
        BY <1>1, <2>1
      <3>3. /\ store[g] \o one \in Seq(LineSlice)
            /\ Len(store[g] \o one) = Len(store[g]) + Len(one) /\ Len(store[g]) \in Nat
        BY <1>3, <3>2, ConcatProperties, LenProperties
      <3>4. store[g] \o one # <<>>
        BY <1>3, <3>3, EmptySeq
      <3>5. ToSet(store[g] \o one) = ToSet(store[g]) \cup ToSet(one)
        BY <1>3, <3>2, ToSetConcat
      <3> QED
        BY <1>3, <2>1, <3>1, <3>3, <3>4, <3>5
    <2>2. CASE g \notin DOMAIN store
      <3>1. t[g] = <<>> \o one
        BY <2>2 DEF With, one
      <3>2. <<>> \o one = one
        BY <1>3, ConcatEmptySeq
      <3> QED
        BY <1>3, <2>2, <3>1, <3>2
    <2> QED
      BY <2>1, <2>2
  <1> HIDE DEF g, t
  <1>6. ASSUME NEW h \in DOMAIN t PROVE t[h] \in Seq(LineSlice) /\ t[h] # <<>>
    BY <1>1, <1>2, <1>4, <1>5
  <1> QED
    BY <1>2, <1>4, <1>5, <1>6 DEF g, t

\* What was queued stays queued.
LEMMA TakeSliceKeeps == ASSUME LogInv, TakeSlice PROVE LogInv'
  <1> DEFINE s == Head(slices)
             g == s.generation
             n == Len(slices)
  <1>1. /\ UNCHANGED <<now, lastBegin, polls, lastPoll, collected, oldest, out, lines, file,
                       processor>>
        /\ slices # <<>> /\ slices' = Tail(slices) /\ store' = With(g, s)
        /\ latest' = IF latest < g THEN g ELSE latest
    BY DEF TakeSlice, AddSlice, pollVars, writeVars, With
  <1>2. /\ Clocks /\ Shapes /\ PollTimes /\ InStore /\ Apart /\ Spaced /\ InTurn /\ Known
        /\ Emptied /\ Linked /\ Content
    BY DEF LogInv, Reading, Writing
  <1>3. /\ s \in LineSlice /\ s = slices[1] /\ n \in Nat \ {0} /\ 1 \in 1 .. n
        /\ slices' \in Seq(LineSlice) /\ Len(slices') = n - 1
        /\ \A i \in 1 .. n - 1 : slices'[i] = slices[i + 1]
    <2>1. slices \in Seq(LineSlice)
      BY <1>2 DEF Shapes
    <2>2. n \in Nat \ {0}
      BY <1>1, <2>1, LenProperties, EmptySeq
    <2> QED
      BY <1>1, <2>1, <2>2, HeadTailProperties
  <1>4. Whole(s) /\ g \in Nat
    BY <1>2, <1>3 DEF Shapes, LineSlice
  <1>5. /\ DOMAIN store' = DOMAIN store \cup {g}
        /\ \A h \in DOMAIN store' : store'[h] \in Seq(LineSlice) /\ store'[h] # <<>>
        /\ \A h \in DOMAIN store \ {g} : store'[h] = store[h]
        /\ ToSet(store'[g]) = {s} \cup (IF g \in DOMAIN store THEN ToSet(store[g]) ELSE {})
    BY <1>1, <1>2, <1>3, WithIs
  <1> HIDE DEF g, n, s
  <1>6. /\ \A i \in 1 .. n : i = 1 \/ i - 1 \in 1 .. n - 1
        /\ \A i \in 1 .. n - 1 : i + 1 \in 1 .. n
        /\ \A i \in 1 .. n : (i - 1) + 1 = i
    BY <1>3
  <1>7. UNION {ToSet(store'[h]) : h \in DOMAIN store'}
          = {s} \cup UNION {ToSet(store[h]) : h \in DOMAIN store}
    <2> DEFINE S == UNION {ToSet(store[h]) : h \in DOMAIN store}
               T == UNION {ToSet(store'[h]) : h \in DOMAIN store'}
    <2>1. ASSUME NEW x \in S PROVE x \in T
      <3>1. PICK h \in DOMAIN store : x \in ToSet(store[h])
        OBVIOUS
      <3>2. h \in DOMAIN store' /\ x \in ToSet(store'[h])
        BY <1>5, <3>1
      <3> QED
        BY <3>2
    <2>2. ASSUME NEW x \in T PROVE x = s \/ x \in S
      <3>1. PICK h \in DOMAIN store' : x \in ToSet(store'[h])
        OBVIOUS
      <3>2. CASE h = g
        BY <1>5, <3>1, <3>2
      <3>3. CASE h # g
        BY <1>5, <3>1, <3>3
      <3> QED
        BY <3>2, <3>3
    <2>3. s \in T
      BY <1>5
    <2> HIDE DEF S, T
    <2>4. T = {s} \cup S
      BY <2>1, <2>2, <2>3
    <2> QED
      BY <2>4 DEF S, T
  <1>8. Queued' = Queued
    <2>1. Stored' = {OfSlice(s)} \cup Stored
      BY <1>7 DEF Stored, OfSlice, startOf, endOf
    <2>2. {OfSlice(slices[i]) : i \in 1 .. n}
            = {OfSlice(s)} \cup {OfSlice(slices'[i]) : i \in 1 .. n - 1}
      <3>1. ASSUME NEW i \in 1 .. n
            PROVE  slices[i] = s \/ \E j \in 1 .. n - 1 : slices[i] = slices'[j]
        BY <1>3, <1>6
      <3>2. \A i \in 1 .. n - 1 : \E j \in 1 .. n : slices'[i] = slices[j]
        BY <1>3, <1>6
      <3>3. \E j \in 1 .. n : s = slices[j]
        BY <1>3
      <3> QED
        BY <3>1, <3>2, <3>3
    <2>3. Queued = {OfSlice(slices[i]) : i \in 1 .. n} \cup Stored
      BY DEF Queued, n
    <2>4. Queued' = {OfSlice(slices'[i]) : i \in 1 .. n - 1} \cup Stored'
      BY <1>3 DEF Queued, OfSlice, startOf, endOf
    <2> QED
      BY <2>1, <2>2, <2>3, <2>4
  <1>9. /\ Reads' = Reads
        /\ \A p \in Slots : /\ (Open(p) <=> Open(p)') /\ (Asked(p) <=> Asked(p)')
                            /\ FirstLine(p)' = FirstLine(p) /\ LastLine(p)' = LastLine(p)
    BY <1>1, <1>8 DEF Reads, Pending, Open, Asked, OfPoll, FirstLine, LastLine
  <1>10. Clocks' /\ PollTimes'
    BY <1>1, <1>2, <1>9 DEF Clocks, PollTimes, Asked
  <1>11. Shapes'
    <2>1. \A y : Whole(y)' <=> Whole(y)
      BY <1>1 DEF Whole, Unbroken
    <2>2. \A i \in 1 .. Len(slices') : Whole(slices'[i])
      BY <1>2, <1>3, <1>6 DEF Shapes, n
    <2>3. IsFiniteSet(DOMAIN store')
      <3>1. IsFiniteSet(DOMAIN store)
        BY <1>2 DEF Shapes
      <3>2. IsFiniteSet(DOMAIN store \cup {g})
        BY <3>1, FS_AddElement
      <3> QED
        BY <1>5, <3>2
    <2>4. ASSUME NEW h \in DOMAIN store'
          PROVE  h \in Nat /\ \A y \in ToSet(store'[h]) : Whole(y) /\ y.generation = h
      <3>1. CASE h = g
        BY <1>2, <1>4, <1>5, <3>1 DEF Shapes, g
      <3>2. CASE h # g
        BY <1>2, <1>5, <3>2 DEF Shapes
      <3> QED
        BY <3>1, <3>2
    <2> QED
      BY <1>1, <1>2, <1>3, <1>5, <2>1, <2>2, <2>3, <2>4 DEF Shapes
  <1>12. InStore'
    <2>1. /\ latest \in Nat /\ oldest \in Nat /\ oldest <= latest
          /\ latest <= lastPoll.generation /\ g <= lastPoll.generation
          /\ \A h \in DOMAIN store : h \in Nat /\ h <= latest
          /\ IF DOMAIN store = {} THEN latest = oldest ELSE latest \in DOMAIN store
          /\ \A r \in Reads : oldest <= r.generation
      BY <1>2, <1>4 DEF InStore, Whole, Shapes, g
    <2>2. oldest <= g
      <3>1. OfSlice(s) \in Queued
        BY <1>7, <1>8 DEF Queued, Stored, OfSlice, startOf, endOf
      <3>2. OfSlice(s) \in Reads /\ OfSlice(s).generation = g
        BY <3>1 DEF Reads, OfSlice, g
      <3> QED
        BY <2>1, <3>2
    <2>3. /\ latest' \in Nat /\ oldest <= latest' /\ latest' <= lastPoll.generation
          /\ latest <= latest' /\ g <= latest' /\ (latest' = g \/ latest' = latest)
      BY <1>1, <1>4, <2>1, <2>2
    <2>4. \A h \in DOMAIN store' : h <= latest'
      BY <1>4, <1>5, <2>1, <2>3
    <2>5. latest' \in DOMAIN store'
      <3>1. CASE DOMAIN store = {}
        <4>1. latest' = g
          BY <1>1, <1>4, <2>1, <2>2, <3>1
        <4> QED
          BY <1>5, <4>1
      <3>2. CASE DOMAIN store # {}
        BY <1>5, <2>1, <2>3, <3>2
      <3> QED
        BY <3>1, <3>2
    <2> QED
      BY <1>1, <1>9, <2>1, <2>3, <2>4, <2>5 DEF InStore
  <1>13. Apart' /\ Spaced' /\ InTurn'
    <2>1. Apart'
      BY <1>1, <1>2, <1>8, <1>9 DEF Apart
    <2>2. Spaced'
      BY <1>1, <1>2, <1>8, <1>9 DEF Spaced
    <2>3. InTurn'
      BY <1>1, <1>2, <1>8, <1>9 DEF InTurn
    <2> QED
      BY <2>1, <2>2, <2>3
  <1>14. Known'
    BY <1>1, <1>2, <1>8, <1>9 DEF Known, Reached
  <1>15. Writing'
    <2>1. Written' = Written /\ Done' = Done
      BY <1>1 DEF Written, Done
    <2> QED
      BY <1>1, <1>2, <1>8, <1>9, <2>1 DEF Writing, Emptied, Linked, Content
  <1> QED
    BY <1>10, <1>11, <1>12, <1>13, <1>14, <1>15 DEF LogInv, Reading
-----------------------------------------------------------------------------
(***************************************************************************)
(* Flushes                                                                 *)
(***************************************************************************)
ReadsOf(G) == {OfSlice(s) : s \in UNION {ToSet(store[g]) : g \in G}}

LEMMA StoredSlices ==
  ASSUME Shapes, NEW g \in DOMAIN store, NEW i \in 1 .. Len(store[g])
  PROVE  /\ g \in Nat /\ store[g] \in Seq(LineSlice) /\ store[g] # <<>>
         /\ Whole(store[g][i]) /\ store[g][i].generation = g
         /\ OfSlice(store[g][i]) \in ReadsOf({g})
         /\ OfSlice(store[g][i]) \in Queued
  <1>1. g \in Nat /\ store[g] \in Seq(LineSlice) /\ store[g] # <<>>
    BY DEF Shapes
  <1>2. store[g][i] \in ToSet(store[g])
    BY <1>1, LenProperties DEF ToSet
  <1>3. Whole(store[g][i]) /\ store[g][i].generation = g
    BY <1>2 DEF Shapes
  <1> QED
    BY <1>1, <1>2, <1>3 DEF ReadsOf, Queued, Stored

\* The reads of some generations are those of their slices.
LEMMA ReadsOfIs ==
  ASSUME Shapes, NEW G \in SUBSET DOMAIN store
  PROVE  /\ \A r \in ReadsOf(G) :
              \E g \in G : \E i \in 1 .. Len(store[g]) : r = OfSlice(store[g][i])
         /\ \A g \in G : \A i \in 1 .. Len(store[g]) : OfSlice(store[g][i]) \in ReadsOf(G)
         /\ \A r \in ReadsOf(G) : r \in Queued /\ r \in Reads /\ r.generation \in G
  <1>1. ASSUME NEW r \in ReadsOf(G)
        PROVE  \E g \in G : \E i \in 1 .. Len(store[g]) : r = OfSlice(store[g][i])
    <2>1. PICK g \in G : \E s \in ToSet(store[g]) : r = OfSlice(s)
      BY DEF ReadsOf
    <2>2. PICK s \in ToSet(store[g]) : r = OfSlice(s)
      BY <2>1
    <2>3. \E i \in 1 .. Len(store[g]) : s = store[g][i]
      BY LenProperties DEF ToSet, Shapes
    <2> QED
      BY <2>2, <2>3
  <1>2. ASSUME NEW g \in G, NEW i \in 1 .. Len(store[g])
        PROVE  OfSlice(store[g][i]) \in ReadsOf(G)
    <2>1. store[g][i] \in ToSet(store[g])
      BY LenProperties DEF ToSet, Shapes
    <2> QED
      BY <2>1 DEF ReadsOf
  <1>3. ASSUME NEW r \in ReadsOf(G) PROVE r \in Queued /\ r \in Reads /\ r.generation \in G
    <2>1. PICK g \in G : \E i \in 1 .. Len(store[g]) : r = OfSlice(store[g][i])
      BY <1>1
    <2>2. PICK i \in 1 .. Len(store[g]) : r = OfSlice(store[g][i])
      BY <2>1
    <2>3. store[g][i].generation = g /\ r \in Queued
      BY <2>2, StoredSlices
    <2> QED
      BY <2>2, <2>3 DEF Reads, OfSlice
  <1> QED
    BY <1>1, <1>2, <1>3

\* The slices of one generation are made one.
LEMMA OneGeneration ==
  ASSUME LogInv, NEW g \in DOMAIN store
  PROVE  /\ dedupGeneration(store[g]).ok
         /\ dedupGeneration(store[g]).slice.generation = g
         /\ MadeOne(dedupGeneration(store[g]).slice, store[g])
  <1> DEFINE s == store[g]
             P == 1 .. Len(s)
  <1>1. Clocks /\ Shapes /\ PollTimes /\ InTurn
    BY DEF LogInv, Reading
  <1>2. g \in Nat /\ s \in Seq(LineSlice) /\ s # <<>>
    BY <1>1 DEF Shapes
  <1>3. \A i \in P : Unbroken(s[i]) /\ s[i].generation = g
    BY <1>1, StoredSlices DEF Whole
  <1>4. ASSUME NEW i \in P
        PROVE  /\ OfSlice(s[i]) \in Reads
               /\ OfSlice(s[i]).first = startOf(s[i]) /\ OfSlice(s[i]).last = endOf(s[i])
               /\ OfSlice(s[i]).generation = g
    BY <1>1, <1>3, StoredSlices DEF Reads, OfSlice
  <1>5. \A i \in P : startOf(s[i]) \in Nat /\ endOf(s[i]) \in Nat
    BY <1>3 DEF Unbroken
  <1> HIDE DEF s
  <1>6. ReadInTurn(s)
    <2>1. ASSUME NEW i \in P, NEW j \in P, startOf(s[i]) < startOf(s[j])
          PROVE  endOf(s[i]) <= endOf(s[j])
      <3>1. endOf(s[j]) < endOf(s[i]) => startOf(s[j]) <= startOf(s[i])
        BY <1>1, <1>4 DEF InTurn
      <3> QED
        BY <1>5, <2>1, <3>1
    <2> QED
      BY <2>1 DEF ReadInTurn
  <1>7. \A i, j \in P : startOf(s[i]) <= endOf(s[j])
    BY <1>1, <1>4 DEF InTurn
  <1>8. /\ dedupGeneration(s).ok /\ dedupGeneration(s).slice.generation = g
        /\ MadeOne(dedupGeneration(s).slice, s)
    BY <1>2, <1>3, <1>6, <1>7, GenerationMerges
  <1> QED
    BY <1>8 DEF s

\* What a flush makes of some generations: all lines they hold, and the slice that is not
\* written yet.
FlushedTo(d, G) ==
  /\ d.ok /\ d.result.lines \in Lines
  /\ Unbroken(d.last) /\ d.last.generation \in G /\ \A g \in G : g <= d.last.generation
  /\ Increasing(d.result.lines \o d.last.lines)
  /\ ToSet(d.result.lines \o d.last.lines) = UNION {r.first .. r.last : r \in ReadsOf(G)}
  /\ \E r \in ReadsOf(G) : r.first = startOf(d.last)
  /\ \E r \in ReadsOf(G) : r.last = endOf(d.last) /\ r.generation = d.last.generation
  /\ \A r \in ReadsOf(G) : r.last <= endOf(d.last)

LEMMA FlushIs ==
  ASSUME LogInv, NEW G \in SUBSET DOMAIN store
  PROVE  LET ordered == Ascending(G)
             S == [i \in 1 .. Len(ordered) |-> dedupGeneration(store[ordered[i]]).slice]
             e == DedupLineSlices(S)
             d == flush(G)
         IN  /\ ordered \in Seq(G) /\ S \in Seq(LineSlice) /\ Len(S) = Len(ordered)
             /\ \A j, k \in 1 .. Len(ordered) : j < k => ordered[j] < ordered[k]
             /\ \A g \in G : \E k \in 1 .. Len(ordered) : ordered[k] = g
             /\ e.ok => d.ok
             /\ d.result = e.result /\ d.last = e.last
  <1> DEFINE ordered == Ascending(G)
             n == Len(ordered)
             M == [i \in 1 .. n |-> dedupGeneration(store[ordered[i]])]
             S == [i \in 1 .. n |-> dedupGeneration(store[ordered[i]]).slice]
             T == [i \in 1 .. n |-> M[i].slice]
             all(dedup) == [DedupLineSlices(Evaluated([i \in 1 .. Len(dedup) |-> dedup[i].slice]))
                              EXCEPT !.ok = @ /\ \A i \in 1 .. Len(dedup) : dedup[i].ok]
  <1>1. /\ ordered \in Seq(G)
        /\ \A j, k \in 1 .. n : j < k => ordered[j] < ordered[k]
        /\ \A g \in G : \E k \in 1 .. n : ordered[k] = g
    <2>1. G \in SUBSET Nat /\ IsFiniteSet(G)
      BY FS_Subset DEF LogInv, Reading, Shapes
    <2> QED
      BY <2>1, AscendingIs
  <1>2. flush(G) = Once(Evaluated(M), all)
    BY DEF flush, Once
  <1>3. Once(Evaluated(M), all) = all(Evaluated(M))
    BY DEF Once
  <1> HIDE DEF ordered
  <1>4. n \in Nat /\ \A i \in 1 .. n : ordered[i] \in G
    BY <1>1, LenProperties, ElementOfSeq
  <1>5. \A i \in 1 .. n : /\ dedupGeneration(store[ordered[i]]).ok
                          /\ dedupGeneration(store[ordered[i]]).slice \in LineSlice
    BY <1>4, OneGeneration DEF MadeOne, Unbroken
  <1>6. Evaluated(M) = M /\ Len(M) = n
    <2> DEFINE K == {dedupGeneration(store[g]) : g \in G}
    <2>1. M \in [1 .. n -> K]
      BY <1>4
    <2> HIDE DEF K, M, n
    <2> QED
      BY <1>4, <2>1, EvaluatedFunction
  <1>7. S \in [1 .. n -> LineSlice] /\ T = S
    BY <1>5
  <1>8. S \in Seq(LineSlice) /\ Len(S) = n /\ Evaluated(S) = S
    <2> HIDE DEF S, n
    <2> QED
      BY <1>4, <1>7, EvaluatedFunction
  <1>9. \A i \in 1 .. n : M[i].ok
    BY <1>5
  <1> HIDE DEF M, S
  <1>10. all(M) = [DedupLineSlices(S) EXCEPT !.ok = @ /\ \A i \in 1 .. n : M[i].ok]
    BY <1>6, <1>7, <1>8
  <1>11. \E a, b, c : DedupLineSlices(S) = [ok |-> a, result |-> b, last |-> c]
    <2> DEFINE r(a, b, c) == [ok |-> a, result |-> b, last |-> c]
    <2>1. \A s, last : \E a, b, c : dedupSorted(s, last) = r(a, b, c)
      BY DEF dedupSorted, Once
    <2>2. \A s : \E last : dedupLastTwo(s) = dedupSorted(s, last)
      BY DEF dedupLastTwo, Once
    <2>3. Once(sortedSlices(S), dedupLastTwo) = dedupLastTwo(sortedSlices(S))
      BY DEF Once
    <2>4. \/ \E a, b, c : DedupLineSlices(S) = r(a, b, c)
          \/ DedupLineSlices(S) = Once(sortedSlices(S), dedupLastTwo)
      BY DEF DedupLineSlices
    <2> HIDE DEF r
    <2>5. \E a, b, c : DedupLineSlices(S) = r(a, b, c)
      BY <2>1, <2>2, <2>3, <2>4
    <2> QED
      BY <2>5 DEF r
  <1>12. /\ DedupLineSlices(S).ok => all(M).ok
         /\ all(M).result = DedupLineSlices(S).result /\ all(M).last = DedupLineSlices(S).last
    BY <1>9, <1>10, <1>11
  <1> HIDE DEF all
  <1> QED
    BY <1>1, <1>2, <1>3, <1>6, <1>8, <1>12 DEF S, ordered

\* A generation made one, by the reads it is made of.
Holds(s, g, F) ==
  /\ Unbroken(s) /\ s.generation = g
  /\ \E r \in F : r.generation = g /\ r.first = startOf(s)
  /\ \E r \in F : r.generation = g /\ r.last = endOf(s)
  /\ \A r \in F : r.generation = g => startOf(s) <= r.first /\ r.last <= endOf(s)
  /\ \A x \in startOf(s) .. endOf(s) : \E r \in F : r.generation = g /\ x \in r.first .. r.last

LEMMA GenerationHolds ==
  ASSUME LogInv, NEW G \in SUBSET DOMAIN store, NEW g \in G, NEW s,
         s = dedupGeneration(store[g]).slice
  PROVE  Holds(s, g, ReadsOf(G))
  <1> DEFINE t == store[g]
             P == 1 .. Len(t)
  <1>1. Shapes
    BY DEF LogInv, Reading
  <1>2. s.generation = g /\ MadeOne(s, t)
    BY OneGeneration
  <1>3. ASSUME NEW i \in P
        PROVE  /\ OfSlice(t[i]) \in ReadsOf(G) /\ OfSlice(t[i]).generation = g
               /\ OfSlice(t[i]).first = startOf(t[i]) /\ OfSlice(t[i]).last = endOf(t[i])
    <2>1. t[i].generation = g
      BY <1>1, StoredSlices
    <2> QED
      BY <1>1, <2>1, ReadsOfIs DEF OfSlice
  <1>4. ASSUME NEW r \in ReadsOf(G), r.generation = g
        PROVE  \E i \in P : r = OfSlice(t[i])
    <2>1. PICK h \in G : \E i \in 1 .. Len(store[h]) : r = OfSlice(store[h][i])
      BY <1>1, ReadsOfIs
    <2>2. PICK i \in 1 .. Len(store[h]) : r = OfSlice(store[h][i])
      BY <2>1
    <2>3. store[h][i].generation = h
      BY <1>1, StoredSlices
    <2>4. h = g
      BY <1>4, <2>2, <2>3 DEF OfSlice
    <2> QED
      BY <2>2, <2>4
  <1>5. /\ \E i \in P : startOf(s) = startOf(t[i])
        /\ \E i \in P : endOf(s) = endOf(t[i])
        /\ \A i \in P : startOf(s) <= startOf(t[i]) /\ endOf(t[i]) <= endOf(s)
        /\ startOf(s) .. endOf(s) = UNION {startOf(t[i]) .. endOf(t[i]) : i \in P}
        /\ Unbroken(s)
    BY <1>2 DEF MadeOne, Held
  <1> HIDE DEF P, t
  <1>6. \A x \in startOf(s) .. endOf(s) : \E i \in P : x \in startOf(t[i]) .. endOf(t[i])
    BY <1>5
  <1>7. \A x \in startOf(s) .. endOf(s) :
          \E r \in ReadsOf(G) : r.generation = g /\ x \in r.first .. r.last
    BY <1>3, <1>6
  <1>8. \A r \in ReadsOf(G) : r.generation = g => startOf(s) <= r.first /\ r.last <= endOf(s)
    BY <1>3, <1>4, <1>5
  <1>9. /\ \E r \in ReadsOf(G) : r.generation = g /\ r.first = startOf(s)
        /\ \E r \in ReadsOf(G) : r.generation = g /\ r.last = endOf(s)
    BY <1>3, <1>5
  <1> QED
    BY <1>2, <1>5, <1>7, <1>8, <1>9 DEF Holds

\* The slices of all generations are made one, save the one that was read last.
LEMMA FlushMerges ==
  ASSUME LogInv, NEW G \in SUBSET DOMAIN store, G # {}
  PROVE  FlushedTo(flush(G), G)
  <1> DEFINE ordered == Ascending(G)
             n == Len(ordered)
             P == 1 .. n
             S == [i \in 1 .. n |-> dedupGeneration(store[ordered[i]]).slice]
             e == DedupLineSlices(S)
             d == flush(G)
             F == ReadsOf(G)
             from(i) == startOf(S[i])
             to(i) == endOf(S[i])
             w == d.result.lines \o d.last.lines
  <1>1. /\ ordered \in Seq(G) /\ S \in Seq(LineSlice) /\ Len(S) = n
        /\ \A j, k \in P : j < k => ordered[j] < ordered[k]
        /\ \A g \in G : \E k \in P : ordered[k] = g
        /\ e.ok => d.ok
        /\ d.result = e.result /\ d.last = e.last
    BY FlushIs
  <1>2. Clocks /\ Shapes /\ PollTimes /\ InTurn
    BY DEF LogInv, Reading
  <1>3. /\ \A i \in P : ordered[i] \in G /\ S[i] = dedupGeneration(store[ordered[i]]).slice
        /\ n \in Nat
    BY <1>1, ElementOfSeq, LenProperties
  <1>4. \A g \in G : g \in Nat
    BY <1>2 DEF Shapes
  <1>5. \A r \in F : /\ r \in Reads /\ r.generation \in G
                     /\ r.first \in Nat /\ r.last \in Nat /\ r.generation \in Nat
                     /\ r.first <= r.last
    BY <1>2, ReadsAre, ReadsOfIs
  <1> HIDE DEF S, ordered, d, e, F
  <1>6. /\ \A i \in P : Unbroken(S[i]) /\ S[i].generation = ordered[i]
        /\ \A i \in P : \E r \in F : r.generation = ordered[i] /\ r.first = from(i)
        /\ \A i \in P : \E r \in F : r.generation = ordered[i] /\ r.last = to(i)
        /\ \A i \in P : \A r \in F : r.generation = ordered[i] => from(i) <= r.first /\ r.last <= to(i)
        /\ \A i \in P : \A x \in from(i) .. to(i) :
             \E r \in F : r.generation = ordered[i] /\ x \in r.first .. r.last
    <2>1. ASSUME NEW i \in P PROVE Holds(S[i], ordered[i], F)
      <3>1. ordered[i] \in G /\ S[i] = dedupGeneration(store[ordered[i]]).slice
        BY <1>3
      <3> QED
        BY <3>1, GenerationHolds DEF F
    <2> QED
      BY <2>1 DEF Holds
  <1>7. \A i \in P : from(i) \in Nat /\ to(i) \in Nat /\ from(i) <= to(i)
    BY <1>6 DEF Unbroken
  <1>8. \A r, s \in F : r.last = s.last => r = s
    BY <1>2, <1>5 DEF InTurn
  <1>9. \A r, s \in F : r.last < s.last => r.first <= s.first /\ r.generation <= s.generation
    BY <1>2, <1>5 DEF InTurn
  <1> HIDE DEF n, P, from, to
  <1>10. \A i, j \in P : ordered[i] < ordered[j] => from(i) <= from(j) /\ to(i) < to(j)
    <2>1. ASSUME NEW i \in P, NEW j \in P, ordered[i] < ordered[j],
                 NEW r \in F, NEW s \in F, r.generation = ordered[i], s.generation = ordered[j]
          PROVE  r.last < s.last /\ r.first <= s.first
      <3>1. ~(s.last < r.last)
        BY <1>5, <1>9, <2>1
      <3>2. s.last # r.last
        BY <1>5, <1>8, <2>1
      <3> QED
        BY <1>5, <1>9, <2>1, <3>1, <3>2
    <2>2. ASSUME NEW i \in P, NEW j \in P, ordered[i] < ordered[j]
          PROVE  from(i) <= from(j) /\ to(i) < to(j)
      <3>1. PICK r \in F : r.generation = ordered[i] /\ r.first = from(i)
        BY <1>6
      <3>2. PICK s \in F : s.generation = ordered[j] /\ s.first = from(j)
        BY <1>6
      <3>3. PICK t \in F : t.generation = ordered[i] /\ t.last = to(i)
        BY <1>6
      <3>4. PICK u \in F : u.generation = ordered[j] /\ u.last = to(j)
        BY <1>6
      <3> QED
        BY <2>1, <2>2, <3>1, <3>2, <3>3, <3>4
    <2> QED
      BY <2>2
  <1>11. \A i, j \in P : i \in Int /\ j \in Int /\ ordered[i] \in Nat /\ ordered[j] \in Nat
    BY <1>3, <1>4 DEF P
  <1>12. \A i, j \in P : i = j \/ ordered[i] < ordered[j] \/ ordered[j] < ordered[i]
    BY <1>1, <1>11
  <1>13. ReadInTurn(S)
    <2>1. ASSUME NEW i \in P, NEW j \in P, from(i) < from(j) PROVE to(i) <= to(j)
      <3>1. i # j
        BY <1>7, <2>1
      <3>2. ~(ordered[j] < ordered[i])
        BY <1>7, <1>10, <2>1
      <3>3. to(i) < to(j)
        BY <1>10, <1>12, <3>1, <3>2
      <3> QED
        BY <1>7, <3>3
    <2> QED
      BY <1>1, <2>1 DEF ReadInTurn, P, from, to
  <1>14. S # <<>>
    <2>1. \E k \in P : TRUE
      BY <1>1
    <2> QED
      BY <1>1, <2>1 DEF P
  <1>15. Merged(e, S)
    <2>1. S \in Seq(LineSlice) /\ \A i \in 1 .. Len(S) : Unbroken(S[i])
      BY <1>1, <1>6 DEF P
    <2>2. Merged(DedupLineSlices(S), S)
      BY <1>13, <1>14, <2>1, SlicesMerge
    <2> QED
      BY <2>2 DEF e
  <1>16. /\ d.ok /\ d.result.lines \in Lines /\ Increasing(w) /\ ToSet(w) = Held(S, 1)
    BY <1>1, <1>15 DEF Merged
  <1>17. PICK k \in P : d.last = S[k] /\ \A j \in P : from(j) <= from(k) /\ to(j) <= to(k)
    BY <1>1, <1>15 DEF Merged, P, from, to
  <1>18. \A g \in G : g <= ordered[k]
    <2>1. ASSUME NEW j \in P PROVE ordered[j] <= ordered[k]
      <3>1. ~(ordered[k] < ordered[j])
        BY <1>7, <1>10, <1>17
      <3> QED
        BY <1>11, <3>1
    <2> QED
      BY <1>1, <2>1
  <1>19. /\ startOf(d.last) = from(k) /\ endOf(d.last) = to(k) /\ d.last.generation = ordered[k]
         /\ Unbroken(d.last)
    BY <1>6, <1>17 DEF from, to
  <1>20. \A r \in F : \E j \in P : r.generation = ordered[j]
    BY <1>1, <1>5
  <1>21. \A r \in F : r.last <= to(k)
    <2>1. ASSUME NEW r \in F PROVE r.last <= to(k)
      <3>1. PICK j \in P : r.generation = ordered[j]
        BY <1>20
      <3>2. r.last <= to(j) /\ to(j) <= to(k)
        BY <1>6, <1>17, <3>1
      <3> QED
        BY <1>5, <1>7, <3>2
    <2> QED
      BY <2>1
  <1>22. Held(S, 1) = UNION {r.first .. r.last : r \in F}
    <2>1. Held(S, 1) = UNION {from(j) .. to(j) : j \in P}
      BY <1>1 DEF Held, P, from, to
    <2>2. ASSUME NEW r \in F, NEW x \in r.first .. r.last PROVE \E j \in P : x \in from(j) .. to(j)
      <3>1. PICK j \in P : r.generation = ordered[j]
        BY <1>20
      <3>2. from(j) <= r.first /\ r.last <= to(j)
        BY <1>6, <3>1
      <3>3. x \in from(j) .. to(j)
        BY <1>5, <1>7, <3>2
      <3> QED
        BY <3>3
    <2>3. \A j \in P : \A x \in from(j) .. to(j) : \E r \in F : x \in r.first .. r.last
      BY <1>6
    <2> QED
      BY <2>1, <2>2, <2>3
  <1>23. /\ \E r \in F : r.first = from(k)
         /\ \E r \in F : r.last = to(k) /\ r.generation = ordered[k]
    BY <1>6
  <1> QED
    BY <1>3, <1>16, <1>18, <1>19, <1>21, <1>22, <1>23 DEF FlushedTo, d, F

\* Reads each of which follows on an earlier one hold all lines from the first on.
LEMMA ReadsCover ==
  ASSUME NEW F, NEW D \in Nat, NEW T \in Nat,
         \A r \in F : /\ r.first \in Nat /\ r.last \in Nat
                      /\ D < r.first /\ r.first <= r.last /\ r.last <= T,
         \A r \in F : r.first = D + 1 \/ \E s \in F : s.last < r.last /\ r.first <= s.last,
         \E r \in F : r.last = T
  PROVE  UNION {r.first .. r.last : r \in F} = (D + 1) .. T
  <1> DEFINE U == UNION {r.first .. r.last : r \in F}
             S == {n \in Nat : \A r \in F : r.last <= n => \A x \in (D + 1) .. r.last : x \in U}
  <1>1. \A x : x \in U <=> \E r \in F : x \in r.first .. r.last
    OBVIOUS
  <1> HIDE DEF U
  <1>2. 0 \in S
    <2>1. \A r \in F : ~(r.last <= 0)
      OBVIOUS
    <2> QED
      BY <2>1
  <1>3. ASSUME NEW n \in Nat, n \in S PROVE n + 1 \in S
    <2>1. ASSUME NEW r \in F, r.last <= n + 1, NEW x \in (D + 1) .. r.last PROVE x \in U
      <3>1. CASE r.first <= x
        <4>1. x \in r.first .. r.last
          BY <2>1, <3>1
        <4> QED
          BY <1>1, <4>1
      <3>2. CASE ~(r.first <= x)
        <4>1. r.first # D + 1
          BY <2>1, <3>2
        <4>2. PICK s \in F : s.last < r.last /\ r.first <= s.last
          BY <4>1
        <4>3. s.last <= n /\ x \in (D + 1) .. s.last
          BY <2>1, <3>2, <4>2
        <4> QED
          BY <1>3, <4>3
      <3> QED
        BY <3>1, <3>2
    <2> QED
      BY <2>1
  <1>4. Nat \subseteq S
    <2> HIDE DEF S
    <2> QED
      BY <1>2, <1>3, NatInductionSet
  <1>5. ASSUME NEW x \in (D + 1) .. T PROVE x \in U
    <2>1. PICK r \in F : r.last = T
      OBVIOUS
    <2>2. T \in S /\ r.last <= T
      BY <1>4, <2>1
    <2> QED
      BY <2>1, <2>2
  <1>6. ASSUME NEW x \in U PROVE x \in (D + 1) .. T
    <2>1. PICK r \in F : x \in r.first .. r.last
      BY <1>1
    <2> QED
      BY <2>1
  <1>7. U = (D + 1) .. T
    BY <1>5, <1>6
  <1> QED
    BY <1>7 DEF U

\* What a flush takes follows on what is written.
LEMMA FlushFollows ==
  ASSUME LogInv, processor \notin Flushed, NEW G \in SUBSET DOMAIN store, G # {},
         \A r \in Queued, s \in ReadsOf(G) : r.last < s.last => r \in ReadsOf(G),
         NEW d, d = flush(G)
  PROVE  /\ Done \in Nat /\ Done < startOf(d.last) /\ startOf(d.last) <= endOf(d.last)
         /\ startOf(d.last) \in Nat /\ endOf(d.last) \in Nat
         /\ d.result.lines \o d.last.lines = Log(Done + 1, endOf(d.last))
         /\ d.result.lines = Log(Done + 1, startOf(d.last) - 1)
         /\ UNION {r.first .. r.last : r \in ReadsOf(G)} = (Done + 1) .. endOf(d.last)
  <1> DEFINE F == ReadsOf(G)
             a == startOf(d.last)
             b == endOf(d.last)
             x == d.result.lines
             y == d.last.lines
  <1>1. Clocks /\ Shapes /\ PollTimes /\ Linked
    BY DEF LogInv, Reading, Writing
  <1>2. FlushedTo(d, G)
    BY FlushMerges
  <1>3. Done \in Nat
    BY <1>1, WrittenIs
  <1>4. /\ Unbroken(d.last) /\ x \in Lines /\ Increasing(x \o y)
        /\ ToSet(x \o y) = UNION {r.first .. r.last : r \in F}
        /\ \E r \in F : r.first = a
        /\ \E r \in F : r.last = b
        /\ \A r \in F : r.last <= b
    BY <1>2 DEF FlushedTo
  <1>5. a \in Nat /\ b \in Nat /\ a <= b /\ y = Log(a, b) /\ y \in Lines
    BY <1>4 DEF Unbroken, LineSlice
  <1>6. \A r \in F : /\ r \in Queued /\ r \in Reads
                     /\ r.first \in Nat /\ r.last \in Nat /\ r.first <= r.last
    BY <1>1, ReadsAre, ReadsOfIs
  <1>7. \A r \in F : /\ r.first > Done
                     /\ r.first = Done + 1 \/ \E s \in Queued : s.last < r.last /\ r.first <= s.last
    BY <1>1, <1>6 DEF Linked
  <1>8. \A r \in F : r.first = Done + 1 \/ \E s \in F : s.last < r.last /\ r.first <= s.last
    BY <1>7
  <1> HIDE DEF F, a, b, x, y
  <1>9. Done < a
    BY <1>3, <1>4, <1>6, <1>7
  <1>10. UNION {r.first .. r.last : r \in F} = (Done + 1) .. b
    <2>1. \A r \in F : /\ r.first \in Nat /\ r.last \in Nat
                       /\ Done < r.first /\ r.first <= r.last /\ r.last <= b
      BY <1>3, <1>4, <1>6, <1>7
    <2> DEFINE D == Done
    <2>2. D \in Nat /\ b \in Nat
      BY <1>3, <1>5
    <2>3. /\ \A r \in F : /\ r.first \in Nat /\ r.last \in Nat
                          /\ D < r.first /\ r.first <= r.last /\ r.last <= b
          /\ \A r \in F : r.first = D + 1 \/ \E s \in F : s.last < r.last /\ r.first <= s.last
          /\ \E r \in F : r.last = b
      BY <1>4, <1>8, <2>1
    <2> HIDE DEF D
    <2>4. UNION {r.first .. r.last : r \in F} = (D + 1) .. b
      BY <2>2, <2>3, ReadsCover
    <2> QED
      BY <2>4 DEF D
  <1>11. x \o y \in Lines
    BY <1>4, <1>5, ConcatProperties DEF Lines
  <1>12. x \o y = Log(Done + 1, b)
    <2>1. Done + 1 \in Nat /\ b \in Int /\ Done + 1 <= b + 1
      BY <1>3, <1>5, <1>9
    <2>2. Increasing(x \o y) /\ ToSet(x \o y) = (Done + 1) .. b
      BY <1>4, <1>10
    <2> QED
      BY <1>11, <2>1, <2>2, IncreasingIsLog
  <1>13. x = Log(Done + 1, a - 1)
    <2>1. Done + 1 \in Nat /\ b \in Int /\ Done + 1 <= a /\ a <= b + 1
      BY <1>3, <1>5, <1>9
    <2> QED
      BY <1>4, <1>5, <1>12, <2>1, LogBefore
  <1> QED
    BY <1>3, <1>5, <1>9, <1>10, <1>12, <1>13 DEF F, a, b, x, y

\* Polls start with the generation the store begins with.
Begun ==
  IF DOMAIN store # {} THEN oldest \in DOMAIN store
  ELSE IF slices # <<>> THEN slices[1].generation = oldest
  ELSE lastPoll.generation = oldest

\* A flush takes the generations up to a bound, the oldest among them, and not the latest.
LEMMA FlushableAre ==
  ASSUME LogInv, Begun, ShouldFlush
  PROVE  /\ FlushableGenerations = {h \in DOMAIN store : h <= oldest + keepGenerations}
         /\ oldest \in FlushableGenerations
         /\ latest \in DOMAIN store \ FlushableGenerations
         /\ oldest \in Nat /\ latest \in Nat
  <1>1. /\ oldest \in Nat /\ latest \in Nat /\ oldest <= latest /\ latest <= MaxTime
        /\ IF DOMAIN store = {} THEN latest = oldest ELSE latest \in DOMAIN store
        /\ IsFiniteSet(DOMAIN store)
    <2>1. /\ oldest \in Nat /\ latest \in Nat /\ oldest <= latest /\ latest <= lastPoll.generation
          /\ lastPoll.generation <= lastPoll.time /\ lastPoll.time <= now /\ now <= MaxTime
          /\ lastPoll.generation \in Nat /\ lastPoll.time \in Nat /\ now \in Nat
          /\ IF DOMAIN store = {} THEN latest = oldest ELSE latest \in DOMAIN store
          /\ IsFiniteSet(DOMAIN store)
      BY DEF LogInv, Reading, InStore, Clocks, Shapes
    <2> QED
      BY <2>1, Constants
  <1>2. DOMAIN store # {}
    <2>1. Cardinality({}) = 0
      BY FS_EmptySet
    <2> QED
      BY <2>1, Constants DEF ShouldFlush
  <1>3. oldest \in DOMAIN store /\ latest \in DOMAIN store
    BY <1>1, <1>2 DEF Begun
  <1>4. latest - oldest > keepGenerations
    <2>1. latest - oldest \in Nat /\ latest - oldest <= MaxTime
      BY <1>1, Constants
    <2>2. (latest - oldest) % GenerationModulus = latest - oldest
      BY <2>1, NoWrap
    <2> QED
      BY <2>2 DEF ShouldFlush
  <1>5. (oldest + keepGenerations) % GenerationModulus = oldest + keepGenerations
    <2>1. oldest + keepGenerations \in Nat /\ oldest + keepGenerations <= MaxTime
      BY <1>1, <1>4, Constants
    <2> QED
      BY <2>1, NoWrap
  <1>6. FlushableGenerations = {h \in DOMAIN store : h <= oldest + keepGenerations}
    BY <1>5 DEF FlushableGenerations
  <1>7. oldest <= oldest + keepGenerations /\ ~(latest <= oldest + keepGenerations)
    BY <1>1, <1>4, Constants
  <1> QED
    BY <1>1, <1>3, <1>6, <1>7

\* The reads of the generations up to a bound end before those of later ones, and before
\* those that are pending still.
LEMMA FlushedFirst ==
  ASSUME LogInv, Begun, Timely, ShouldFlush, slices = <<>>
  PROVE  LET F == ReadsOf(FlushableGenerations)
             Rest == ReadsOf(DOMAIN store \ FlushableGenerations)
         IN  /\ Queued = F \cup Rest
             /\ \A r \in F, s \in Rest \cup Pending : r.last < s.last
  <1> DEFINE G == FlushableGenerations
             H == DOMAIN store \ G
             F == ReadsOf(G)
             Rest == ReadsOf(H)
  <1>1. Clocks /\ Shapes /\ PollTimes /\ Apart /\ Spaced /\ InTurn
    BY DEF LogInv, Reading
  <1>2. /\ G = {h \in DOMAIN store : h <= oldest + keepGenerations}
        /\ latest \in H /\ oldest \in Nat /\ H \in SUBSET DOMAIN store /\ G \in SUBSET DOMAIN store
        /\ \A h \in DOMAIN store : h \in Nat
    BY <1>1, FlushableAre DEF Shapes
  <1>3. Queued = F \cup Rest
    <2>1. {OfSlice(slices[i]) : i \in 1 .. Len(slices)} = {}
      OBVIOUS
    <2>2. UNION {ToSet(store[h]) : h \in DOMAIN store}
            = (UNION {ToSet(store[h]) : h \in G}) \cup (UNION {ToSet(store[h]) : h \in H})
      BY <1>2
    <2> QED
      BY <2>1, <2>2 DEF Queued, Stored, ReadsOf
  <1>4. /\ \A r \in F : r \in Queued /\ r \in Reads /\ r.generation \in G
        /\ \A r \in Rest : r \in Queued /\ r \in Reads /\ r.generation \in H
    BY <1>1, <1>2, ReadsOfIs
  <1>5. \A r \in Reads : r.first \in Nat /\ r.last \in Nat /\ r.generation \in Nat
    BY <1>1, ReadsAre
  <1> HIDE DEF F, Rest
  <1>6. \A r \in F, s \in Rest : r.last < s.last
    <2>1. ASSUME NEW r \in F, NEW s \in Rest PROVE r.last < s.last
      <3>1. r.generation < s.generation
        BY <1>2, <1>4, <1>5, Constants
      <3>2. r.last # s.last
        BY <1>1, <1>4, <1>5, <3>1 DEF InTurn
      <3>3. ~(s.last < r.last)
        BY <1>1, <1>4, <1>5, <3>1 DEF InTurn
      <3> QED
        BY <1>4, <1>5, <3>2, <3>3
    <2> QED
      BY <2>1
  <1>7. ASSUME NEW r \in F, NEW s \in Pending PROVE r.last < s.last
    <2>1. PICK p \in Slots : Open(p) /\ s = OfPoll(p)
      BY DEF Pending
    <2>2. s \in Reads /\ s.last = LastLine(p) /\ r.last # s.last
      BY <1>1, <1>4, <2>1 DEF Reads, OfPoll, Apart
    <2>3. \E t \in Rest : TRUE
      <3>1. store[latest] \in Seq(LineSlice) /\ store[latest] # <<>>
        BY <1>1, <1>2 DEF Shapes
      <3>2. 1 \in 1 .. Len(store[latest])
        BY <3>1, LenProperties, EmptySeq
      <3>3. OfSlice(store[latest][1]) \in Rest
        BY <1>1, <1>2, <3>2, ReadsOfIs DEF Rest
      <3> QED
        BY <3>3
    <2>4. PICK t \in Rest : r.last < t.last
      BY <1>6, <2>3
    <2>5. t.last <= now
      BY <1>1, <1>4, ReadsAre
    <2>6. now <= s.last + ReadLag
      BY <1>1, <2>1, <2>2 DEF PollTimes, Open
    <2>7. s.last < r.last => s.last + 2 * Spread <= t.last + OpenLag
      BY <1>1, <1>4, <2>2, <2>4 DEF Spaced
    <2>8. /\ r.last \in Nat /\ s.last \in Nat /\ t.last \in Nat /\ now \in Nat
          /\ OpenLag \in Nat /\ ReadLag \in Nat /\ PollInterval \in Nat
          /\ Spread = PollInterval + 1 /\ OpenLag + ReadLag <= 2 * PollInterval + 1
      BY <1>1, <1>4, <1>5, <2>2, Constants DEF Clocks, Timely
    <2> QED
      BY <2>2, <2>5, <2>6, <2>7, <2>8
  <1> QED
    BY <1>3, <1>6, <1>7 DEF F, Rest

\* The store once the generations up to that of a slice have been made this slice.
KeepLast(s) ==
  [h \in {k \in DOMAIN store : k >= s.generation} \cup {s.generation} |->
     IF h = s.generation THEN <<s>> ELSE store[h]]

ReadsIn(t) == {OfSlice(y) : y \in UNION {ToSet(t[h]) : h \in DOMAIN t}}

LEMMA KeepLastIs ==
  ASSUME Shapes, NEW G \in SUBSET DOMAIN store, NEW s \in LineSlice, s.generation \in G,
         \A h \in G : h <= s.generation, \A h \in DOMAIN store \ G : s.generation < h
  PROVE  LET t == KeepLast(s)
             H == DOMAIN store \ G
         IN  /\ DOMAIN t = H \cup {s.generation} /\ s.generation \notin H
             /\ IsFiniteSet(DOMAIN t)
             /\ \A h \in H : t[h] = store[h]
             /\ t[s.generation] \in Seq(LineSlice) /\ t[s.generation] # <<>>
             /\ ToSet(t[s.generation]) = {s}
             /\ ReadsIn(t) = ReadsOf(H) \cup {OfSlice(s)}
  <1> DEFINE t == KeepLast(s)
             g == s.generation
             H == DOMAIN store \ G
             one == <<s>>
  <1>1. /\ g \in Nat /\ \A h \in DOMAIN store : h \in Nat
        /\ IsFiniteSet(DOMAIN store)
    BY DEF Shapes
  <1>2. {k \in DOMAIN store : k >= g} \cup {g} = H \cup {g} /\ g \notin H
    <2>1. ASSUME NEW k \in DOMAIN store, k >= g PROVE k = g \/ k \in H
      BY <1>1, <2>1
    <2>2. \A k \in H : k >= g
      BY <1>1
    <2> QED
      BY <2>1, <2>2
  <1>3. DOMAIN t = H \cup {g}
    BY <1>2 DEF KeepLast
  <1>4. \A h \in H : t[h] = store[h]
    BY <1>2 DEF KeepLast
  <1>5. t[g] = one
    BY DEF KeepLast
  <1>6. one \in Seq(LineSlice) /\ one # <<>> /\ ToSet(one) = {s}
    BY DEF ToSet
  <1>7. IsFiniteSet(DOMAIN t)
    <2>1. DOMAIN t \in SUBSET DOMAIN store
      BY <1>3
    <2> QED
      BY <1>1, <2>1, FS_Subset
  <1> HIDE DEF t, one
  <1>8. ReadsIn(t) = ReadsOf(H) \cup {OfSlice(s)}
    <2>1. UNION {ToSet(t[h]) : h \in DOMAIN t} = (UNION {ToSet(store[h]) : h \in H}) \cup {s}
      <3> DEFINE S == UNION {ToSet(store[h]) : h \in H}
                 T == UNION {ToSet(t[h]) : h \in DOMAIN t}
      <3>1. ASSUME NEW x \in T PROVE x = s \/ x \in S
        <4>1. PICK h \in DOMAIN t : x \in ToSet(t[h])
          OBVIOUS
        <4> QED
          BY <1>3, <1>4, <1>5, <1>6, <4>1
      <3>2. ASSUME NEW x \in S PROVE x \in T
        <4>1. PICK h \in H : x \in ToSet(store[h])
          OBVIOUS
        <4>2. h \in DOMAIN t /\ x \in ToSet(t[h])
          BY <1>3, <1>4, <4>1
        <4> QED
          BY <4>2
      <3>3. s \in T
        <4>1. g \in DOMAIN t /\ s \in ToSet(t[g])
          BY <1>3, <1>5, <1>6
        <4> QED
          BY <4>1
      <3> HIDE DEF S, T
      <3>4. T = S \cup {s}
        BY <3>1, <3>2, <3>3
      <3> QED
        BY <3>4 DEF S, T
    <2> QED
      BY <2>1 DEF ReadsOf, ReadsIn
  <1> QED
    BY <1>2, <1>3, <1>4, <1>5, <1>6, <1>7, <1>8 DEF t

\* What is flushed is written, and the slice that stays takes the place of what it was
\* made of.
LEMMA FlushKeeps ==
  ASSUME LogInv, Begun, Timely, Flush
  PROVE  LogInv' /\ Begun' /\ processor' # "panicked"
  <1> DEFINE G == FlushableGenerations
             H == DOMAIN store \ G
             d == flush(G)
             s == d.last
             g == s.generation
             L == OfSlice(s)
             F == ReadsOf(G)
             Rest == ReadsOf(H)
  <1>1. /\ UNCHANGED <<now, lastBegin, polls, lastPoll, collected, slices, latest, lines, file>>
        /\ processor = "select" /\ slices = <<>> /\ ShouldFlush
        /\ processor' = (IF d.ok THEN "queueing" ELSE "panicked")
        /\ out' = d.result.lines /\ store' = KeepLast(s) /\ oldest' = g
    BY DEF Flush, pollVars, writeVars, KeepLast
  <1>2. /\ Clocks /\ Shapes /\ PollTimes /\ InStore /\ Apart /\ Spaced /\ InTurn /\ Known
        /\ Emptied /\ Linked /\ Content
    BY DEF LogInv, Reading, Writing
  <1>3. /\ G = {h \in DOMAIN store : h <= oldest + keepGenerations}
        /\ oldest \in G /\ latest \in H /\ oldest \in Nat /\ latest \in Nat
        /\ G \in SUBSET DOMAIN store /\ H \in SUBSET DOMAIN store /\ G # {}
    BY <1>1, FlushableAre
  <1>4. \A h \in DOMAIN store : h \in Nat /\ h <= latest
    BY <1>2 DEF Shapes, InStore
  <1>5. /\ Queued = F \cup Rest
        /\ \A r \in F, t \in Rest \cup Pending : r.last < t.last
    BY <1>1, FlushedFirst
  <1>6. FlushedTo(d, G)
    BY <1>3, FlushMerges
  <1>7. /\ d.ok /\ d.result.lines \in Lines /\ Unbroken(s) /\ g \in G /\ \A h \in G : h <= g
        /\ L.first = startOf(s) /\ L.last = endOf(s) /\ L.generation = g
        /\ \E r \in F : r.first = L.first
        /\ \E r \in F : r.last = L.last /\ r.generation = g
        /\ \A r \in F : r.last <= L.last
    BY <1>6 DEF FlushedTo, OfSlice
  <1>8. \A r \in Reads : /\ r.first \in Nat /\ r.last \in Nat /\ r.generation \in Nat
                         /\ 1 <= r.first /\ r.first <= r.last
    BY <1>2, ReadsAre
  <1>9. \A r \in F \cup Rest : r \in Queued /\ r \in Reads /\ r.last <= now
    BY <1>2, <1>5, ReadsAre
  <1>10. /\ Done \in Nat /\ Done < L.first /\ L.first <= L.last
         /\ L.first \in Nat /\ L.last \in Nat
         /\ d.result.lines = Log(Done + 1, L.first - 1)
         /\ UNION {r.first .. r.last : r \in F} = (Done + 1) .. L.last
    <2>1. \A r \in Queued, t \in F : r.last < t.last => r \in F
      <3> HIDE DEF F, Rest
      <3>1. ASSUME NEW r \in Rest, NEW t \in F PROVE ~(r.last < t.last)
        <4>1. t.last < r.last /\ t.last \in Nat /\ r.last \in Nat
          BY <1>5, <1>8, <1>9
        <4> QED
          BY <4>1
      <3> QED
        BY <1>5, <3>1
    <2>2. processor \notin Flushed
      BY <1>1 DEF Flushed
    <2> DEFINE e == d
    <2>3. e = flush(G)
      OBVIOUS
    <2> HIDE DEF e
    <2>4. /\ Done \in Nat /\ Done < startOf(e.last) /\ startOf(e.last) <= endOf(e.last)
          /\ startOf(e.last) \in Nat /\ endOf(e.last) \in Nat
          /\ e.result.lines = Log(Done + 1, startOf(e.last) - 1)
          /\ UNION {r.first .. r.last : r \in ReadsOf(G)} = (Done + 1) .. endOf(e.last)
      BY <1>3, <2>1, <2>2, <2>3, FlushFollows
    <2> QED
      BY <1>7, <2>4 DEF e
  <1>11. s \in LineSlice /\ g \in Nat
    BY <1>7 DEF Unbroken, LineSlice
  <1>12. \A h \in H : g < h
    BY <1>3, <1>4, <1>7, Constants
  <1> HIDE DEF d, G, s, L, F
  <1>13. /\ DOMAIN store' = H \cup {g} /\ g \notin H
         /\ IsFiniteSet(DOMAIN store')
         /\ \A h \in H : store'[h] = store[h]
         /\ store'[g] \in Seq(LineSlice) /\ store'[g] # <<>> /\ ToSet(store'[g]) = {s}
         /\ ReadsIn(store') = Rest \cup {L}
    <2> DEFINE t == KeepLast(s)
    <2>1. /\ DOMAIN t = H \cup {g} /\ g \notin H
          /\ IsFiniteSet(DOMAIN t)
          /\ \A h \in H : t[h] = store[h]
          /\ t[g] \in Seq(LineSlice) /\ t[g] # <<>> /\ ToSet(t[g]) = {s}
          /\ ReadsIn(t) = Rest \cup {L}
      BY <1>2, <1>3, <1>7, <1>11, <1>12, KeepLastIs DEF L
    <2>2. store' = t
      BY <1>1
    <2> HIDE DEF t
    <2> QED
      BY <2>1, <2>2
  <1> HIDE DEF Rest, H
  <1>14. Queued' = Rest \cup {L}
    <2>1. Stored' = Rest \cup {L}
      BY <1>13 DEF Stored, ReadsIn, OfSlice, startOf, endOf
    <2>2. {OfSlice(slices[i]) : i \in 1 .. Len(slices)}' = {}
      BY <1>1
    <2> QED
      BY <2>1, <2>2 DEF Queued
  <1>15. /\ Pending' = Pending
         /\ \A p \in Slots : /\ (Open(p) <=> Open(p)') /\ (Asked(p) <=> Asked(p)')
                             /\ FirstLine(p)' = FirstLine(p) /\ LastLine(p)' = LastLine(p)
    BY <1>1 DEF Pending, Open, Asked, OfPoll, FirstLine, LastLine
  <1> DEFINE Others == Rest \cup Pending
  <1>16. /\ Reads' = Others \cup {L} /\ Reads = F \cup Others
         /\ \A r \in Others : r \in Reads
    BY <1>5, <1>14, <1>15 DEF Reads
  <1>17. \A r \in F, t \in Others : r.last < t.last
    BY <1>5
  <1> HIDE DEF Others
  <1>18. PICK u \in F : u.first = L.first
    BY <1>7
  <1>19. PICK v \in F : v.last = L.last /\ v.generation = g
    BY <1>7
  <1>20. /\ u \in Reads /\ v \in Reads /\ v \in Queued /\ L.last <= now
    BY <1>9, <1>18, <1>19
  <1>21. \A t \in Others : L.last < t.last /\ L.first <= t.first /\ g <= t.generation
    <2>1. \A t \in Others : u.last < t.last /\ v.last < t.last
      BY <1>17
    <2>2. \A t \in Others : u.first <= t.first /\ v.generation <= t.generation
      BY <1>2, <1>16, <1>20, <2>1 DEF InTurn
    <2> QED
      BY <1>18, <1>19, <2>1, <2>2
  <1>22. Clocks' /\ PollTimes'
    BY <1>1, <1>2, <1>15 DEF Clocks, PollTimes
  <1>23. Shapes'
    <2>1. \A y : Whole(y)' <=> Whole(y)
      BY <1>1 DEF Whole, Unbroken
    <2>2. Whole(s)
      <3>1. v.generation <= lastPoll.generation
        BY <1>2, <1>20, ReadsAre
      <3>2. 1 <= startOf(s) /\ endOf(s) <= now /\ s.generation <= lastPoll.generation
        BY <1>7, <1>8, <1>18, <1>19, <1>20, <3>1
      <3> QED
        BY <1>7, <3>2 DEF Whole, Unbroken
    <2>3. ASSUME NEW h \in DOMAIN store'
          PROVE  /\ h \in Nat /\ store'[h] \in Seq(LineSlice) /\ store'[h] # <<>>
                 /\ \A y \in ToSet(store'[h]) : Whole(y) /\ y.generation = h
      <3>1. CASE h = g
        BY <1>11, <1>13, <2>2, <3>1
      <3>2. CASE h # g
        <4>1. h \in DOMAIN store /\ store'[h] = store[h]
          BY <1>13, <3>2 DEF H
        <4> QED
          BY <1>2, <4>1 DEF Shapes
      <3> QED
        BY <3>1, <3>2
    <2>4. slices' = slices /\ \A i \in 1 .. Len(slices) : Whole(slices[i])
      BY <1>1, <1>2 DEF Shapes
    <2> QED
      BY <1>1, <1>2, <1>7, <1>13, <2>1, <2>3, <2>4 DEF Shapes
  <1>24. InStore'
    <2>1. latest \in H /\ g < latest
      BY <1>3, <1>12 DEF H
    <2>2. \A h \in DOMAIN store' : h <= latest
      BY <1>3, <1>4, <1>11, <1>13, <2>1 DEF H
    <2>3. latest \in DOMAIN store' /\ DOMAIN store' # {}
      BY <1>13, <2>1
    <2>4. \A r \in Reads' : g <= r.generation
      BY <1>7, <1>11, <1>16, <1>21
    <2>5. latest <= lastPoll.generation /\ g <= latest
      BY <1>2, <1>3, <1>11, <2>1 DEF InStore
    <2> QED
      BY <1>1, <1>3, <1>11, <2>2, <2>3, <2>4, <2>5 DEF InStore
  <1>25. Apart'
    <2>1. \A r \in Queued' : \E q \in Queued : q.last = r.last
      BY <1>5, <1>14, <1>19, <1>20
    <2> QED
      BY <1>1, <1>2, <1>15, <2>1 DEF Apart
  <1>26. Spaced'
    <2>1. ASSUME NEW r \in Reads' PROVE \E q \in Reads : q.last = r.last
      BY <1>16, <1>19, <1>20
    <2>2. ASSUME NEW r \in Reads'
          PROVE  /\ r.last - Spread <= lastBegin + OpenLag
                 /\ r.last - Spread < lastBegin => r.last <= lastBegin + OpenLag
                 /\ \A p \in Slots : Asked(p) => r.last - Spread < lastBegin
      <3>1. PICK q \in Reads : q.last = r.last
        BY <2>1
      <3> QED
        BY <1>2, <3>1 DEF Spaced
    <2>3. ASSUME NEW r \in Reads', NEW t \in Reads', r.last < t.last
          PROVE  /\ r.last - Spread < lastBegin
                 /\ t.last - Spread < lastBegin => r.last + Spread <= lastBegin + OpenLag
      <3>1. PICK q \in Reads : q.last = r.last
        BY <2>1
      <3>2. PICK w \in Reads : w.last = t.last
        BY <2>1
      <3>3. q.last < w.last
        BY <2>3, <3>1, <3>2
      <3>4. /\ q.last - Spread < lastBegin
            /\ w.last - Spread < lastBegin => q.last + Spread <= lastBegin + OpenLag
        BY <1>2, <3>3 DEF Spaced
      <3> QED
        BY <3>1, <3>2, <3>4
    <2>4. ASSUME NEW r \in Reads', NEW t \in Reads', NEW x \in Reads',
                 r.last < t.last, t.last < x.last
          PROVE  r.last + 2 * Spread <= x.last + OpenLag
      <3>1. PICK q \in Reads : q.last = r.last
        BY <2>1
      <3>2. PICK w \in Reads : w.last = t.last
        BY <2>1
      <3>3. PICK y \in Reads : y.last = x.last
        BY <2>1
      <3>4. q.last < w.last /\ w.last < y.last
        BY <2>4, <3>1, <3>2, <3>3
      <3>5. q.last + 2 * Spread <= y.last + OpenLag
        BY <1>2, <3>4 DEF Spaced
      <3> QED
        BY <3>1, <3>3, <3>5
    <2> QED
      BY <1>1, <1>15, <2>2, <2>3, <2>4 DEF Spaced
  <1>27. InTurn'
    <2> DEFINE t0 == FirstOf(lastPoll.time)
    <2>1. /\ \A r, t \in Reads : r.last < t.last => r.first <= t.first /\ r.generation <= t.generation
          /\ \A r, t \in Reads : r.last = t.last => r = t
          /\ \A r, t \in Reads : r.generation = t.generation => r.first <= t.last
          /\ \A r \in Reads : /\ r.first <= t0
                              /\ r.generation = lastPoll.generation => t0 <= r.last
                              /\ \A p \in Slots : Asked(p) => r.first <= FirstLine(p)
      BY <1>2 DEF InTurn
    <2> HIDE DEF t0
    <2>2. /\ L.first \in Nat /\ L.last \in Nat /\ L.first <= L.last /\ L.generation = g
          /\ \A t \in Others : /\ t.first \in Nat /\ t.last \in Nat /\ t.first <= t.last
                               /\ t.generation \in Nat
      BY <1>7, <1>8, <1>10, <1>16
    <2>3. /\ L.first <= t0 /\ (g = lastPoll.generation => t0 <= L.last)
          /\ \A p \in Slots : Asked(p) => L.first <= FirstLine(p)
      BY <1>18, <1>19, <1>20, <2>1
    <2>4. \A t \in Others : ~(t.last < L.last) /\ t.last # L.last
      BY <1>21, <2>2
    <2>5. \A t \in Others : t.generation = g => t.first <= L.last
      BY <1>16, <1>19, <1>20, <2>1
    <2>6. \A t \in Others : L.first <= t.last
      BY <1>21, <2>2
    <2>7. ~(L.last < L.last)
      BY <2>2
    <2>8. \A r, t \in Others \cup {L} :
            r.last < t.last => r.first <= t.first /\ r.generation <= t.generation
      BY <1>16, <1>21, <2>1, <2>2, <2>4, <2>7
    <2>9. \A r, t \in Others \cup {L} : r.last = t.last => r = t
      BY <1>16, <2>1, <2>4
    <2>10. \A r, t \in Others \cup {L} : r.generation = t.generation => r.first <= t.last
      BY <1>16, <2>1, <2>2, <2>5, <2>6
    <2>11. \A r \in Others \cup {L} :
             /\ r.first <= t0
             /\ r.generation = lastPoll.generation => t0 <= r.last
             /\ \A p \in Slots : Asked(p) => r.first <= FirstLine(p)
      BY <1>16, <2>1, <2>2, <2>3
    <2> QED
      BY <1>1, <1>15, <1>16, <2>8, <2>9, <2>10, <2>11 DEF InTurn, t0
  <1>28. Known'
    <2>1. \A r \in Queued : \E q \in Queued' : r.last <= q.last
      <3>1. \A r \in F : r.last <= L.last
        BY <1>7
      <3>2. \A r \in Rest : r.last <= r.last
        BY <1>8, <1>9
      <3> QED
        BY <1>5, <1>14, <3>1, <3>2
    <2>2. ASSUME NEW t \in Nat, t = 0 \/ \E r \in Queued : t <= r.last
          PROVE  t = 0 \/ \E r \in Queued' : t <= r.last
      <3>1. CASE t # 0
        <4>1. PICK r \in Queued : t <= r.last
          BY <2>2, <3>1
        <4>2. PICK q \in Queued' : r.last <= q.last
          BY <2>1
        <4>3. r.last \in Nat /\ q.last \in Nat
          BY <1>5, <1>8, <1>9, <1>10, <1>14
        <4> QED
          BY <4>1, <4>2, <4>3
      <3> QED
        BY <3>1
    <2>3. /\ lastPoll.time \in Nat
          /\ \A p \in Slots : polls[p].since \in Nat /\ polls[p].start \in Nat
      BY <1>2 DEF Clocks, PollTimes, PollRecord
    <2>4. /\ lastPoll.time = 0 \/ \E r \in Queued : lastPoll.time <= r.last
          /\ \A p \in Slots :
               /\ Asked(p) => polls[p].since = 0 \/ \E r \in Queued : polls[p].since <= r.last
               /\ polls[p].at = "updating" =>
                    polls[p].start = 0 \/ \E r \in Queued : polls[p].start <= r.last
      BY <1>2 DEF Known, Reached
    <2>5. /\ lastPoll.time = 0 \/ \E r \in Queued' : lastPoll.time <= r.last
          /\ \A p \in Slots :
               /\ Asked(p) => polls[p].since = 0 \/ \E r \in Queued' : polls[p].since <= r.last
               /\ polls[p].at = "updating" =>
                    polls[p].start = 0 \/ \E r \in Queued' : polls[p].start <= r.last
      BY <2>2, <2>3, <2>4
    <2> QED
      BY <1>1, <1>15, <2>5 DEF Known, Reached
  <1>29. processor' = "queueing" /\ processor \notin Flushed /\ processor' \notin Flushed
    BY <1>1, <1>7 DEF Flushed
  <1>30. Written' = Log(1, L.first - 1) /\ Done' = L.first - 1
    <2>1. file \in Lines /\ lines \in Lines /\ out = <<>>
      BY <1>1, <1>2 DEF Shapes, Emptied
    <2>2. file \o lines \in Lines /\ (file \o lines) \o <<>> = file \o lines
      BY <2>1, ConcatProperties, ConcatEmptySeq DEF Lines
    <2>3. file \o lines = Log(1, Done)
      BY <1>2, <2>1, <2>2 DEF Content, Written
    <2>4. Written' = Log(1, Done) \o Log(Done + 1, L.first - 1)
      BY <1>1, <1>10, <2>3 DEF Written
    <2> DEFINE m == Done + 1
               q == L.first - 1
    <2>5. m \in Nat /\ q \in Int /\ 1 <= m /\ m <= q + 1 /\ m - 1 = Done
      BY <1>10
    <2> HIDE DEF m, q
    <2>6. Log(1, m - 1) \o Log(m, q) = Log(1, q)
      BY <2>5, LogSplits
    <2>7. Written' = Log(1, q)
      BY <2>4, <2>5, <2>6 DEF m, q
    <2>8. Len(Log(1, q)) = q
      <3>1. q \in Int /\ 1 <= q + 1 /\ q - 1 + 1 = q
        BY <1>10, <2>5
      <3> QED
        BY <3>1, LogIs
    <2> QED
      BY <2>7, <2>8 DEF Done, q
  <1>31. Linked'
    <2>1. /\ FirstOf(lastPoll.time) > L.first - 1
          /\ \A p \in Slots : Asked(p) => FirstLine(p) > L.first - 1
      <3>1. /\ L.first <= FirstOf(lastPoll.time)
            /\ \A p \in Slots : Asked(p) => L.first <= FirstLine(p)
        BY <1>2, <1>18, <1>20 DEF InTurn
      <3>2. /\ FirstOf(lastPoll.time) \in Nat /\ \A p \in Slots : FirstLine(p) \in Nat
        <4>1. lastPoll.time \in Nat
          BY <1>2 DEF Clocks
        <4> QED
          BY <1>2, <4>1, FirstOfIs, ReadsAre
      <3> QED
        BY <1>10, <3>1, <3>2
    <2>2. ASSUME NEW r \in Others
          PROVE  /\ r.first > L.first - 1
                 /\ r.first = L.first \/ \E t \in Queued' : t.last < r.last /\ r.first <= t.last
      <3>1. /\ r.first \in Nat /\ r.last \in Nat /\ L.first <= r.first /\ L.last < r.last
            /\ r \in Reads
        BY <1>8, <1>16, <1>21
      <3>2. r.first = Done + 1 \/ \E t \in Queued : t.last < r.last /\ r.first <= t.last
        BY <1>2, <1>29, <3>1 DEF Linked
      <3>3. CASE r.first = Done + 1
        BY <1>10, <3>1, <3>3
      <3>4. CASE r.first # Done + 1
        <4>1. PICK t \in Queued : t.last < r.last /\ r.first <= t.last
          BY <3>2, <3>4
        <4>2. CASE t \in Rest
          BY <1>10, <1>14, <3>1, <4>1, <4>2
        <4>3. CASE t \in F
          <5>1. t.last <= L.last /\ t.last \in Nat
            BY <1>7, <1>8, <1>9, <4>3
          <5>2. r.first <= L.last /\ L.last < r.last
            BY <1>10, <3>1, <4>1, <5>1
          <5> QED
            BY <1>10, <1>14, <3>1, <5>2
        <4> QED
          BY <1>5, <4>2, <4>3
      <3> QED
        BY <3>3, <3>4
    <2>3. Done' + 1 = L.first /\ L.first > Done'
      BY <1>10, <1>30
    <2>4. \A r \in Reads' :
            /\ r.first > Done'
            /\ r.first = Done' + 1 \/ \E t \in Queued' : t.last < r.last /\ r.first <= t.last
      BY <1>16, <1>30, <2>2, <2>3
    <2> QED
      BY <1>1, <1>15, <1>30, <2>1, <2>4 DEF Linked
  <1>32. Content'
    <2> DEFINE U == UNION {r.first .. r.last : r \in Rest}
    <2>1. collected = (1 .. Done) \cup UNION {r.first .. r.last : r \in Queued}
      BY <1>2, <1>29 DEF Content
    <2>2. UNION {r.first .. r.last : r \in Queued} = ((Done + 1) .. L.last) \cup U
      <3>1. UNION {r.first .. r.last : r \in Queued}
              = (UNION {r.first .. r.last : r \in F}) \cup U
        BY <1>5
      <3> QED
        BY <1>10, <3>1
    <2>3. UNION {r.first .. r.last : r \in Queued'} = (L.first .. L.last) \cup U
      BY <1>14
    <2>4. (1 .. Done) \cup ((Done + 1) .. L.last)
            = (1 .. L.first - 1) \cup (L.first .. L.last)
      BY <1>10
    <2> HIDE DEF U
    <2>5. collected = (1 .. L.first - 1) \cup UNION {r.first .. r.last : r \in Queued'}
      BY <2>1, <2>2, <2>3, <2>4
    <2> QED
      BY <1>1, <1>29, <1>30, <2>5 DEF Content
  <1>33. Emptied'
    BY <1>29 DEF Emptied
  <1>34. Begun'
    BY <1>1, <1>13 DEF Begun
  <1> QED
    BY <1>22, <1>23, <1>24, <1>25, <1>26, <1>27, <1>28, <1>29, <1>31, <1>32, <1>33, <1>34
       DEF LogInv, Reading, Writing

\* At the end everything queued is written, and no poll is at work any more.
LEMMA FlushAllKeeps ==
  ASSUME LogInv, IInv, FlushAll
  PROVE  LogInv' /\ processor' # "panicked"
  <1> DEFINE G == DOMAIN store
             d == flush(G)
             w == d.result.lines \o d.last.lines
  <1>1. /\ UNCHANGED <<now, lastBegin, polls, lastPoll, collected, slices, store, latest, oldest,
                       lines, file>>
        /\ processor = "draining" /\ slices = <<>>
        /\ IF G = {} THEN processor' = "lastQueueing" /\ out' = <<>>
           ELSE processor' = (IF d.ok THEN "lastQueueing" ELSE "panicked") /\ out' = w
    BY DEF FlushAll, pollVars, genVars, writeVars
  <1>2. /\ Clocks /\ Shapes /\ PollTimes /\ InStore /\ Apart /\ Spaced /\ InTurn /\ Known
        /\ Emptied /\ Linked /\ Content
    BY DEF LogInv, Reading, Writing
  <1>3. processor \notin Flushed /\ out = <<>> /\ Done \in Nat
    BY <1>1, <1>2, WrittenIs DEF Flushed, Emptied
  <1>4. /\ file \o lines = Log(1, Done) /\ Written = Log(1, Done)
    <2>1. file \in Lines /\ lines \in Lines
      BY <1>2 DEF Shapes
    <2>2. file \o lines \in Lines /\ (file \o lines) \o <<>> = file \o lines
      BY <2>1, ConcatProperties, ConcatEmptySeq DEF Lines
    <2> QED
      BY <1>2, <1>3, <2>2 DEF Content, Written
  <1>5. Queued = ReadsOf(G)
    <2>1. {OfSlice(slices[i]) : i \in 1 .. Len(slices)} = {}
      BY <1>1
    <2> QED
      BY <2>1 DEF Queued, Stored, ReadsOf
  <1>6. collected = (1 .. Done) \cup UNION {r.first .. r.last : r \in ReadsOf(G)}
    BY <1>2, <1>3, <1>5 DEF Content
  <1>7. /\ processor' = "lastQueueing" /\ out' \in Lines
        /\ Written' = Log(1, Done') /\ collected = 1 .. Done'
    <2>1. CASE G = {}
      <3>1. out' = <<>> /\ processor' = "lastQueueing" /\ <<>> \in Lines
        BY <1>1, <2>1 DEF Lines
      <3>2. Written' = Written
        BY <1>1, <1>3, <3>1 DEF Written
      <3>3. Done' = Done
        BY <3>2 DEF Done
      <3>4. ReadsOf(G) = {}
        BY <2>1 DEF ReadsOf
      <3>5. collected = 1 .. Done
        BY <1>6, <3>4
      <3> QED
        BY <1>4, <3>1, <3>2, <3>3, <3>5
    <2>2. CASE G # {}
      <3> DEFINE e == d
                 b == endOf(e.last)
                 x == e.result.lines \o e.last.lines
      <3>1. e = flush(G) /\ G \in SUBSET DOMAIN store
        OBVIOUS
      <3>2. \A r \in Queued, s \in ReadsOf(G) : r.last < s.last => r \in ReadsOf(G)
        BY <1>5
      <3>3. processor' = (IF e.ok THEN "lastQueueing" ELSE "panicked") /\ out' = x
        BY <1>1, <2>2
      <3> HIDE DEF e, G
      <3>4. FlushedTo(e, G)
        BY <2>2, <3>1, FlushMerges
      <3>5. /\ Done < startOf(e.last) /\ startOf(e.last) <= endOf(e.last)
            /\ startOf(e.last) \in Nat /\ b \in Nat
            /\ x = Log(Done + 1, b)
            /\ UNION {r.first .. r.last : r \in ReadsOf(G)} = (Done + 1) .. b
        BY <1>3, <2>2, <3>1, <3>2, FlushFollows
      <3>6. e.ok
        BY <3>4 DEF FlushedTo
      <3> HIDE DEF x, b
      <3> DEFINE m == Done + 1
      <3>7. m \in Nat /\ b \in Int /\ 1 <= m /\ m <= b + 1 /\ m - 1 = Done
        BY <1>3, <3>5 DEF b
      <3>8. x \in Lines
        BY <3>5, <3>7, LogIs
      <3>9. Written' = Log(1, Done) \o Log(m, b)
        BY <1>1, <1>4, <3>3, <3>5 DEF Written
      <3>10. (1 .. Done) \cup ((Done + 1) .. b) = 1 .. b
        BY <1>3, <3>7
      <3> HIDE DEF m
      <3>11. Log(1, m - 1) \o Log(m, b) = Log(1, b)
        BY <3>7, LogSplits
      <3>12. Written' = Log(1, b)
        BY <3>7, <3>9, <3>11
      <3>13. Len(Log(1, b)) = b
        <4>1. b \in Int /\ 1 <= b + 1 /\ b - 1 + 1 = b
          BY <3>5, <3>7
        <4> QED
          BY <4>1, LogIs
      <3>14. Done' = b
        BY <3>12, <3>13 DEF Done
      <3>15. collected = 1 .. b
        BY <1>6, <3>5, <3>10
      <3> QED
        BY <3>3, <3>6, <3>8, <3>12, <3>14, <3>15
    <2> QED
      BY <2>1, <2>2
  <1>8. /\ Queued' = Queued /\ Reads' = Reads
        /\ \A p \in Slots : /\ (Open(p) <=> Open(p)') /\ (Asked(p) <=> Asked(p)')
                            /\ FirstLine(p)' = FirstLine(p) /\ LastLine(p)' = LastLine(p)
    BY <1>1, SameReads
  <1>9. Clocks' /\ Shapes' /\ PollTimes'
    BY <1>1, <1>2, <1>7, <1>8 DEF Clocks, Shapes, PollTimes, Whole, Asked
  <1>10. InStore' /\ Apart'
    BY <1>1, <1>2, <1>8 DEF InStore, Apart
  <1>11. Spaced' /\ InTurn'
    BY <1>1, <1>2, <1>8 DEF Spaced, InTurn
  <1>12. Known'
    BY <1>1, <1>2, <1>8 DEF Known, Reached
  <1>13. Writing'
    BY <1>1, <1>7 DEF Writing, Emptied, Linked, Content, Flushed
  <1> QED
    BY <1>7, <1>9, <1>10, <1>11, <1>12, <1>13 DEF LogInv, Reading
-----------------------------------------------------------------------------
\* What goes to the file while nothing breaks off.
WrittenInv == LogInv /\ Begun /\ processor # "panicked"

LEMMA PollKeeps ==
  ASSUME WrittenInv, IInv, Timely, NEW p \in Slots, Poll(p)
  PROVE  WrittenInv'
  <1>1. LogInv'
    BY BeginPollKeeps, OpenStreamKeeps, ReadStreamKeeps, QueueSliceKeeps, SetLastPollKeeps
       DEF WrittenInv, Poll, BreakStream, Timely
  <1>2. UNCHANGED <<processor, store, oldest>>
    BY DEF Poll, BeginPoll, OpenStream, ReadStream, BreakStream, QueueSlice, SetLastPoll, genVars
  <1> SUFFICES Begun'
    BY <1>1, <1>2 DEF WrittenInv
  <1>3. /\ Clocks /\ Shapes /\ PollTimes /\ InStore /\ Known
    BY DEF WrittenInv, LogInv, Reading
  <1>4. CASE UNCHANGED <<slices, lastPoll>>
    BY <1>2, <1>4 DEF WrittenInv, Begun
  <1>5. CASE QueueSlice(p)
    <2> DEFINE s == Slice(polls[p].lines, polls[p].generation)
    <2>1. /\ slices' = Append(slices, s) /\ UNCHANGED lastPoll /\ polls[p].at = "queueing"
      BY <1>5 DEF QueueSlice
    <2>2. slices \in Seq(LineSlice)
      BY <1>3 DEF Shapes
    <2>3. polls[p] \in PollRecord /\ polls[p].generation <= lastPoll.generation
      BY <1>3, <2>1 DEF PollTimes
    <2>4. OfPoll(p) \in Reads /\ OfPoll(p).generation = polls[p].generation
      BY <2>1 DEF Reads, Pending, OfPoll, Open
    <2>5. oldest <= polls[p].generation
      BY <1>3, <2>4 DEF InStore
    <2>6. CASE slices = <<>>
      <3>1. slices'[1].generation = polls[p].generation /\ slices' # <<>>
        BY <2>1, <2>6 DEF Slice
      <3>2. DOMAIN store = {} => polls[p].generation = oldest
        <4>1. DOMAIN store = {} => lastPoll.generation = oldest
          BY <2>6 DEF WrittenInv, Begun
        <4>2. polls[p].generation \in Nat /\ lastPoll.generation \in Nat
          BY <1>3, <2>3 DEF PollRecord, Clocks
        <4> QED
          BY <2>3, <2>5, <4>1, <4>2
      <3> QED
        BY <1>2, <2>1, <3>1, <3>2 DEF WrittenInv, Begun
    <2>7. CASE slices # <<>>
      <3>1. Len(slices) \in Nat /\ 1 \in 1 .. Len(slices)
        BY <2>2, <2>7, LenProperties, EmptySeq
      <3>2. s \in LineSlice
        BY <2>3 DEF PollRecord, LineSlice, Slice
      <3>3. slices'[1] = slices[1] /\ Len(slices') = Len(slices) + 1
        BY <2>1, <2>2, <3>1, <3>2, AppendProperties
      <3>4. slices' # <<>>
        BY <3>1, <3>3
      <3> QED
        BY <1>2, <2>1, <2>7, <3>3, <3>4 DEF WrittenInv, Begun
    <2> QED
      BY <2>6, <2>7
  <1>6. CASE SetLastPoll(p)
    <2>1. UNCHANGED slices /\ polls[p].at = "updating"
      BY <1>6 DEF SetLastPoll
    <2>2. lastPoll' = lastPoll \/ polls[p].start > lastPoll.time
      BY <1>6 DEF SetLastPoll
    <2>3. CASE DOMAIN store = {} /\ slices = <<>>
      <3>1. Queued = {}
        BY <2>3 DEF Queued, Stored
      <3>2. polls[p].start = 0
        BY <1>3, <2>1, <3>1 DEF Known, Reached
      <3>3. lastPoll.time \in Nat
        BY <1>3 DEF Clocks
      <3> QED
        BY <1>4, <2>1, <2>2, <3>2, <3>3
    <2>4. CASE ~(DOMAIN store = {} /\ slices = <<>>)
      BY <1>2, <2>1, <2>4 DEF WrittenInv, Begun
    <2> QED
      BY <2>3, <2>4
  <1>7. \/ QueueSlice(p) \/ SetLastPoll(p) \/ UNCHANGED <<slices, lastPoll>>
    BY DEF Poll, BeginPoll, OpenStream, ReadStream, BreakStream
  <1> QED
    BY <1>4, <1>5, <1>6, <1>7

\* Where the goroutines are does not matter to it.
LEMMA ControlKeepsWritten ==
  ASSUME WrittenInv, Emptied', processor' \in Flushed <=> processor \in Flushed,
         processor' # "panicked",
         UNCHANGED <<now, lastBegin, polls, lastPoll, collected, slices, store, latest, oldest,
                     out, lines, file>>
  PROVE  WrittenInv'
  BY ControlKeeps DEF WrittenInv, Begun

LEMMA ProcessorKeeps == ASSUME WrittenInv, IInv, Timely, Processor PROVE WrittenInv'
  <1>1. LogInv /\ Begun /\ processor # "panicked" /\ Emptied /\ Shapes
    BY DEF WrittenInv, LogInv, Writing, Reading
  <1>2. CASE StartProcessor
    <2>1. /\ UNCHANGED <<now, lastBegin, polls, lastPoll, collected, slices, store, latest,
                         oldest, out, lines, file>>
          /\ processor = "spawned" /\ processor' = "select"
      BY <1>2 DEF StartProcessor, pollVars, genVars, writeVars
    <2>2. Emptied'
      BY <1>1, <2>1 DEF Emptied
    <2> QED
      BY <2>1, <2>2, ControlKeepsWritten DEF Flushed
  <1>3. CASE TakeSlice
    <2>1. LogInv'
      BY <1>1, <1>3, TakeSliceKeeps
    <2>2. /\ slices # <<>> /\ processor' = processor /\ oldest' = oldest
          /\ DOMAIN store' = DOMAIN store \cup {Head(slices).generation}
      BY <1>3 DEF TakeSlice, AddSlice
    <2>3. Head(slices) = slices[1]
      BY <1>1, <2>2, HeadTailProperties DEF Shapes
    <2>4. Begun'
      BY <1>1, <2>2, <2>3 DEF Begun
    <2> QED
      BY <1>1, <2>1, <2>2, <2>4 DEF WrittenInv
  <1>4. CASE Flush
    BY <1>1, <1>4, FlushKeeps DEF WrittenInv
  <1>5. CASE QueueLine
    BY <1>1, <1>5, QueueLineKeeps DEF WrittenInv, QueueLine, Begun, pollVars, genVars
  <1>6. CASE LinesQueued
    <2>1. /\ UNCHANGED <<now, lastBegin, polls, lastPoll, collected, slices, store, latest,
                         oldest, out, lines, file>>
          /\ processor = "queueing" /\ processor' = "select" /\ out = <<>>
      BY <1>6 DEF LinesQueued, pollVars, genVars, writeVars
    <2>2. Emptied'
      BY <2>1 DEF Emptied
    <2> QED
      BY <2>1, <2>2, ControlKeepsWritten DEF Flushed
  <1>7. CASE TakeSliceQuit
    <2>1. /\ UNCHANGED <<now, lastBegin, polls, lastPoll, collected, slices, store, latest,
                         oldest, out, lines, file>>
          /\ processor = "select" /\ processor' = "draining"
      BY <1>7 DEF TakeSliceQuit, pollVars, genVars, writeVars
    <2>2. Emptied'
      BY <1>1, <2>1 DEF Emptied
    <2> QED
      BY <2>1, <2>2, ControlKeepsWritten DEF Flushed
  <1>8. CASE FlushAll
    <2>1. LogInv' /\ processor' # "panicked"
      BY <1>1, <1>8, FlushAllKeeps
    <2>2. UNCHANGED <<store, slices, oldest, lastPoll>>
      BY <1>8 DEF FlushAll, genVars, pollVars
    <2> QED
      BY <1>1, <2>1, <2>2 DEF WrittenInv, Begun
  <1>9. CASE SignalWriter
    <2>1. /\ UNCHANGED <<now, lastBegin, polls, lastPoll, collected, slices, store, latest,
                         oldest, out, lines, file>>
          /\ processor = "lastQueueing" /\ processor' = "done" /\ out = <<>>
      BY <1>9 DEF SignalWriter, pollVars, genVars
    <2>2. Emptied'
      BY <2>1 DEF Emptied
    <2> QED
      BY <2>1, <2>2, ControlKeepsWritten DEF Flushed
  <1> QED
    BY <1>2, <1>3, <1>4, <1>5, <1>6, <1>7, <1>8, <1>9 DEF Processor

LEMMA NextKeepsWritten == WrittenInv /\ IInv /\ Timely /\ [Next]_vars => WrittenInv'
  <1> SUFFICES ASSUME WrittenInv, IInv, Timely, [Next]_vars PROVE WrittenInv'
    OBVIOUS
  <1>1. LogInv /\ Begun /\ processor # "panicked" /\ Emptied
    BY DEF WrittenInv, LogInv, Writing
  <1>2. CASE Tick
    <2>1. LogInv'
      BY <1>1, <1>2, TickKeeps
    <2>2. UNCHANGED <<store, slices, oldest, lastPoll, processor>>
      BY <1>2 DEF Tick, genVars
    <2> QED
      BY <1>1, <2>1, <2>2 DEF WrittenInv, Begun
  <1>3. CASE WriteLine
    <2>1. LogInv'
      BY <1>1, <1>3, WriteLineKeeps
    <2>2. UNCHANGED <<store, slices, oldest, lastPoll, processor>>
      BY <1>3 DEF WriteLine, genVars, pollVars
    <2> QED
      BY <1>1, <2>1, <2>2 DEF WrittenInv, Begun
  <1>4. CASE StartWriter \/ WriterDone \/ Dumper \/ CleanUp \/ UNCHANGED vars
    <2>1. UNCHANGED <<now, lastBegin, polls, lastPoll, collected, slices, store, latest, oldest,
                      out, lines, file, processor>>
      <3>1. CASE StartWriter
        BY <3>1 DEF StartWriter, pollVars, genVars
      <3>2. CASE WriterDone
        BY <3>2 DEF WriterDone, pollVars, genVars
      <3>3. CASE Dumper
        BY <3>3 DEF Dumper, DumpSlice, DumperDone, pollVars, genVars, writeVars
      <3>4. CASE CleanUp
        BY <3>4 DEF CleanUp, BeginCleanUp, AwaitGoroutines, StopDumper, CleanUpDone, pollVars,
                    genVars, writeVars
      <3>5. CASE UNCHANGED vars
        BY <3>5 DEF vars, pollVars, genVars, writeVars
      <3> QED
        BY <1>4, <3>1, <3>2, <3>3, <3>4, <3>5
    <2>2. Emptied'
      BY <1>1, <2>1 DEF Emptied
    <2> QED
      BY <1>1, <2>1, <2>2, ControlKeepsWritten
  <1> QED
    BY <1>2, <1>3, <1>4, PollKeeps, ProcessorKeeps DEF Next, Writer, Sleep, Ended

LEMMA WrittenInductive == ASSUME Timely PROVE Spec => []WrittenInv
  <1>1. Init => WrittenInv
    <2>1. Init => Begun /\ processor # "panicked"
      BY DEF Init, Begun
    <2> QED
      BY <2>1, InitLogInv DEF WrittenInv
  <1>2. WrittenInv /\ IInv /\ [Next]_vars => WrittenInv'
    BY NextKeepsWritten
  <1> QED
    BY <1>1, <1>2, Inductive, PTL DEF Spec

\* The file holds the first lines of the log.
LEMMA FileIs ==
  ASSUME WrittenInv
  PROVE  file \in Lines /\ Len(file) \in Nat /\ \A i \in 1 .. Len(file) : file[i] = i
  <1>1. Shapes /\ Written = Log(1, Done)
    BY DEF WrittenInv, LogInv, Reading, Writing, Content
  <1>2. file \in Seq(Nat) /\ lines \in Seq(Nat) /\ out \in Seq(Nat) /\ Done \in Nat
    BY <1>1, WrittenIs DEF Shapes, Lines
  <1> DEFINE n == Len(file)
             m == Len(file \o lines)
  <1>3. /\ file \o lines \in Seq(Nat) /\ n \in Nat /\ Len(lines) \in Nat /\ m = n + Len(lines)
        /\ \A i \in 1 .. n + Len(lines) : (file \o lines)[i] = IF i <= n THEN file[i] ELSE lines[i - n]
    BY <1>2, ConcatProperties, LenProperties
  <1>4. /\ Done = m + Len(out) /\ Len(out) \in Nat
        /\ \A i \in 1 .. m + Len(out) : Written[i] = IF i <= m THEN (file \o lines)[i] ELSE out[i - m]
    BY <1>2, <1>3, ConcatProperties, LenProperties DEF Written, Done
  <1>5. \A i \in 1 .. Done : Log(1, Done)[i] = i
    BY <1>2 DEF Log
  <1> HIDE DEF n, m
  <1>6. ASSUME NEW i \in 1 .. n PROVE file[i] = i
    <2>1. /\ i \in 1 .. n + Len(lines) /\ i <= n /\ i <= m
          /\ i \in 1 .. m + Len(out) /\ i \in 1 .. Done
      BY <1>3, <1>4
    <2> QED
      BY <1>1, <1>3, <1>4, <1>5, <2>1
  <1> QED
    BY <1>2, <1>3, <1>6 DEF n, Lines
-----------------------------------------------------------------------------
\* Every line is written once and in the order of the log, for any number of polls that
\* overlap and any sizes of the channels (log_follower.go:41-42).
THEOREM LinesInOrder == ASSUME Timely PROVE Spec => []FileInOrder
  <1>1. WrittenInv => FileInOrder
    <2> SUFFICES ASSUME WrittenInv, NEW i \in 1 .. Len(file) - 1 PROVE file[i] < file[i + 1]
      BY DEF FileInOrder
    <2>1. Len(file) \in Nat /\ \A j \in 1 .. Len(file) : file[j] = j
      BY FileIs
    <2>2. i \in 1 .. Len(file) /\ i + 1 \in 1 .. Len(file) /\ i < i + 1
      BY <2>1
    <2> QED
      BY <2>1, <2>2
  <1> QED
    BY <1>1, WrittenInductive, PTL

\* No line of the log is missing between those written.
THEOREM LinesWithoutGap == ASSUME Timely PROVE Spec => []NoGap
  <1>1. WrittenInv => NoGap
    <2> SUFFICES ASSUME WrittenInv, file # <<>> PROVE Last(file) - Head(file) = Len(file) - 1
      BY DEF NoGap
    <2>1. file \in Lines /\ Len(file) \in Nat /\ \A j \in 1 .. Len(file) : file[j] = j
      BY FileIs
    <2>2. Len(file) # 0
      BY <2>1, EmptySeq DEF Lines
    <2>3. 1 \in 1 .. Len(file) /\ Len(file) \in 1 .. Len(file)
      BY <2>1, <2>2
    <2>4. Head(file) = file[1] /\ Last(file) = file[Len(file)]
      BY <2>1, HeadTailProperties DEF Lines, Last
    <2> QED
      BY <2>1, <2>3, <2>4
  <1> QED
    BY <1>1, WrittenInductive, PTL

\* When CleanUp has returned, every line a poll collected is in the file, and no other.
THEOREM CollectedIsWritten == ASSUME Timely PROVE Spec => []NothingLost
  <1>1. WrittenInv /\ IInv => NothingLost
    <2> SUFFICES ASSUME WrittenInv, IInv, cleanUp = "done" PROVE ToSet(file) = collected
      BY DEF NothingLost
    <2>1. processor = "done" /\ out = <<>> /\ lines = <<>>
      BY DEF IInv, Stopping
    <2>2. collected = 1 .. Done
      BY <2>1 DEF WrittenInv, LogInv, Writing, Content, Flushed
    <2>3. file \in Lines /\ Len(file) \in Nat /\ \A j \in 1 .. Len(file) : file[j] = j
      BY FileIs
    <2>4. Written = file
      BY <2>1, <2>3, ConcatEmptySeq DEF Written, Lines
    <2>5. Done = Len(file)
      BY <2>4 DEF Done
    <2>6. DOMAIN file = 1 .. Len(file)
      BY <2>3, LenProperties DEF Lines
    <2> QED
      BY <2>2, <2>3, <2>5, <2>6 DEF ToSet
  <1> QED
    BY <1>1, WrittenInductive, Inductive, PTL

\* No slice is queued for a generation that has been written.
THEOREM SlicesInTime == ASSUME Timely PROVE Spec => []NoLateSlice
  <1>1. WrittenInv => NoLateSlice
    <2> SUFFICES ASSUME WrittenInv, NEW i \in 1 .. Len(slices)
                 PROVE  slices[i].generation >= oldest
      BY DEF NoLateSlice
    <2>1. Clocks /\ Shapes /\ PollTimes /\ InStore
      BY DEF WrittenInv, LogInv, Reading
    <2>2. OfSlice(slices[i]) \in Reads
      BY DEF Reads, Queued
    <2>3. oldest <= slices[i].generation
      BY <2>1, <2>2 DEF InStore, OfSlice
    <2>4. oldest \in Nat /\ slices[i].generation \in Nat
      BY <2>1, <2>2, ReadsAre DEF InStore, OfSlice
    <2> QED
      BY <2>3, <2>4
  <1> QED
    BY <1>1, WrittenInductive, PTL

\* No flush indexes a slice out of range, nor finds no generation to flush.
THEOREM FlushesSucceed == ASSUME Timely PROVE Spec => []NeverPanics
  <1>1. WrittenInv => NeverPanics
    BY DEF WrittenInv, NeverPanics
  <1> QED
    BY <1>1, WrittenInductive, PTL
-----------------------------------------------------------------------------
(***************************************************************************)
(* Types and the room in the channels                                      *)
(***************************************************************************)
Room ==
  /\ collected \subseteq 1 .. MaxTime
  /\ Len(slices) <= LineSliceChanLength
  /\ Len(lines) <= LineChanLength
  /\ toDump \in 0 .. DumpChannelSize
  /\ dumpFiles \in Nat

LEMMA NextKeepsRoom == Room /\ WrittenInv /\ Timely /\ [Next]_vars => Room'
  <1> SUFFICES ASSUME Room, WrittenInv, Timely, [Next]_vars PROVE Room'
    OBVIOUS
  <1>1. /\ Clocks /\ PollTimes /\ slices \in Seq(LineSlice) /\ lines \in Seq(Nat)
    BY DEF WrittenInv, LogInv, Reading, Shapes, Lines
  <1>2. /\ LineSliceChanLength \in Nat /\ LineChanLength \in Nat /\ DumpChannelSize \in Nat
    BY LogsAssumption DEF LogsAssumption
  <1>3. CASE UNCHANGED <<collected, slices, lines, toDump, dumpFiles>>
    BY <1>3 DEF Room
  <1>4. ASSUME NEW p \in Slots, QueueSlice(p) PROVE Room'
    <2>1. /\ UNCHANGED <<lines, toDump, dumpFiles>> /\ polls[p].at = "queueing"
          /\ Len(slices) < LineSliceChanLength
          /\ slices' = Append(slices, Slice(polls[p].lines, polls[p].generation))
          /\ collected' = collected \cup ToSet(polls[p].lines)
      BY <1>4 DEF QueueSlice, writeVars, dumpVars
    <2>2. polls[p] \in PollRecord
      BY <1>1 DEF PollTimes
    <2>3. Slice(polls[p].lines, polls[p].generation) \in LineSlice
      BY <2>2 DEF Slice, LineSlice, PollRecord
    <2>4. Len(slices') = Len(slices) + 1 /\ Len(slices) \in Nat
      BY <1>1, <2>1, <2>3, AppendProperties, LenProperties
    <2>5. /\ polls[p].lines = Log(FirstLine(p), LastLine(p)) /\ LastLine(p) <= now
          /\ polls[p].since <= polls[p].start
      BY <1>1, <2>1 DEF PollTimes
    <2>6. polls[p].since \in Nat /\ polls[p].start \in Nat
      BY <2>2 DEF PollRecord
    <2>7. /\ LastLine(p) \in Int /\ FirstLine(p) \in Nat /\ FirstLine(p) >= 1
          /\ FirstLine(p) <= LastLine(p) + 1
      BY <2>5, <2>6, Constants DEF LastLine, FirstLine
    <2>8. now \in Nat /\ now <= MaxTime /\ MaxTime \in Nat
      BY <1>1, Constants DEF Clocks
    <2>9. ToSet(polls[p].lines) = FirstLine(p) .. LastLine(p)
      BY <2>5, <2>7, LogIs
    <2>10. FirstLine(p) .. LastLine(p) \subseteq 1 .. MaxTime
      BY <2>5, <2>7, <2>8
    <2>11. collected' \subseteq 1 .. MaxTime
      BY <2>1, <2>9, <2>10 DEF Room
    <2>12. Len(slices') <= LineSliceChanLength
      BY <1>2, <2>1, <2>4
    <2> QED
      BY <2>1, <2>11, <2>12 DEF Room
  <1>5. CASE TakeSlice
    <2>1. /\ UNCHANGED <<collected, lines, dumpFiles>> /\ slices # <<>>
          /\ slices' = Tail(slices) /\ toDump < DumpChannelSize /\ toDump' = toDump + 1
      BY <1>5 DEF TakeSlice, AddSlice, pollVars, writeVars
    <2>2. Len(slices') = Len(slices) - 1 /\ Len(slices) \in Nat
      BY <1>1, <2>1, HeadTailProperties, LenProperties
    <2> QED
      BY <1>2, <2>1, <2>2 DEF Room
  <1>6. CASE QueueLine
    <2>1. /\ UNCHANGED <<collected, slices, toDump, dumpFiles>> /\ out # <<>>
          /\ Len(lines) < LineChanLength /\ lines' = Append(lines, Head(out))
      BY <1>6 DEF QueueLine, pollVars, dumpVars
    <2>2. out \in Seq(Nat)
      BY DEF WrittenInv, LogInv, Reading, Shapes, Lines
    <2>3. Head(out) \in Nat
      BY <2>1, <2>2, HeadTailProperties
    <2>4. Len(lines') = Len(lines) + 1 /\ Len(lines) \in Nat
      BY <1>1, <2>1, <2>3, AppendProperties, LenProperties
    <2> QED
      BY <1>2, <2>1, <2>4 DEF Room
  <1>7. CASE WriteLine
    <2>1. /\ UNCHANGED <<collected, slices, toDump, dumpFiles>> /\ lines # <<>>
          /\ lines' = Tail(lines)
      BY <1>7 DEF WriteLine, pollVars, dumpVars
    <2>2. Len(lines') = Len(lines) - 1 /\ Len(lines) \in Nat
      BY <1>1, <2>1, HeadTailProperties, LenProperties
    <2> QED
      BY <1>2, <2>1, <2>2 DEF Room
  <1>8. CASE DumpSlice
    BY <1>2, <1>8 DEF DumpSlice, Room, pollVars, writeVars
  <1>9. CASE CleanUpDone
    BY <1>9 DEF CleanUpDone, Room, pollVars, writeVars
  <1>10. ASSUME NEW p \in Slots, Poll(p) PROVE Room'
    <2>1. ~BreakStream(p)
      BY DEF BreakStream, Timely
    <2>2. CASE BeginPoll(p) \/ OpenStream(p) \/ ReadStream(p) \/ SetLastPoll(p)
      BY <1>3, <2>2 DEF BeginPoll, OpenStream, ReadStream, SetLastPoll, writeVars, dumpVars
    <2> QED
      BY <1>4, <1>10, <2>1, <2>2 DEF Poll
  <1>11. CASE StartProcessor \/ Flush \/ LinesQueued \/ TakeSliceQuit \/ FlushAll \/ SignalWriter
    BY <1>3, <1>11 DEF StartProcessor, Flush, LinesQueued, TakeSliceQuit, FlushAll, SignalWriter,
                       pollVars, writeVars, dumpVars
  <1>12. CASE Tick \/ StartWriter \/ WriterDone \/ DumperDone \/ UNCHANGED vars
    BY <1>3, <1>12 DEF Tick, StartWriter, WriterDone, DumperDone, vars, pollVars, writeVars, dumpVars
  <1>13. CASE BeginCleanUp \/ AwaitGoroutines \/ StopDumper
    BY <1>3, <1>13 DEF BeginCleanUp, AwaitGoroutines, StopDumper, pollVars, writeVars, dumpVars
  <1> QED
    BY <1>5, <1>6, <1>7, <1>8, <1>9, <1>10, <1>11, <1>12, <1>13
    DEF Next, Processor, Writer, Dumper, CleanUp, Sleep, Ended

LEMMA RoomInductive == ASSUME Timely PROVE Spec => []Room
  <1>1. Init => Room
    BY LogsAssumption DEF Init, Room, LogsAssumption
  <1>2. Room /\ WrittenInv /\ [Next]_vars => Room'
    BY NextKeepsRoom
  <1> QED
    BY <1>1, <1>2, WrittenInductive, PTL DEF Spec

\* The variables keep their types: no channel holds more than its room, the generation
\* does not wrap, and the store has no generation without a slice nor a slice without a
\* line, on which Generations.flush relies (lines.go:256-269).
THEOREM TypeCorrect == ASSUME Timely PROVE Spec => []TypeOK
  <1>1. Room /\ WrittenInv /\ IInv => TypeOK
    <2> SUFFICES ASSUME Room, WrittenInv, IInv PROVE TypeOK
      OBVIOUS
    <2>1. Clocks /\ Shapes /\ PollTimes /\ GroupCount
      BY DEF WrittenInv, LogInv, Reading, IInv
    <2>2. /\ now \in 1 .. MaxTime /\ lastBegin \in Int
          /\ lastPoll.time \in 0 .. MaxTime
          /\ lastPoll.generation \in 0 .. GenerationModulus - 1
      BY <2>1, Constants DEF Clocks
    <2>3. \A p \in Slots : polls[p].at \in {"idle", "request", "reading", "queueing", "updating"}
      BY <2>1 DEF PollTimes, PollRecord
    <2>4. ASSUME NEW g \in DOMAIN store
          PROVE  store[g] # <<>> /\ \A s \in ToSet(store[g]) : s.lines # <<>>
      <3>1. store[g] # <<>> /\ \A s \in ToSet(store[g]) : Unbroken(s)
        BY <2>1 DEF Shapes, Whole
      <3>2. ASSUME NEW s \in ToSet(store[g]) PROVE s.lines # <<>>
        <4>1. /\ startOf(s) \in Nat /\ endOf(s) \in Nat /\ startOf(s) <= endOf(s)
              /\ s.lines = Log(startOf(s), endOf(s))
          BY <3>1 DEF Unbroken
        <4> DEFINE a == startOf(s)
                   b == endOf(s)
        <4>2. a \in Nat /\ b \in Int /\ a <= b /\ a <= b + 1 /\ s.lines = Log(a, b)
          BY <4>1
        <4> HIDE DEF a, b
        <4> QED
          BY <4>2, LogIs
      <3> QED
        BY <3>1, <3>2
    <2>5. wg \in 0 .. 2
      BY <2>1 DEF GroupCount
    <2> QED
      BY <2>2, <2>3, <2>4, <2>5 DEF TypeOK, Room
  <1> QED
    BY <1>1, RoomInductive, WrittenInductive, Inductive, PTL
-----------------------------------------------------------------------------
(***************************************************************************)
(* The promise of LogWriter                                                *)
(***************************************************************************)

\* What was collected is the log up to a line, for no read begins beyond another one.
LEMMA CollectedIs ==
  ASSUME WrittenInv, Room
  PROVE  \E n \in 0 .. MaxTime :
           /\ collected = 1 .. n /\ Done \in Nat /\ Done <= n
           /\ processor \in Flushed => Done = n
  <1>1. Clocks /\ Shapes /\ PollTimes /\ Linked /\ Content
    BY DEF WrittenInv, LogInv, Reading, Writing
  <1>2. Done \in Nat /\ MaxTime \in Nat
    BY <1>1, WrittenIs, Constants
  <1>3. collected \subseteq 1 .. MaxTime /\ 1 .. Done \subseteq collected
    BY <1>1 DEF Room, Content
  <1>4. Done <= MaxTime
    <2>1. Done = 0 \/ Done \in 1 .. Done
      BY <1>2
    <2> QED
      BY <1>2, <1>3, <2>1
  <1>5. CASE processor \in Flushed
    BY <1>1, <1>2, <1>4, <1>5 DEF Content
  <1>6. CASE processor \notin Flushed
    <2> DEFINE E == {n \in 0 .. MaxTime : Done <= n /\ 1 .. n \subseteq collected}
    <2>1. Done \in E
      BY <1>2, <1>3, <1>4
    <2>2. PICK n \in E : \A m \in E : m <= n
      <3>1. E \in SUBSET Nat /\ E # {} /\ \A m \in E : m <= MaxTime
        BY <1>2, <2>1
      <3> HIDE DEF E
      <3> QED
        BY <1>2, <3>1, LargestOf
    <2>3. n \in 0 .. MaxTime /\ Done <= n /\ 1 .. n \subseteq collected
      OBVIOUS
    <2>4. n + 1 \notin collected
      <3> SUFFICES ASSUME n + 1 \in collected PROVE FALSE
        OBVIOUS
      <3>1. n + 1 \in 0 .. MaxTime /\ Done <= n + 1
        BY <1>2, <1>3, <2>3
      <3>2. 1 .. n + 1 \subseteq collected
        BY <2>3
      <3> QED
        BY <2>2, <2>3, <3>1, <3>2
    <2>5. collected = (1 .. Done) \cup UNION {r.first .. r.last : r \in Queued}
      BY <1>1, <1>6 DEF Content
    <2>6. /\ \A r \in Queued : /\ r.first \in Nat /\ r.last \in Nat /\ r.first <= r.last
                              /\ r.last <= now
          /\ \A r \in Queued : r \in Reads
      BY <1>1, ReadsAre
    <2>7. \A r \in Queued : r.first = Done + 1 \/ \E s \in Queued : s.last < r.last /\ r.first <= s.last
      BY <1>1, <1>6, <2>6 DEF Linked
    <2> HIDE DEF E
    <2> DEFINE S == {m \in Nat : \A r \in Queued : r.last <= m => r.last <= n}
    <2>8. 0 \in S
      BY <2>3, <2>6
    <2>9. ASSUME NEW m \in Nat, m \in S PROVE m + 1 \in S
      <3>1. ASSUME NEW r \in Queued, r.last <= m + 1, ~(r.last <= n) PROVE FALSE
        <4>1. r.first \in Nat /\ r.last \in Nat /\ n \in Nat /\ n + 1 <= r.last
          BY <2>3, <2>6, <3>1
        <4>2. n + 1 < r.first
          <5>1. n + 1 \notin r.first .. r.last
            BY <2>4, <2>5
          <5> QED
            BY <4>1, <5>1
        <4>3. PICK s \in Queued : s.last < r.last /\ r.first <= s.last
          BY <1>2, <2>3, <2>7, <4>1, <4>2
        <4>4. s.last \in Nat /\ s.last <= m /\ ~(s.last <= n)
          BY <2>6, <3>1, <4>1, <4>2, <4>3
        <4> QED
          BY <2>9, <4>4
      <3> QED
        BY <3>1
    <2>10. Nat \subseteq S
      <3> HIDE DEF S
      <3> QED
        BY <2>8, <2>9, NatInductionSet
    <2>11. \A r \in Queued : r.last <= n
      <3>1. ASSUME NEW r \in Queued PROVE r.last <= n
        <4>1. r.last \in S /\ r.last <= r.last
          BY <2>6, <2>10
        <4> QED
          BY <4>1
      <3> QED
        BY <3>1
    <2>12. collected \subseteq 1 .. n
      <3>1. ASSUME NEW x \in collected PROVE x <= n
        <4>1. CASE x \in 1 .. Done
          BY <1>2, <2>3, <4>1
        <4>2. CASE x \notin 1 .. Done
          <5>1. PICK r \in Queued : x \in r.first .. r.last
            BY <2>5, <4>2
          <5> QED
            BY <2>3, <2>6, <2>11, <5>1
        <4> QED
          BY <4>1, <4>2
      <3> QED
        BY <1>2, <1>3, <2>3, <3>1
    <2> QED
      BY <1>2, <1>6, <2>3, <2>12
  <1> QED
    BY <1>5, <1>6

\* The file holds a part of it, from its beginning, and all of it when CleanUp has ended.
Promised ==
  \E n \in 0 .. MaxTime :
    /\ collected = 1 .. n
    /\ file \in Lines /\ Len(file) \in Nat /\ Len(file) <= n
    /\ \A i \in 1 .. Len(file) : file[i] = i
    /\ cleanUp = "done" => Len(file) = n

LEMMA PromiseHolds == WrittenInv /\ Room /\ IInv => Promised
  <1> SUFFICES ASSUME WrittenInv, Room, IInv PROVE Promised
    OBVIOUS
  <1>1. PICK n \in 0 .. MaxTime : /\ collected = 1 .. n /\ Done \in Nat /\ Done <= n
                                  /\ processor \in Flushed => Done = n
    BY CollectedIs
  <1>2. file \in Lines /\ Len(file) \in Nat /\ \A i \in 1 .. Len(file) : file[i] = i
    BY FileIs
  <1>3. file \in Seq(Nat) /\ lines \in Seq(Nat) /\ out \in Seq(Nat)
    BY DEF WrittenInv, LogInv, Reading, Shapes, Lines
  <1>4. Done = Len(file \o lines) + Len(out) /\ Len(file \o lines) = Len(file) + Len(lines)
    <2>1. file \o lines \in Seq(Nat) /\ Len(file \o lines) = Len(file) + Len(lines)
      BY <1>3, ConcatProperties
    <2>2. Done = Len(file \o lines) + Len(out)
      BY <1>3, <2>1, ConcatProperties DEF Done, Written
    <2> QED
      BY <2>1, <2>2
  <1> DEFINE f == Len(file)
             l == Len(lines)
             o == Len(out)
  <1>5. Done = f + l + o /\ f \in Nat /\ l \in Nat /\ o \in Nat /\ n \in Nat
    <2>1. Done = f + l + o
      BY <1>4
    <2>2. f \in Nat /\ l \in Nat /\ o \in Nat
      BY <1>3, LenProperties
    <2>3. n \in Nat
      BY Constants
    <2> QED
      BY <2>1, <2>2, <2>3
  <1>6. cleanUp = "done" => processor \in Flushed /\ l = 0 /\ o = 0
    <2>1. cleanUp = "done" => processor = "done" /\ lines = <<>> /\ out = <<>>
      BY DEF IInv, Stopping
    <2> QED
      BY <2>1 DEF Flushed
  <1> HIDE DEF f, l, o
  <1>7. f <= n /\ (cleanUp = "done" => f = n)
    <2>1. f <= n
      BY <1>1, <1>5
    <2>2. ASSUME cleanUp = "done" PROVE f = n
      <3>1. Done = n /\ l = 0 /\ o = 0
        BY <1>1, <1>6, <2>2
      <3> QED
        BY <1>5, <3>1
    <2> QED
      BY <2>1, <2>2
  <1>8. cleanUp = "done" => Len(file) = n
    BY <1>7 DEF f
  <1>9. /\ file \in Lines /\ Len(file) \in Nat /\ Len(file) <= n
        /\ \A i \in 1 .. Len(file) : file[i] = i
    BY <1>2, <1>7 DEF f
  <1>10. collected = 1 .. n
    BY <1>1
  <1> QED
    BY <1>8, <1>9, <1>10, Zenon DEF Promised

\* A slice that is queued is collected, a line that is written is the next one, and what
\* was collected is in the file when CleanUp returns.
LEMMA PromiseStep ==
  ASSUME WrittenInv, IInv, Promised, Promised', Timely, [Next]_vars
  PROVE  [Promise!Next]_(Promise!vars)
  <1> USE DEF Promise!Next, Promise!vars
  <1>1. CASE UNCHANGED <<collected, file, cleanUp>>
    BY <1>1
  <1>2. ASSUME NEW p \in Slots, QueueSlice(p) PROVE [Promise!Next]_(Promise!vars)
    <2>1. /\ polls[p].at = "queueing" /\ UNCHANGED <<file, cleanUp>>
          /\ collected' = collected \cup ToSet(polls[p].lines)
      BY <1>2 DEF QueueSlice, writeVars
    <2>2. cleanUp = "no"
      BY <2>1 DEF IInv, Stopping, Idle
    <2>3. PICK n \in 0 .. MaxTime : collected' = 1 .. n
      BY DEF Promised
    <2>4. n \in Nat /\ MaxTime \in Nat
      BY Constants
    <2>5. CASE n = 0
      <3>1. collected' = {}
        BY <2>3, <2>5
      <3>2. collected = {}
        BY <2>1, <3>1
      <3> QED
        BY <1>1, <2>1, <3>1, <3>2
    <2>6. CASE n # 0
      <3>1. n \in 1 .. MaxTime /\ collected' = collected \cup (1 .. n)
        BY <2>1, <2>3, <2>4, <2>6
      <3> QED
        BY <2>1, <2>2, <3>1 DEF Promise!Collect
    <2> QED
      BY <2>5, <2>6
  <1>3. CASE WriteLine
    <2>1. /\ UNCHANGED <<collected, cleanUp>> /\ writer # "done"
          /\ lines # <<>> /\ file' = Append(file, Head(lines))
      BY <1>3 DEF WriteLine, pollVars
    <2>2. cleanUp # "done"
      BY <2>1 DEF IInv, Stopping
    <2>3. PICK n \in 0 .. MaxTime :
            /\ collected' = 1 .. n /\ file' \in Lines /\ Len(file') \in Nat /\ Len(file') <= n
            /\ \A i \in 1 .. Len(file') : file'[i] = i
      BY DEF Promised
    <2>4. file \in Seq(Nat) /\ n \in Nat /\ MaxTime \in Nat
      BY Constants DEF Promised, Lines
    <2> DEFINE k == Len(file) + 1
    <2>5. Head(lines) \in Nat
      BY <2>1, HeadTailProperties DEF WrittenInv, LogInv, Reading, Shapes, Lines
    <2>6. Len(file') = k /\ file'[k] = Head(lines) /\ Len(file) \in Nat
      BY <2>1, <2>4, <2>5, AppendProperties, LenProperties
    <2>7. Head(lines) = k
      BY <2>3, <2>6
    <2>8. k \in collected
      BY <2>1, <2>3, <2>4, <2>6
    <2> QED
      BY <2>1, <2>2, <2>7, <2>8 DEF Promise!Write
  <1>4. CASE CleanUpDone
    <2>1. UNCHANGED <<collected, file>> /\ cleanUp = "awaitDumper" /\ cleanUp' = "done"
      BY <1>4 DEF CleanUpDone, pollVars, writeVars
    <2>2. collected' = 1 .. Len(file')
      BY <2>1 DEF Promised
    <2> QED
      BY <2>1, <2>2 DEF Promise!Close
  <1>5. ASSUME NEW p \in Slots, Poll(p) PROVE [Promise!Next]_(Promise!vars)
    <2>1. ~BreakStream(p)
      BY DEF BreakStream, Timely
    <2>2. CASE BeginPoll(p) \/ OpenStream(p) \/ ReadStream(p) \/ SetLastPoll(p)
      BY <1>1, <2>2 DEF BeginPoll, OpenStream, ReadStream, SetLastPoll, writeVars
    <2> QED
      BY <1>2, <1>5, <2>1, <2>2 DEF Poll
  <1>6. CASE TakeSliceQuit \/ BeginCleanUp \/ AwaitGoroutines \/ StopDumper
    <2>1. UNCHANGED <<collected, file>> /\ cleanUp # "done" /\ cleanUp' # "done"
      BY <1>6 DEF TakeSliceQuit, BeginCleanUp, AwaitGoroutines, StopDumper, pollVars, writeVars
    <2> QED
      BY <2>1
  <1>7. CASE StartProcessor \/ TakeSlice \/ Flush \/ QueueLine \/ LinesQueued \/ FlushAll \/ SignalWriter
    BY <1>1, <1>7 DEF StartProcessor, TakeSlice, Flush, QueueLine, LinesQueued, FlushAll,
                      SignalWriter, pollVars, writeVars
  <1>8. CASE Tick \/ StartWriter \/ WriterDone \/ Dumper \/ UNCHANGED vars
    BY <1>1, <1>8 DEF Tick, StartWriter, WriterDone, Dumper, DumpSlice, DumperDone, vars, pollVars,
                      writeVars
  <1> QED
    BY <1>3, <1>4, <1>5, <1>6, <1>7, <1>8 DEF Next, Processor, Writer, CleanUp, Sleep, Ended

\* The collector implements LogWriter: whatever the order in which polls end and slices
\* come, the file grows by the next line of the log, never beyond what was collected, and
\* is complete when CleanUp returns (log_follower.go:41-42, 286-295).
THEOREM CollectorKeepsPromise == ASSUME Timely PROVE Spec => ImplementsLogWriter
  <1>1. Init => Promise!Init
    BY DEF Init, Promise!Init
  <1>2. WrittenInv /\ Room /\ IInv => Promised
    BY PromiseHolds
  <1>3. WrittenInv /\ IInv /\ Promised /\ Promised' /\ [Next]_vars => [Promise!Next]_(Promise!vars)
    BY PromiseStep
  <1> QED
    BY <1>1, <1>2, <1>3, RoomInductive, WrittenInductive, Inductive, PTL
    DEF Spec, ImplementsLogWriter, Promise!Spec
-----------------------------------------------------------------------------
(***************************************************************************)
(* Flushes make progress                                                   *)
(*                                                                         *)
(* A generation begins when a poll is over, and its slice is queued by     *)
(* then: generations that hold slices are never further apart than polls   *)
(* can be at work, so that a flush finds one besides the oldest.           *)
(***************************************************************************)
Reader(p) == polls[p].at \in {"reading", "queueing", "updating"}

\* The generations in the store, and in the first slices of the queue.
Filed(i) == DOMAIN store \cup {slices[j].generation : j \in 1 .. i}

\* The polls that may still add one to the last generation, which is beyond k by then.
Behind(k) == {p \in Slots : Reader(p) /\ polls[p].generation <= k}

Beyond(S, k) == \E g \in S : k < g
Near(S, k)   == \E g \in S : k < g /\ g <= k + MaxRunningPolls

InSteps ==
  /\ \A i \in 0 .. Len(slices), k \in Nat :
       oldest <= k /\ Beyond(Filed(i), k) => Near(Filed(i), k)
  /\ \A k \in Nat : ~Beyond(Filed(Len(slices)), k) =>
       lastPoll.generation + Cardinality(Behind(k)) <= k + MaxRunningPolls
  /\ \A p \in Slots : polls[p].at = "updating" =>
       \E g \in Filed(Len(slices)) : polls[p].generation <= g

LEMMA SomeSlots ==
  ASSUME NEW S \in SUBSET Slots
  PROVE  /\ IsFiniteSet(S) /\ Cardinality(S) \in Nat /\ Cardinality(S) <= MaxRunningPolls
         /\ MaxRunningPolls \in Nat
  <1>1. MaxRunningPolls \in Nat
    BY LogsAssumption DEF LogsAssumption
  <1>2. IsFiniteSet(Slots) /\ Cardinality(Slots) = MaxRunningPolls
    <2>1. 1 \in Int /\ MaxRunningPolls \in Int
      BY <1>1
    <2>2. /\ IsFiniteSet(1 .. MaxRunningPolls)
          /\ Cardinality(1 .. MaxRunningPolls)
               = IF 1 > MaxRunningPolls THEN 0 ELSE MaxRunningPolls - 1 + 1
      BY <2>1, FS_Interval
    <2> QED
      BY <1>1, <2>2 DEF Slots
  <1>3. IsFiniteSet(S) /\ Cardinality(S) <= Cardinality(Slots)
    BY <1>2, FS_Subset
  <1>4. Cardinality(S) \in Nat
    BY <1>3, FS_CardinalityType
  <1> QED
    BY <1>1, <1>2, <1>3, <1>4

\* How many polls are behind is a number, now and after a step.
LEMMA BehindIs ==
  ASSUME NEW k
  PROVE  /\ Behind(k) \in SUBSET Slots /\ Behind(k)' \in SUBSET Slots
         /\ Cardinality(Behind(k)) \in Nat /\ Cardinality(Behind(k)') \in Nat
         /\ Cardinality(Behind(k)) <= MaxRunningPolls
         /\ Cardinality(Behind(k)') <= MaxRunningPolls
         /\ MaxRunningPolls \in Nat
  <1>1. Behind(k) \in SUBSET Slots /\ Behind(k)' \in SUBSET Slots
    BY DEF Behind, Slots
  <1> QED
    BY <1>1, SomeSlots

LEMMA FiledIs ==
  ASSUME Shapes
  PROVE  /\ Len(slices) \in Nat
         /\ \A i \in 0 .. Len(slices) : \A g \in Filed(i) : g \in Nat
  <1>1. slices \in Seq(LineSlice) /\ \A g \in DOMAIN store : g \in Nat
    BY DEF Shapes
  <1>2. Len(slices) \in Nat /\ \A j \in 1 .. Len(slices) : slices[j] \in LineSlice
    BY <1>1, LenProperties, ElementOfSeq
  <1>3. \A j \in 1 .. Len(slices) : slices[j].generation \in Nat
    BY <1>2 DEF LineSlice
  <1> QED
    BY <1>1, <1>2, <1>3 DEF Filed

\* Polls that begin, that end without a line, or that do not move leave it as it is.
LEMMA OthersKeepSteps ==
  ASSUME InSteps, Clocks, UNCHANGED <<slices, store, oldest, lastPoll>>,
         \A q \in Slots : /\ Reader(q)' => Reader(q) /\ polls'[q].generation = polls[q].generation
                          /\ polls'[q].at = "updating" => polls[q].at = "updating"
  PROVE  InSteps'
  <1>1. \A i : Filed(i)' = Filed(i)
    BY DEF Filed
  <1>2. \A k : Behind(k)' \in SUBSET Behind(k)
    BY DEF Behind
  <1>3. ASSUME NEW k \in Nat, ~Beyond(Filed(Len(slices)), k)
        PROVE  lastPoll.generation + Cardinality(Behind(k)') <= k + MaxRunningPolls
    <2>1. IsFiniteSet(Behind(k)) /\ Behind(k)' \in SUBSET Behind(k)
      BY <1>2, BehindIs, SomeSlots
    <2>2. Cardinality(Behind(k)') <= Cardinality(Behind(k))
      BY <2>1, FS_Subset
    <2>3. lastPoll.generation + Cardinality(Behind(k)) <= k + MaxRunningPolls
      BY <1>3 DEF InSteps
    <2> QED
      BY <2>2, <2>3, BehindIs DEF Clocks
  <1> QED
    BY <1>1, <1>3 DEF InSteps, Beyond, Near, Reader

\* A poll that opens its stream has the last generation.
LEMMA OpenStreamKeepsSteps ==
  ASSUME InSteps, WrittenInv, NEW p \in Slots, OpenStream(p)
  PROVE  InSteps'
  <1>1. /\ UNCHANGED <<slices, store, oldest, lastPoll>> /\ polls[p].at = "request"
        /\ polls' = [polls EXCEPT ![p].at = "reading", ![p].start = now,
                                  ![p].generation = lastPoll.generation]
    BY DEF OpenStream, genVars
  <1>2. Clocks /\ PollTimes
    BY DEF WrittenInv, LogInv, Reading
  <1>3. /\ polls'[p].at = "reading" /\ polls'[p].generation = lastPoll.generation
        /\ \A q \in Slots : q # p => polls'[q] = polls[q]
    BY <1>1, <1>2 DEF PollTimes, PollRecord
  <1>4. \A i : Filed(i)' = Filed(i)
    BY <1>1 DEF Filed
  <1>5. ASSUME NEW k \in Nat, ~Beyond(Filed(Len(slices)), k)
        PROVE  lastPoll.generation + Cardinality(Behind(k)') <= k + MaxRunningPolls
    <2>1. CASE lastPoll.generation <= k
      <3>1. /\ MaxRunningPolls \in Nat /\ lastPoll.generation \in Nat
            /\ Cardinality(Behind(k)') \in Nat /\ Cardinality(Behind(k)') <= MaxRunningPolls
        BY <1>2, BehindIs DEF Clocks
      <3> QED
        BY <2>1, <3>1
    <2>2. CASE ~(lastPoll.generation <= k)
      <3>1. Behind(k)' = Behind(k)
        BY <1>1, <1>3, <2>2 DEF Behind, Reader
      <3> QED
        BY <1>5, <3>1 DEF InSteps
    <2> QED
      BY <2>1, <2>2
  <1>6. ASSUME NEW q \in Slots, polls'[q].at = "updating"
        PROVE  q # p /\ polls'[q] = polls[q]
    BY <1>3, <1>6
  <1> QED
    BY <1>1, <1>4, <1>5, <1>6 DEF InSteps, Beyond, Near

\* A slice that is queued is no more generations on than there are polls.
LEMMA QueueSliceKeepsSteps ==
  ASSUME InSteps, WrittenInv, NEW p \in Slots, QueueSlice(p)
  PROVE  InSteps'
  <1> DEFINE x == Slice(polls[p].lines, polls[p].generation)
  <1>0. PICK n, g : n = Len(slices) /\ g = polls[p].generation
    OBVIOUS
  <1>1. /\ UNCHANGED <<store, oldest, lastPoll>> /\ polls[p].at = "queueing"
        /\ slices' = Append(slices, x)
        /\ polls' = [polls EXCEPT ![p].at = "updating", ![p].lines = <<>>]
    BY DEF QueueSlice, genVars
  <1>2. Clocks /\ Shapes /\ PollTimes
    BY DEF WrittenInv, LogInv, Reading
  <1>3. /\ polls'[p].at = "updating" /\ polls'[p].generation = g
        /\ \A q \in Slots : q # p => polls'[q] = polls[q]
        /\ polls[p] \in PollRecord /\ g \in Nat /\ g <= lastPoll.generation
    BY <1>0, <1>1, <1>2 DEF PollTimes, PollRecord
  <1>4. x \in LineSlice /\ x.generation = g
    BY <1>0, <1>3 DEF PollRecord, LineSlice, Slice
  <1> HIDE DEF x
  <1>5. /\ n \in Nat /\ Len(slices') = n + 1 /\ slices'[n + 1] = x
        /\ \A j \in 1 .. n : slices'[j] = slices[j]
    BY <1>0, <1>1, <1>2, <1>4, AppendProperties, LenProperties DEF Shapes
  <1>6. ASSUME NEW i \in 0 .. n PROVE Filed(i)' = Filed(i)
    <2>1. \A j \in 1 .. i : slices'[j] = slices[j]
      BY <1>5
    <2> QED
      BY <1>1, <2>1 DEF Filed
  <1>7. Filed(n + 1)' = Filed(n) \cup {g}
    <2>1. \A j : j \in 1 .. n + 1 <=> j \in 1 .. n \/ j = n + 1
      BY <1>5
    <2>2. {slices'[j].generation : j \in 1 .. n + 1} = {slices[j].generation : j \in 1 .. n} \cup {g}
      BY <1>4, <1>5, <2>1
    <2> QED
      BY <1>1, <2>2 DEF Filed
  <1>8. \A k : Behind(k)' = Behind(k)
    BY <1>0, <1>1, <1>3 DEF Behind, Reader
  <1>9. \A k \in Nat : ~Beyond(Filed(n), k) =>
          lastPoll.generation + Cardinality(Behind(k)) <= k + MaxRunningPolls
    BY <1>0 DEF InSteps
  <1>10. ASSUME NEW k \in Nat, oldest <= k, Beyond(Filed(n) \cup {g}, k)
         PROVE  Near(Filed(n) \cup {g}, k)
    <2>1. CASE Beyond(Filed(n), k)
      <3>1. n \in 0 .. n
        BY <1>5
      <3>2. Near(Filed(n), k)
        BY <1>0, <1>10, <2>1, <3>1 DEF InSteps
      <3> QED
        BY <3>2 DEF Near
    <2>2. CASE ~Beyond(Filed(n), k)
      <3>1. k < g
        BY <1>10, <2>2 DEF Beyond
      <3>2. /\ Cardinality(Behind(k)) \in Nat /\ MaxRunningPolls \in Nat
            /\ lastPoll.generation \in Nat
        BY <1>2, BehindIs DEF Clocks
      <3>3. g <= k + MaxRunningPolls
        BY <1>3, <1>9, <2>2, <3>2
      <3> QED
        BY <3>1, <3>3 DEF Near
    <2> QED
      BY <2>1, <2>2
  <1>11. ASSUME NEW k \in Nat, ~Beyond(Filed(n) \cup {g}, k)
         PROVE  lastPoll.generation + Cardinality(Behind(k)) <= k + MaxRunningPolls
    BY <1>9, <1>11 DEF Beyond
  <1>12. ASSUME NEW q \in Slots, polls'[q].at = "updating"
         PROVE  \E h \in Filed(n) \cup {g} : polls'[q].generation <= h
    <2>1. CASE q = p
      BY <1>3, <2>1
    <2>2. CASE q # p
      BY <1>0, <1>3, <1>12, <2>2 DEF InSteps
    <2> QED
      BY <2>1, <2>2
  <1>13. \A i \in 0 .. n + 1 : i \in 0 .. n \/ i = n + 1
    BY <1>5
  <1>14. ASSUME NEW i \in 0 .. n, NEW k \in Nat, oldest <= k, Beyond(Filed(i), k)
         PROVE  Near(Filed(i), k)
    BY <1>0, <1>14 DEF InSteps
  <1>15. ASSUME NEW i \in 0 .. n + 1, NEW k \in Nat, oldest <= k, Beyond(Filed(i)', k)
         PROVE  Near(Filed(i)', k)
    <2>1. CASE i \in 0 .. n
      BY <1>6, <1>14, <1>15, <2>1
    <2>2. CASE i = n + 1
      BY <1>7, <1>10, <1>15, <2>2
    <2> QED
      BY <1>13, <2>1, <2>2
  <1> QED
    BY <1>1, <1>5, <1>7, <1>8, <1>11, <1>12, <1>15 DEF InSteps, Beyond, Near

\* A poll that begins a generation was behind: its own slice is there already.
LEMMA SetLastPollKeepsSteps ==
  ASSUME InSteps, WrittenInv, NEW p \in Slots, SetLastPoll(p)
  PROVE  InSteps'
  <1>1. /\ UNCHANGED <<slices, store, oldest>> /\ polls[p].at = "updating"
        /\ polls' = [polls EXCEPT ![p] = Idle]
        /\ lastPoll' = IF polls[p].start > lastPoll.time
                         THEN [time |-> polls[p].start,
                               generation |-> (lastPoll.generation + 1) % GenerationModulus]
                         ELSE lastPoll
    BY DEF SetLastPoll, genVars
  <1>2. Clocks /\ Shapes /\ PollTimes
    BY DEF WrittenInv, LogInv, Reading
  <1>3. /\ polls'[p] = Idle /\ Idle.at = "idle"
        /\ \A q \in Slots : q # p => polls'[q] = polls[q]
    BY <1>1, <1>2 DEF PollTimes, Idle
  <1>4. /\ lastPoll.generation \in Nat /\ lastPoll'.generation \in Nat
        /\ lastPoll'.generation <= lastPoll.generation + 1
    <2>1. /\ lastPoll.time \in Nat /\ lastPoll.generation \in Nat /\ now \in Nat /\ now <= MaxTime
          /\ lastPoll.generation <= lastPoll.time
          /\ polls[p].start \in Nat /\ polls[p].start <= now
      BY <1>1, <1>2 DEF Clocks, PollTimes, PollRecord
    <2>2. CASE polls[p].start > lastPoll.time
      <3>1. lastPoll.generation + 1 \in Nat /\ lastPoll.generation + 1 <= MaxTime
        BY <2>1, <2>2, Constants
      <3>2. lastPoll'.generation = lastPoll.generation + 1
        BY <1>1, <2>2, <3>1, NoWrap
      <3> QED
        BY <2>1, <3>2
    <2>3. CASE ~(polls[p].start > lastPoll.time)
      BY <1>1, <2>1, <2>3
    <2> QED
      BY <2>2, <2>3
  <1>5. \A i : Filed(i)' = Filed(i)
    BY <1>1 DEF Filed
  <1>6. ASSUME NEW k \in Nat, ~Beyond(Filed(Len(slices)), k)
        PROVE  lastPoll'.generation + Cardinality(Behind(k)') <= k + MaxRunningPolls
    <2>1. PICK g \in Filed(Len(slices)) : polls[p].generation <= g
      BY <1>1 DEF InSteps
    <2>2. g \in Nat /\ polls[p].generation \in Nat
      <3>1. Len(slices) \in 0 .. Len(slices)
        BY <1>2, FiledIs
      <3> QED
        BY <1>2, <2>1, <3>1, FiledIs DEF PollTimes, PollRecord
    <2>3. polls[p].generation <= k
      BY <1>6, <2>1, <2>2 DEF Beyond
    <2>4. p \in Behind(k)
      BY <1>1, <2>3 DEF Behind, Reader
    <2>5. Behind(k)' = Behind(k) \ {p}
      BY <1>3 DEF Behind, Reader
    <2>6. Cardinality(Behind(k)') = Cardinality(Behind(k)) - 1
      <3>1. IsFiniteSet(Behind(k))
        BY BehindIs, SomeSlots
      <3> QED
        BY <2>4, <2>5, <3>1, FS_RemoveElement
    <2>7. lastPoll.generation + Cardinality(Behind(k)) <= k + MaxRunningPolls
      BY <1>6 DEF InSteps
    <2> QED
      BY <1>4, <2>6, <2>7, BehindIs
  <1>7. ASSUME NEW q \in Slots, polls'[q].at = "updating"
        PROVE  q # p /\ polls'[q] = polls[q]
    BY <1>3, <1>7
  <1> QED
    BY <1>1, <1>5, <1>6, <1>7 DEF InSteps, Beyond, Near

\* A slice that is taken from the queue goes to the store.
LEMMA TakeSliceKeepsSteps ==
  ASSUME InSteps, WrittenInv, TakeSlice
  PROVE  InSteps'
  <1> DEFINE x == Head(slices)
  <1>0. PICK n : n = Len(slices)
    OBVIOUS
  <1>1. /\ UNCHANGED <<polls, lastPoll, oldest>>
        /\ slices # <<>> /\ slices' = Tail(slices) /\ store' = With(x.generation, x)
    BY DEF TakeSlice, AddSlice, pollVars, With
  <1>2. /\ x = slices[1] /\ n \in Nat \ {0} /\ Len(slices') = n - 1
        /\ \A j \in 1 .. n - 1 : slices'[j] = slices[j + 1]
    <2>1. slices \in Seq(LineSlice)
      BY DEF WrittenInv, LogInv, Reading, Shapes
    <2>2. n \in Nat \ {0}
      BY <1>0, <1>1, <2>1, LenProperties, EmptySeq
    <2> QED
      BY <1>0, <1>1, <2>1, <2>2, HeadTailProperties
  <1>3. DOMAIN store' = DOMAIN store \cup {x.generation}
    BY <1>1 DEF With
  <1> HIDE DEF x
  <1>4. ASSUME NEW i \in 0 .. n - 1
        PROVE  Filed(i)' = Filed(i + 1) /\ i + 1 \in 0 .. n
    <2>1. \A j : j \in 1 .. i + 1 <=> j = 1 \/ (j - 1 \in 1 .. i /\ (j - 1) + 1 = j /\ j \in Nat)
      BY <1>2
    <2>2. ASSUME NEW j \in 1 .. i
          PROVE  slices'[j] = slices[j + 1] /\ j + 1 \in 1 .. i + 1
      BY <1>2
    <2>3. ASSUME NEW j \in 1 .. i + 1, j # 1
          PROVE  j - 1 \in 1 .. i /\ slices'[j - 1] = slices[j]
      <3>1. j - 1 \in 1 .. i /\ (j - 1) + 1 = j
        BY <2>3
      <3> QED
        BY <2>2, <3>1
    <2>4. 1 \in 1 .. i + 1
      OBVIOUS
    <2>5. {slices[j].generation : j \in 1 .. i + 1}
            = {slices'[j].generation : j \in 1 .. i} \cup {x.generation}
      <3> DEFINE S == {slices[j].generation : j \in 1 .. i + 1}
                 T == {slices'[j].generation : j \in 1 .. i}
      <3>1. ASSUME NEW g \in S PROVE g \in T \cup {x.generation}
        <4>1. PICK j \in 1 .. i + 1 : g = slices[j].generation
          OBVIOUS
        <4>2. CASE j = 1
          BY <1>2, <4>1, <4>2
        <4>3. CASE j # 1
          <5>1. j - 1 \in 1 .. i /\ slices'[j - 1] = slices[j]
            BY <2>3, <4>3
          <5> QED
            BY <4>1, <5>1
        <4> QED
          BY <4>2, <4>3
      <3>2. ASSUME NEW g \in T PROVE g \in S
        <4>1. PICK j \in 1 .. i : g = slices'[j].generation
          OBVIOUS
        <4>2. j + 1 \in 1 .. i + 1 /\ slices'[j] = slices[j + 1]
          BY <2>2
        <4> QED
          BY <4>1, <4>2
      <3>3. x.generation \in S
        BY <1>2, <2>4
      <3> HIDE DEF S, T
      <3>4. S = T \cup {x.generation}
        BY <3>1, <3>2, <3>3
      <3> QED
        BY <3>4 DEF S, T
    <2>6. i + 1 \in 0 .. n
      BY <1>2
    <2>7. Filed(i)' = (DOMAIN store \cup {x.generation}) \cup {slices'[j].generation : j \in 1 .. i}
      BY <1>3 DEF Filed
    <2>8. Filed(i + 1) = DOMAIN store \cup ({slices'[j].generation : j \in 1 .. i} \cup {x.generation})
      BY <2>5 DEF Filed
    <2> QED
      BY <2>6, <2>7, <2>8
  <1>5. Filed(n - 1)' = Filed(n)
    <2>1. n - 1 \in 0 .. n - 1 /\ (n - 1) + 1 = n
      BY <1>2
    <2> QED
      BY <1>4, <2>1
  <1>6. \A k : Behind(k)' = Behind(k)
    BY <1>1 DEF Behind, Reader
  <1>7. ASSUME NEW i \in 0 .. n - 1, NEW k \in Nat, oldest <= k, Beyond(Filed(i)', k)
        PROVE  Near(Filed(i)', k)
    <2>1. Filed(i)' = Filed(i + 1) /\ i + 1 \in 0 .. Len(slices)
      BY <1>0, <1>4
    <2>2. \A j \in 0 .. Len(slices) : Beyond(Filed(j), k) => Near(Filed(j), k)
      BY <1>7 DEF InSteps
    <2> QED
      BY <1>7, <2>1, <2>2
  <1>8. /\ \A k \in Nat : ~Beyond(Filed(n), k) =>
             lastPoll.generation + Cardinality(Behind(k)) <= k + MaxRunningPolls
        /\ \A p \in Slots : polls[p].at = "updating" =>
             \E g \in Filed(n) : polls[p].generation <= g
    BY <1>0 DEF InSteps
  <1> QED
    BY <1>1, <1>2, <1>5, <1>6, <1>7, <1>8 DEF InSteps, Beyond, Near

\* A flush takes generations from the oldest on, and leaves one of them.
LEMMA FlushKeepsSteps ==
  ASSUME InSteps, WrittenInv, Flush
  PROVE  InSteps'
  <1> DEFINE G == FlushableGenerations
             H == DOMAIN store \ G
             s == flush(G).last
  <1>1. /\ UNCHANGED <<polls, lastPoll, slices>> /\ slices = <<>> /\ ShouldFlush
        /\ store' = KeepLast(s) /\ oldest' = s.generation
    BY DEF Flush, pollVars, KeepLast
  <1>2. LogInv /\ Begun /\ Shapes /\ oldest \in Nat
    BY DEF WrittenInv, LogInv, Reading, InStore
  <1>3. /\ G = {h \in DOMAIN store : h <= oldest + keepGenerations}
        /\ oldest \in G /\ G \in SUBSET DOMAIN store /\ G # {}
    BY <1>1, <1>2, FlushableAre
  <1>4. \A h \in DOMAIN store : h \in Nat
    BY <1>2 DEF Shapes
  <1>5. s.generation \in G /\ Unbroken(s) /\ \A h \in G : h <= s.generation
    BY <1>2, <1>3, FlushMerges DEF FlushedTo
  <1>6. s \in LineSlice
    BY <1>5 DEF Unbroken
  <1> HIDE DEF G, s
  <1>7. PICK g : g = s.generation
    OBVIOUS
  <1>8. g \in Nat /\ g \in G /\ oldest <= g /\ \A h \in H : g < h
    BY <1>3, <1>4, <1>5, <1>7, Constants
  <1>9. DOMAIN store' = H \cup {g}
    BY <1>1, <1>2, <1>3, <1>5, <1>6, <1>7, <1>8, KeepLastIs
  <1>10. Len(slices) = 0 /\ 1 .. 0 = {} /\ 0 .. 0 = {0}
    BY <1>1
  <1>11. Filed(0) = DOMAIN store /\ Filed(0)' = H \cup {g}
    BY <1>9, <1>10 DEF Filed
  <1>12. ASSUME NEW k \in Nat, g <= k
         PROVE  /\ Beyond(H \cup {g}, k) <=> Beyond(DOMAIN store, k)
                /\ Near(H \cup {g}, k) <=> Near(DOMAIN store, k)
    <2>1. \A h \in G : ~(k < h)
      BY <1>3, <1>4, <1>5, <1>7, <1>8, <1>12
    <2>2. ~(k < g)
      BY <1>8, <1>12
    <2>3. \A h : k < h => (h \in H \cup {g} <=> h \in DOMAIN store)
      BY <2>1, <2>2
    <2> QED
      BY <2>3 DEF Beyond, Near
  <1>13. \A k : Behind(k)' = Behind(k)
    BY <1>1 DEF Behind, Reader
  <1>14. /\ \A k \in Nat : oldest <= k /\ Beyond(DOMAIN store, k) => Near(DOMAIN store, k)
         /\ \A k \in Nat : ~Beyond(DOMAIN store, k) =>
              lastPoll.generation + Cardinality(Behind(k)) <= k + MaxRunningPolls
         /\ \A p \in Slots : polls[p].at = "updating" =>
              \E h \in DOMAIN store : polls[p].generation <= h
    BY <1>10, <1>11 DEF InSteps
  <1>15. ASSUME NEW k \in Nat, g <= k, Beyond(H \cup {g}, k)
         PROVE  Near(H \cup {g}, k)
    <2>1. oldest <= k
      BY <1>2, <1>8, <1>15
    <2> QED
      BY <1>12, <1>14, <1>15, <2>1
  <1>16. ASSUME NEW k \in Nat, ~Beyond(H \cup {g}, k)
         PROVE  lastPoll.generation + Cardinality(Behind(k)) <= k + MaxRunningPolls
    <2>1. g <= k
      BY <1>8, <1>16 DEF Beyond
    <2> QED
      BY <1>12, <1>14, <1>16, <2>1
  <1>17. ASSUME NEW p \in Slots, polls[p].at = "updating"
         PROVE  \E h \in H \cup {g} : polls[p].generation <= h
    <2>1. PICK h \in DOMAIN store : polls[p].generation <= h
      BY <1>14, <1>17
    <2>2. CASE h \in G
      <3>1. h \in Nat /\ h <= g /\ polls[p].generation \in Nat
        BY <1>2, <1>4, <1>5, <1>7, <2>1, <2>2
        DEF WrittenInv, LogInv, Reading, PollTimes, PollRecord
      <3>2. polls[p].generation <= g
        BY <1>8, <2>1, <3>1
      <3> QED
        BY <3>2
    <2>3. CASE h \notin G
      BY <2>1, <2>3
    <2> QED
      BY <2>2, <2>3
  <1>18. oldest' = g
    BY <1>1, <1>7
  <1> QED
    BY <1>1, <1>10, <1>11, <1>13, <1>15, <1>16, <1>17, <1>18 DEF InSteps

LEMMA NextKeepsSteps == InSteps /\ WrittenInv /\ Timely /\ [Next]_vars => InSteps'
  <1> SUFFICES ASSUME InSteps, WrittenInv, Timely, [Next]_vars PROVE InSteps'
    OBVIOUS
  <1>1. Clocks /\ PollTimes
    BY DEF WrittenInv, LogInv, Reading
  <1>2. CASE UNCHANGED <<polls, slices, store, oldest, lastPoll>>
    BY <1>1, <1>2, OthersKeepSteps DEF Reader
  <1>3. ASSUME NEW p \in Slots, Poll(p) PROVE InSteps'
    <2>1. CASE BeginPoll(p) \/ ReadStream(p)
      <3>1. UNCHANGED <<slices, store, oldest, lastPoll>>
        BY <2>1 DEF BeginPoll, ReadStream, genVars
      <3>2. ASSUME NEW q \in Slots
            PROVE  /\ Reader(q)' => Reader(q) /\ polls'[q].generation = polls[q].generation
                   /\ polls'[q].at = "updating" => polls[q].at = "updating"
        <4>1. polls \in [Slots -> PollRecord]
          BY <1>1 DEF PollTimes
        <4>2. CASE BeginPoll(p)
          BY <4>1, <4>2 DEF BeginPoll, Reader, PollRecord
        <4>3. CASE ReadStream(p)
          <5> DEFINE w == Log(FirstLine(p), LastLine(p))
                     more == [polls[p] EXCEPT !.at = "queueing", !.lines = w]
                     x == IF w = <<>> THEN Idle ELSE more
          <5>1. polls[p].at = "reading" /\ polls' = [polls EXCEPT ![p] = x]
            BY <4>3 DEF ReadStream, ReadUpTo
          <5>2. more.at = "queueing" /\ more.generation = polls[p].generation
            <6> HIDE DEF w
            <6>1. polls[p] \in PollRecord
              BY <4>1
            <6> QED
              BY <6>1 DEF PollRecord
          <5>3. x.at = "idle" \/ (x.at = "queueing" /\ x.generation = polls[p].generation)
            <6> HIDE DEF more, w
            <6> QED
              BY <5>2 DEF Idle
          <5> HIDE DEF x
          <5>4. polls'[p] = x /\ (q # p => polls'[q] = polls[q])
            BY <4>1, <5>1
          <5> QED
            BY <5>1, <5>3, <5>4 DEF Reader
        <4> QED
          BY <2>1, <4>2, <4>3
      <3> QED
        BY <1>1, <3>1, <3>2, OthersKeepSteps
    <2>2. ~BreakStream(p)
      BY DEF BreakStream, Timely
    <2> QED
      BY <1>3, <2>1, <2>2, OpenStreamKeepsSteps, QueueSliceKeepsSteps, SetLastPollKeepsSteps
      DEF Poll
  <1>4. CASE Processor
    <2>1. CASE StartProcessor \/ QueueLine \/ LinesQueued \/ TakeSliceQuit \/ FlushAll
               \/ SignalWriter
      BY <1>2, <2>1 DEF StartProcessor, QueueLine, LinesQueued, TakeSliceQuit, FlushAll,
                        SignalWriter, pollVars, genVars
    <2> QED
      BY <1>4, <2>1, TakeSliceKeepsSteps, FlushKeepsSteps DEF Processor
  <1>5. CASE Tick \/ Writer \/ Dumper \/ UNCHANGED vars
    BY <1>2, <1>5 DEF Tick, Writer, StartWriter, WriteLine, WriterDone, Dumper, DumpSlice,
                      DumperDone, vars, pollVars, genVars
  <1>6. CASE CleanUp
    BY <1>2, <1>6 DEF CleanUp, BeginCleanUp, AwaitGoroutines, StopDumper, CleanUpDone, pollVars,
                      genVars
  <1> QED
    BY <1>3, <1>4, <1>5, <1>6 DEF Next, Sleep, Ended

LEMMA StepsInductive == ASSUME Timely PROVE Spec => []InSteps
  <1>1. Init => InSteps
    <2> SUFFICES ASSUME Init PROVE InSteps
      OBVIOUS
    <2>1. /\ lastPoll.generation = 0 /\ slices = <<>> /\ DOMAIN store = {}
          /\ \A p \in Slots : polls[p].at = "idle"
      BY DEF Init, Idle
    <2>2. Len(slices) = 0 /\ 0 .. 0 = {0} /\ 1 .. 0 = {}
      BY <2>1
    <2>3. Filed(0) = {}
      BY <2>1, <2>2 DEF Filed
    <2>4. \A k : Behind(k) = {}
      BY <2>1 DEF Behind, Reader
    <2>5. Cardinality({}) = 0 /\ MaxRunningPolls \in Nat
      BY FS_EmptySet, BehindIs
    <2>6. ASSUME NEW k \in Nat
          PROVE  lastPoll.generation + Cardinality(Behind(k)) <= k + MaxRunningPolls
      <3>1. lastPoll.generation = 0 /\ Cardinality(Behind(k)) = 0
        BY <2>1, <2>4, <2>5
      <3> QED
        BY <2>5, <3>1
    <2>7. \A i \in 0 .. Len(slices) : \A k : ~Beyond(Filed(i), k)
      BY <2>2, <2>3 DEF Beyond
    <2> QED
      BY <2>1, <2>6, <2>7 DEF InSteps
  <1>2. InSteps /\ WrittenInv /\ [Next]_vars => InSteps'
    BY NextKeepsSteps
  <1> QED
    BY <1>1, <1>2, WrittenInductive, PTL DEF Spec

\* A flush that is due has something to flush besides the oldest generation, which moves on,
\* as long as no more polls are at work than generations are kept (3 against 5,
\* runner.go:20, dedup.go:15): the generation after the oldest is then within reach
\* (lines.go:215-237).
THEOREM FlushesAdvance ==
  ASSUME Timely, MaxRunningPolls <= keepGenerations
  PROVE  Spec => []FlushMakesProgress
  <1>1. InSteps /\ WrittenInv => FlushMakesProgress
    <2> SUFFICES ASSUME InSteps, WrittenInv, ShouldFlush
                 PROVE  /\ oldest \in FlushableGenerations
                        /\ Cardinality(FlushableGenerations) > 1
      BY DEF FlushMakesProgress
    <2> DEFINE G == FlushableGenerations
    <2>1. LogInv /\ Begun /\ Shapes /\ latest \in Nat /\ oldest \in Nat
      BY DEF WrittenInv, LogInv, Reading, InStore
    <2>2. /\ G = {h \in DOMAIN store : h <= oldest + keepGenerations}
          /\ oldest \in G /\ latest \in DOMAIN store \ G
      BY <2>1, FlushableAre
    <2>3. oldest < latest
      BY <2>1, <2>2, Constants
    <2>4. Len(slices) \in Nat /\ Filed(0) = DOMAIN store /\ \A h \in DOMAIN store : h \in Nat
      <3>1. 1 .. 0 = {}
        OBVIOUS
      <3> QED
        BY <2>1, <3>1, FiledIs DEF Filed, Shapes
    <2>5. PICK g \in DOMAIN store : oldest < g /\ g <= oldest + MaxRunningPolls
      <3>1. Beyond(Filed(0), oldest)
        BY <2>2, <2>3, <2>4 DEF Beyond
      <3>2. 0 \in 0 .. Len(slices) /\ oldest <= oldest
        BY <2>1, <2>4
      <3>3. Near(Filed(0), oldest)
        BY <2>1, <3>1, <3>2 DEF InSteps
      <3> QED
        BY <2>4, <3>3 DEF Near
    <2>6. g \in G /\ g # oldest
      <3>1. MaxRunningPolls \in Nat
        BY BehindIs
      <3> QED
        BY <2>1, <2>2, <2>4, <2>5, <3>1, Constants
    <2> HIDE DEF G
    <2>7. IsFiniteSet({oldest} \cup {g}) /\ Cardinality({oldest} \cup {g}) = 2
      <3>1. IsFiniteSet({oldest}) /\ Cardinality({oldest}) = 1
        BY FS_Singleton
      <3>2. g \notin {oldest}
        BY <2>6
      <3>3. /\ IsFiniteSet({oldest} \cup {g})
            /\ Cardinality({oldest} \cup {g})
                 = IF g \in {oldest} THEN Cardinality({oldest}) ELSE Cardinality({oldest}) + 1
        <4> DEFINE S == {oldest}
        <4> HIDE DEF S
        <4>1. IsFiniteSet(S)
          BY <3>1 DEF S
        <4>2. /\ IsFiniteSet(S \cup {g})
              /\ Cardinality(S \cup {g})
                   = IF g \in S THEN Cardinality(S) ELSE Cardinality(S) + 1
          BY <4>1, FS_AddElement
        <4> QED
          BY <4>2 DEF S
      <3> QED
        BY <3>1, <3>2, <3>3
    <2>8. IsFiniteSet(G)
      <3>1. IsFiniteSet(DOMAIN store) /\ G \in SUBSET DOMAIN store
        BY <2>1, <2>2 DEF Shapes
      <3> QED
        BY <3>1, FS_Subset
    <2>9. {oldest} \cup {g} \in SUBSET G
      BY <2>2, <2>6
    <2>10. Cardinality({oldest} \cup {g}) <= Cardinality(G) /\ Cardinality(G) \in Nat
      BY <2>8, <2>9, FS_Subset, FS_CardinalityType
    <2> QED
      BY <2>2, <2>7, <2>10 DEF G
  <1> QED
    BY <1>1, StepsInductive, WrittenInductive, PTL
====================================================================================
