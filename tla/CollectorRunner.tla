----------------------------- MODULE CollectorRunner -----------------------------
(***************************************************************************)
(* The runner of the collection tool (pkg/runner/runner.go): a main        *)
(* goroutine that builds, starts and cleans up the collectors, one poller  *)
(* goroutine per collector, and one goroutine per poll.  They interact     *)
(* through wait groups whose counts are read without waiting, the bounded  *)
(* channels pollResults and erroredPolls, and one quit channel each for    *)
(* the process and for every poller.                                       *)
(*                                                                         *)
(* Time is abstract: expired says that endTime has passed, and whether a   *)
(* poll interval has elapsed is a free choice.  A poll is known by its     *)
(* stage alone, so the polls of a collector are counted per stage.         *)
(*                                                                         *)
(* Nothing in the code receives from erroredPolls: the DevInfo collector   *)
(* monitors the channel of its constructor, which is never set, and not    *)
(* the runner's.                                                           *)
(***************************************************************************)
EXTENDS Naturals, Sequences, FiniteSets

CONSTANTS Collectors,            \* registered collectors that are not announcers
          Announcers,            \* registered announcers
          MaxRunningPolls,       \* maxRunningPolls
          PollResultsQueueSize,  \* pollResultsQueueSize, of both result channels
          FatalBuild,            \* collectors whose builder may fail for good
          FatalStart,            \* collectors whose Start may return an error
          FatalCleanUp,          \* collectors whose CleanUp may return an error
          CallbackMayFail,       \* whether the callback's CleanUp may fail
          MaxPolls,              \* bound: polls per collector
          MaxIssues,             \* bound: polls that come back with errors
          MaxSignals             \* bound: termination signals delivered

Names == Collectors \cup Announcers

ASSUME RunnerAssumption ==
  /\ IsFiniteSet(Collectors)
  /\ IsFiniteSet(Announcers)
  /\ Collectors \cap Announcers = {}
  /\ MaxRunningPolls \in Nat \ {0}
  /\ PollResultsQueueSize \in Nat \ {0}
  /\ MaxPolls \in Nat \ {0}
  /\ MaxIssues \in Nat
  /\ MaxSignals \in Nat
  /\ CallbackMayFail \in BOOLEAN

VARIABLES
  main,           \* where CollectorRunner.Run is
  todo,           \* names still to visit in the range loop Run is in
  life,           \* stage of each collector; not "absent" = in collectorInstances
  wg,             \* runningCollectorsWG and runningAnnouncersWG
  poller,         \* where each poller goroutine is
  polled,         \* polls a poller has begun; lastPoll.IsZero() iff 0
  runningPolls,   \* the count of each poller's own WaitGroupCount
  polls,          \* polls of each collector, counted by stage
  pollResults,    \* the channel of poll results, oldest first
  erroredPolls,   \* length of the channel of results with errors
  quit,           \* length of the process's signal channel
  collectorQuit,  \* length of each poller's signal channel
  expired,        \* endTime has passed
  issues,         \* polls that came back with errors, capped by MaxIssues
  signals         \* signals delivered, capped by MaxSignals

mainVars   == <<main, todo, life>>
pollerVars == <<wg, poller, polled, runningPolls>>
chanVars   == <<pollResults, erroredPolls, quit, collectorQuit>>
envVars    == <<expired, issues, signals>>
vars       == <<mainVars, pollerVars, polls, chanVars, envVars>>

Outcomes == {"ok", "issues"}
Stages   == {"fetching", "ok", "issues", "delivered"}

IsAnnouncer(c)  == c \in Announcers
Instances       == {c \in Names : life[c] # "absent"}
OnlyAnnouncers  == \A c \in Instances : IsAnnouncer(c)
Group(c)        == IF IsAnnouncer(c) THEN "announcers" ELSE "collectors"
Alive           == main \notin {"done", "exited"}

\* A sync.WaitGroup with a count that can be read.
EmptyWG == [count |-> 0, members |-> 0]

Init ==
  /\ main = "initialise"
  /\ todo = Names
  /\ life = [c \in Names |-> "absent"]
  /\ wg = [g \in {"collectors", "announcers"} |-> EmptyWG]
  /\ poller = [c \in Names |-> "none"]
  /\ polled = [c \in Names |-> 0]
  /\ runningPolls = [c \in Names |-> 0]
  /\ polls = [c \in Names |-> [s \in Stages |-> 0]]
  /\ pollResults = <<>>
  /\ erroredPolls = 0
  /\ quit = 0
  /\ collectorQuit = [c \in Names |-> 0]
  /\ expired = FALSE
  /\ issues = 0
  /\ signals = 0
-----------------------------------------------------------------------------
(***************************************************************************)
(* Setting up: initialise, then start                                      *)
(***************************************************************************)

\* The builder returns a collector, which joins collectorInstances.
BuildCollector(c) ==
  /\ main = "initialise" /\ c \in todo
  /\ todo' = todo \ {c}
  /\ life' = [life EXCEPT ![c] = "built"]
  /\ UNCHANGED <<main, pollerVars, polls, chanVars, envVars>>

\* A GPS collector on a boundary clock, an unknown name, or a collector whose
\* requirements are not met: it is left out and the run goes on.
SkipCollector(c) ==
  /\ main = "initialise" /\ c \in todo
  /\ todo' = todo \ {c}
  /\ UNCHANGED <<main, life, pollerVars, polls, chanVars, envVars>>

InitialiseDone ==
  /\ main = "initialise" /\ todo = {}
  /\ main' = "start"
  /\ todo' = Instances
  /\ UNCHANGED <<life, pollerVars, polls, chanVars, envVars>>

\* Mutant: the wait group is not joined.
StartCollectorWithoutAdd(c) ==
  /\ main = "start" /\ c \in todo
  /\ IsAnnouncer(c) => todo \subseteq Announcers
  /\ todo' = todo \ {c}
  /\ life' = [life EXCEPT ![c] = "started"]
  /\ poller' = [poller EXCEPT ![c] = "loop"]
  /\ UNCHANGED <<main, wg, polled, runningPolls, polls, chanVars, envVars>>

\* Mutant: collectors and announcers are started in one map iteration.
StartCollectorInAnyOrder(c) ==
  /\ main = "start" /\ c \in todo
  /\ todo' = todo \ {c}
  /\ life' = [life EXCEPT ![c] = "started"]
  /\ wg' = [wg EXCEPT ![Group(c)].count = @ + 1, ![Group(c)].members = @ + 1]
  /\ poller' = [poller EXCEPT ![c] = "loop"]
  /\ UNCHANGED <<main, polled, runningPolls, polls, chanVars, envVars>>

\* The collectors are started first, in map order, and the announcers after
\* them; the wait group is joined before the poller goroutine is spawned.
StartCollector(c) ==
  /\ main = "start" /\ c \in todo
  /\ IsAnnouncer(c) => todo \subseteq Announcers
  /\ todo' = todo \ {c}
  /\ life' = [life EXCEPT ![c] = "started"]
  /\ wg' = [wg EXCEPT ![Group(c)].count = @ + 1, ![Group(c)].members = @ + 1]
  /\ poller' = [poller EXCEPT ![c] = "loop"]
  /\ UNCHANGED <<main, polled, runningPolls, polls, chanVars, envVars>>

StartDone ==
  /\ main = "start" /\ todo = {}
  /\ main' = "countCollectors"
  /\ UNCHANGED <<todo, life, pollerVars, polls, chanVars, envVars>>
-----------------------------------------------------------------------------
(***************************************************************************)
(* A poller goroutine                                                      *)
(***************************************************************************)

\* Mutant: an announcer waits for its own group to become empty.
ShouldKeepPollingOwnGroup(c) ==
  IF IsAnnouncer(c) /\ ~OnlyAnnouncers THEN wg[Group(c)].count > 0
                                       ELSE ~expired

\* An announcer keeps going while collectors are running, everything else
\* until the requested duration is over.
ShouldKeepPolling(c) ==
  IF IsAnnouncer(c) /\ ~OnlyAnnouncers THEN wg["collectors"].count > 0
                                       ELSE ~expired

\* Mutant: one poll too many is let through.
PollerLoopOffByOne(c) ==
  /\ Alive /\ poller[c] = "loop"
  /\ poller' = [poller EXCEPT ![c] =
       IF ~ShouldKeepPolling(c) THEN "drain"
       ELSE IF runningPolls[c] > MaxRunningPolls THEN "full" ELSE "select"]
  /\ UNCHANGED <<mainVars, wg, polled, runningPolls, polls, chanVars, envVars>>

\* The head of the poller's loop, with the count of running polls it reads.
PollerLoop(c) ==
  /\ Alive /\ poller[c] = "loop"
  /\ poller' = [poller EXCEPT ![c] =
       IF ~ShouldKeepPolling(c) THEN "drain"
       ELSE IF runningPolls[c] >= MaxRunningPolls THEN "full" ELSE "select"]
  /\ UNCHANGED <<mainVars, wg, polled, runningPolls, polls, chanVars, envVars>>

\* runningPolls.Wait() when too many polls are running.
AwaitRunningPolls(c) ==
  /\ Alive /\ poller[c] = "full"
  /\ runningPolls[c] = 0
  /\ poller' = [poller EXCEPT ![c] = "select"]
  /\ UNCHANGED <<mainVars, wg, polled, runningPolls, polls, chanVars, envVars>>

\* Mutant: the case breaks out of the select only, not out of the loop.
TakeQuitAndGoOn(c) ==
  /\ Alive /\ poller[c] = "select"
  /\ collectorQuit[c] > 0
  /\ collectorQuit' = [collectorQuit EXCEPT ![c] = @ - 1]
  /\ poller' = [poller EXCEPT ![c] = "loop"]
  /\ UNCHANGED <<mainVars, wg, polled, runningPolls, polls, pollResults,
                 erroredPolls, quit, envVars>>

\* select, case <-quit
TakeQuit(c) ==
  /\ Alive /\ poller[c] = "select"
  /\ collectorQuit[c] > 0
  /\ collectorQuit' = [collectorQuit EXCEPT ![c] = @ - 1]
  /\ poller' = [poller EXCEPT ![c] = "drain"]
  /\ UNCHANGED <<mainVars, wg, polled, runningPolls, polls, pollResults,
                 erroredPolls, quit, envVars>>

\* Mutant: default is taken although the signal has arrived.
EnterDefaultBeforeQuit(c) ==
  /\ Alive /\ poller[c] = "select"
  /\ poller' = [poller EXCEPT ![c] = "default"]
  /\ UNCHANGED <<mainVars, wg, polled, runningPolls, polls, chanVars, envVars>>

\* select, default.  Nothing looks at quit again until the next turn of the loop.
EnterDefault(c) ==
  /\ Alive /\ poller[c] = "select"
  /\ collectorQuit[c] = 0
  /\ poller' = [poller EXCEPT ![c] = "default"]
  /\ UNCHANGED <<mainVars, wg, polled, runningPolls, polls, chanVars, envVars>>

\* The interval has elapsed (always so the first time).
BeginPoll(c) ==
  /\ Alive /\ poller[c] = "default"
  /\ polled[c] < MaxPolls
  /\ polled' = [polled EXCEPT ![c] = @ + 1]
  /\ runningPolls' = [runningPolls EXCEPT ![c] = @ + 1]
  /\ polls' = [polls EXCEPT ![c]["fetching"] = @ + 1]
  /\ poller' = [poller EXCEPT ![c] = "loop"]
  /\ UNCHANGED <<mainVars, wg, chanVars, envVars>>

\* The interval has not elapsed.
SkipPoll(c) ==
  /\ Alive /\ poller[c] = "default"
  /\ polled[c] > 0
  /\ poller' = [poller EXCEPT ![c] = "loop"]
  /\ UNCHANGED <<mainVars, wg, polled, runningPolls, polls, chanVars, envVars>>

\* Mutant: the poller leaves its running polls behind.
DrainPollsWithoutWait(c) ==
  /\ Alive /\ poller[c] = "drain"
  /\ wg' = [wg EXCEPT ![Group(c)].count = @ - 1]
  /\ poller' = [poller EXCEPT ![c] = "leaving"]
  /\ UNCHANGED <<mainVars, polled, runningPolls, polls, chanVars, envVars>>

\* runningPolls.Wait() on either way out, and the first half of the deferred
\* wg.Done(): the readable count goes down.
DrainPolls(c) ==
  /\ Alive /\ poller[c] = "drain"
  /\ runningPolls[c] = 0
  /\ wg' = [wg EXCEPT ![Group(c)].count = @ - 1]
  /\ poller' = [poller EXCEPT ![c] = "leaving"]
  /\ UNCHANGED <<mainVars, polled, runningPolls, polls, chanVars, envVars>>

\* The second half of wg.Done(): waiters are released.
PollerDone(c) ==
  /\ Alive /\ poller[c] = "leaving"
  /\ wg' = [wg EXCEPT ![Group(c)].members = @ - 1]
  /\ poller' = [poller EXCEPT ![c] = "gone"]
  /\ UNCHANGED <<mainVars, polled, runningPolls, polls, chanVars, envVars>>
-----------------------------------------------------------------------------
(***************************************************************************)
(* A poll goroutine                                                        *)
(***************************************************************************)

\* One poll of c goes from one stage to another.
MovePoll(c, from, to) ==
  /\ Alive /\ polls[c][from] > 0
  /\ polls' = [polls EXCEPT ![c][from] = @ - 1, ![c][to] = @ + 1]

\* poll() returns, with or without an error.
FetchEnds(c, o) ==
  /\ MovePoll(c, "fetching", o)
  /\ o = "issues" => issues < MaxIssues
  /\ issues' = IF o = "issues" THEN issues + 1 ELSE issues
  /\ UNCHANGED <<mainVars, pollerVars, chanVars, expired, signals>>

\* resultsChan <- PollResult, which blocks while the channel is full.
SendResult(c, o) ==
  /\ MovePoll(c, o, "delivered")
  /\ Len(pollResults) < PollResultsQueueSize
  /\ pollResults' = Append(pollResults, o)
  /\ UNCHANGED <<mainVars, pollerVars, erroredPolls, quit, collectorQuit, envVars>>

\* The deferred wg.Done() of Poll.  Its two halves are one step: the wait group
\* is read by one poller alone, to which a half-done Done looks like none.
PollDone(c) ==
  /\ Alive /\ polls[c]["delivered"] > 0
  /\ polls' = [polls EXCEPT ![c]["delivered"] = @ - 1]
  /\ runningPolls' = [runningPolls EXCEPT ![c] = @ - 1]
  /\ UNCHANGED <<mainVars, wg, poller, polled, chanVars, envVars>>
-----------------------------------------------------------------------------
(***************************************************************************)
(* The main loop                                                           *)
(***************************************************************************)

\* The loop condition adds two counts, read one after the other.
CountCollectors ==
  /\ main = "countCollectors"
  /\ main' = IF wg["collectors"].count > 0 THEN "select" ELSE "countAnnouncers"
  /\ UNCHANGED <<todo, life, pollerVars, polls, chanVars, envVars>>

\* Mutant: only the collectors are counted.
CountAnnouncersNot ==
  /\ main = "countAnnouncers"
  /\ main' = "cleanUp"
  /\ todo' = Instances
  /\ UNCHANGED <<life, pollerVars, polls, chanVars, envVars>>

CountAnnouncers ==
  /\ main = "countAnnouncers"
  /\ IF wg["announcers"].count > 0
       THEN main' = "select" /\ UNCHANGED todo
       ELSE main' = "cleanUp" /\ todo' = Instances
  /\ UNCHANGED <<life, pollerVars, polls, chanVars, envVars>>

\* select, case sig := <-runner.quit
TakeSignal ==
  /\ main = "select"
  /\ quit > 0
  /\ quit' = quit - 1
  /\ main' = "forward"
  /\ todo' = Instances
  /\ UNCHANGED <<life, pollerVars, polls, pollResults, erroredPolls,
                 collectorQuit, envVars>>

\* quit <- sig, which blocks while the poller's channel is full.
ForwardSignal(c) ==
  /\ main = "forward" /\ c \in todo
  /\ collectorQuit[c] = 0
  /\ collectorQuit' = [collectorQuit EXCEPT ![c] = @ + 1]
  /\ todo' = todo \ {c}
  /\ UNCHANGED <<main, life, pollerVars, polls, pollResults, erroredPolls, quit,
                 envVars>>

\* Mutant: the loop goes on without waiting for the pollers.
ForwardDoneWithoutWait ==
  /\ main = "forward" /\ todo = {}
  /\ main' = "countCollectors"
  /\ UNCHANGED <<todo, life, pollerVars, polls, chanVars, envVars>>

ForwardDone ==
  /\ main = "forward" /\ todo = {}
  /\ main' = "awaitCollectors"
  /\ UNCHANGED <<todo, life, pollerVars, polls, chanVars, envVars>>

AwaitCollectors ==
  /\ main = "awaitCollectors"
  /\ wg["collectors"].members = 0
  /\ main' = "awaitAnnouncers"
  /\ UNCHANGED <<todo, life, pollerVars, polls, chanVars, envVars>>

AwaitAnnouncers ==
  /\ main = "awaitAnnouncers"
  /\ wg["announcers"].members = 0
  /\ main' = "countCollectors"
  /\ UNCHANGED <<todo, life, pollerVars, polls, chanVars, envVars>>

\* select, case pollRes := <-runner.pollResults
ReceiveResult ==
  /\ main = "select"
  /\ pollResults # <<>>
  /\ pollResults' = Tail(pollResults)
  /\ main' = IF Head(pollResults) = "issues" THEN "report" ELSE "countCollectors"
  /\ UNCHANGED <<todo, life, pollerVars, polls, erroredPolls, quit, collectorQuit,
                 envVars>>

\* runner.erroredPolls <- pollRes, which blocks while the channel is full.
ReportIssues ==
  /\ main = "report"
  /\ erroredPolls < PollResultsQueueSize
  /\ erroredPolls' = erroredPolls + 1
  /\ main' = "countCollectors"
  /\ UNCHANGED <<todo, life, pollerVars, polls, pollResults, quit, collectorQuit,
                 envVars>>

\* select, default
MainSleep ==
  /\ main = "select"
  /\ quit = 0 /\ pollResults = <<>>
  /\ main' = "countCollectors"
  /\ UNCHANGED <<todo, life, pollerVars, polls, chanVars, envVars>>
-----------------------------------------------------------------------------
(***************************************************************************)
(* Cleaning up, and the ways the process exits early                       *)
(***************************************************************************)

CleanUp(c) ==
  /\ main = "cleanUp" /\ c \in todo
  /\ todo' = todo \ {c}
  /\ life' = [life EXCEPT ![c] = "cleaned"]
  /\ UNCHANGED <<main, pollerVars, polls, chanVars, envVars>>

Finish ==
  /\ main = "cleanUp" /\ todo = {}
  /\ main' \in IF CallbackMayFail THEN {"done", "exited"} ELSE {"done"}
  /\ UNCHANGED <<todo, life, pollerVars, polls, chanVars, envVars>>

\* utils.IfErrorExitOrPanic on a step of the loop over the collectors: the
\* process ends there, whatever is left of the loop.
Abort(c) ==
  /\ c \in todo
  /\ \/ main = "initialise" /\ c \in FatalBuild
     \/ main = "start" /\ c \in FatalStart /\ (IsAnnouncer(c) => todo \subseteq Announcers)
     \/ main = "cleanUp" /\ c \in FatalCleanUp
  /\ main' = "exited"
  /\ UNCHANGED <<todo, life, pollerVars, polls, chanVars, envVars>>
-----------------------------------------------------------------------------
(***************************************************************************)
(* The environment: time passes and signals arrive.  signal.Notify never   *)
(* blocks: a signal that finds the channel full is dropped.                *)
(***************************************************************************)
Expire ==
  /\ Alive /\ ~expired
  /\ expired' = TRUE
  /\ UNCHANGED <<mainVars, pollerVars, polls, chanVars, issues, signals>>

DeliverSignal ==
  /\ Alive /\ signals < MaxSignals
  /\ signals' = signals + 1
  /\ quit' = 1
  /\ UNCHANGED <<mainVars, pollerVars, polls, pollResults, erroredPolls,
                 collectorQuit, expired, issues>>

\* The process has ended; nothing moves any more.
Ended == ~Alive /\ UNCHANGED vars
-----------------------------------------------------------------------------
Setup(c) == BuildCollector(c) \/ SkipCollector(c) \/ StartCollector(c)

Poller(c) == \/ PollerLoop(c) \/ AwaitRunningPolls(c) \/ TakeQuit(c)
             \/ EnterDefault(c) \/ BeginPoll(c) \/ SkipPoll(c) \/ DrainPolls(c) \/ PollerDone(c)

Poll(c) == \/ \E o \in Outcomes : FetchEnds(c, o) \/ SendResult(c, o)
           \/ PollDone(c)

MainLoop == \/ CountCollectors \/ CountAnnouncers \/ TakeSignal \/ ForwardDone
            \/ AwaitCollectors \/ AwaitAnnouncers \/ ReceiveResult
            \/ ReportIssues \/ MainSleep

Main == \/ InitialiseDone \/ StartDone \/ MainLoop \/ Finish
        \/ \E c \in Names : Setup(c) \/ ForwardSignal(c) \/ CleanUp(c) \/ Abort(c)

Next == \/ Main
        \/ \E c \in Names : Poller(c) \/ Poll(c)
        \/ Expire \/ DeliverSignal \/ Ended

Spec == Init /\ [][Next]_vars

\* The Go scheduler runs every goroutine that can run, and a poll that is
\* fetching returns: each fetch is a command with an answer or a request with
\* a timeout.
Fairness == /\ WF_vars(Main)
            /\ \A c \in Names :
                 /\ WF_vars(Poller(c))
                 /\ WF_vars(\E o \in Outcomes : FetchEnds(c, o))
                 /\ \A o \in Outcomes : WF_vars(SendResult(c, o))
                 /\ WF_vars(PollDone(c))

FairSpec == Spec /\ Fairness
-----------------------------------------------------------------------------
(***************************************************************************)
(* Properties                                                              *)
(***************************************************************************)
MainStates == {"initialise", "start", "countCollectors", "countAnnouncers", "select",
               "report", "forward", "awaitCollectors", "awaitAnnouncers", "cleanUp",
               "done", "exited"}
PollerStates ==
  {"none", "loop", "full", "select", "default", "drain", "leaving", "gone"}

WaitGroups == [count : Nat, members : Nat]

TypeOK ==
  /\ main \in MainStates
  /\ todo \subseteq Names
  /\ life \in [Names -> {"absent", "built", "started", "cleaned"}]
  /\ wg \in [{"collectors", "announcers"} -> WaitGroups]
  /\ poller \in [Names -> PollerStates]
  /\ polled \in [Names -> 0..MaxPolls]
  /\ runningPolls \in [Names -> Nat]
  /\ polls \in [Names -> [Stages -> Nat]]
  /\ pollResults \in Seq(Outcomes)
  /\ Len(pollResults) <= PollResultsQueueSize
  /\ erroredPolls \in 0..PollResultsQueueSize
  /\ quit \in 0..1
  /\ collectorQuit \in [Names -> 0..1]
  /\ expired \in BOOLEAN
  /\ issues \in 0..MaxIssues
  /\ signals \in 0..MaxSignals

\* Polls of c that are still fetching, or blocked handing over their result.
Undelivered(c) == polls[c]["fetching"] + polls[c]["ok"] + polls[c]["issues"]

\* A slow cluster or a full pollResults never makes polls pile up: no more than
\* maxRunningPolls polls of one collector are at work (runner.go:144-148).
RunningPollsBounded == \A c \in Names : Undelivered(c) <= MaxRunningPolls

Stopped(c) == poller[c] \in {"none", "leaving", "gone"}

\* Once the runner cleans up, every poller has left its loop and no poll is at
\* work any more, so no collector is polled while or after it is cleaned up.
CleanUpIsQuiescent ==
  main \in {"cleanUp", "done"} => \A c \in Names : Stopped(c) /\ Undelivered(c) = 0

\* An announcer polls for as long as some collector is running: unless a
\* signal was forwarded it leaves its loop only after the last collector did.
AnnouncersOutliveCollectors ==
  /\ main \in {"start", "countCollectors", "countAnnouncers", "select", "report"}
  /\ \A c \in Names : collectorQuit[c] = 0
  /\ \E a \in Announcers : poller[a] \in {"drain", "leaving", "gone"}
  /\ ~OnlyAnnouncers
  => \A c \in Collectors : Stopped(c)

\* Forwarding a signal never blocks the main goroutine, however many signals
\* arrive and whether or not the poller still listens (runner.go:255-260).
ForwardNeverBlocks == main = "forward" => \A c \in todo : collectorQuit[c] = 0

\* The signal that main took has been put into the quit channel of c.
Told(c) == \/ main = "forward" /\ c \notin todo
           \/ main \in {"awaitCollectors", "awaitAnnouncers"}

\* Once it was told to quit a poller begins at most one more poll, the one it was
\* committed to by having passed its select already (runner.go:158): it begins
\* none elsewhere, and does not get to that place again.
OnePollAfterForward ==
  [][\A c \in Names : Told(c) =>
       /\ poller'[c] = "default" => poller[c] = "default" /\ polled'[c] = polled[c]
       /\ polled'[c] = polled[c] \/ (poller[c] = "default" /\ polled'[c] = polled[c] + 1)]_vars

\* The runner implements the life of a collector as its interface promises it.
Lifecycle == INSTANCE CollectorLifecycle WITH
               running <- [c \in Names |-> Undelivered(c)]
ImplementsLifecycle == Lifecycle!Spec

\* The main goroutine is never held up for good by erroredPolls: its consumer
\* clears the backlog (dev_info_collector.go:53-55, runner.go:269-270).
ErroredPollsNeverBlockMain == (main = "report") ~> (main # "report")

\* When the requested duration is over the run ends with every collector
\* cleaned up (runner.go:237-240), unless a signal comes in between.
DurationEndsInCleanUp == expired ~> (main = "done" \/ signals > 0)

\* After SIGINT or SIGTERM the run ends with every collector cleaned up
\* ("handle shut down gracefully", runner.go:27).
SignalEndsInCleanUp == (quit > 0) ~> (main = "done")
=============================================================================
