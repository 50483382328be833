------------------------------ MODULE DevInfoCollector ------------------------------
(***************************************************************************)
(* The DevInfo collector (collectors/dev_info_collector.go).  Its polls    *)
(* publish the device information it keeps, and read it from the daemon's  *)
(* pod again only when a fetch is required: main reports the results with  *)
(* errors of all collectors on erroredPolls, monitorErroredPolls turns     *)
(* them into a request on requiresFetch, and the next poll takes it.  The  *)
(* poll's own error goes the same way round.                               *)
(*                                                                         *)
(* The information is a version of the device's; the daemon's pods are     *)
(* numbered.  Polls are those CollectorRunner lets a collector have.  When *)
(* the collector is not wired, as in the program, whose constructor leaves *)
(* ErroredPolls nil, main's reports stay in the queue nobody reads.        *)
(***************************************************************************)
EXTENDS Naturals, Sequences, FiniteSets

CONSTANTS
  MaxRunningPolls,     \* polls of the collector at once
  PollResultsSize,     \* room in pollResults
  ErroredPollsSize,    \* room in erroredPolls
  MaxDaemons,          \* bound: pods of the daemon
  MaxVersion,          \* bound: changes of the device
  MaxIssues            \* bound: errors that are not for the want of the pod

ASSUME DevInfoAssumption ==
  /\ {MaxRunningPolls, PollResultsSize, ErroredPollsSize} \subseteq Nat \ {0}
  /\ {MaxDaemons, MaxVersion, MaxIssues} \subseteq Nat

VARIABLES
  daemons,       \* the daemon's pods on the node
  lastDaemon,    \* the last of them to be created
  device,        \* the version the device's information is at
  issues,        \* errors so far
  wired,         \* whether the constructor was given main's erroredPolls
  podName,       \* ctx.podName
  devInfo,       \* ptpDev.devInfo
  requiresFetch, \* length of the channel
  erroredPolls,  \* length of the channel
  pollResults,   \* results on their way to main: TRUE for one with errors
  polls,         \* the polls at work, by slot
  monitor,       \* where monitorErroredPolls is
  wg,            \* DevInfoCollector.wg
  polling,       \* whether the poller still spawns polls
  main           \* where the runner's main loop is

cluster  == <<daemons, lastDaemon, device>>
channels == <<requiresFetch, erroredPolls, pollResults>>
vars == <<cluster, issues, wired, podName, devInfo, channels, polls, monitor, wg,
          polling, main>>

Slots == 1 .. MaxRunningPolls
Idle  == [at |-> "idle", info |-> 0, error |-> FALSE]

Init ==
  /\ daemons = {1} /\ lastDaemon = 1 /\ device = 1
  /\ issues = 0
  /\ wired \in BOOLEAN
  /\ podName = 0 /\ devInfo = 0
  /\ requiresFetch = 0 /\ erroredPolls = 0 /\ pollResults = <<>>
  /\ polls = [p \in Slots |-> Idle]
  /\ monitor = "none" /\ wg = 0
  /\ polling = TRUE /\ main = "context"
-----------------------------------------------------------------------------
(***************************************************************************)
(* The cluster and the device                                              *)
(***************************************************************************)
Elsewhere == UNCHANGED <<issues, wired, podName, devInfo, channels, polls, monitor, wg,
                         polling, main>>

DaemonCreated == /\ lastDaemon < MaxDaemons /\ Cardinality(daemons) < 2
                 /\ lastDaemon' = lastDaemon + 1
                 /\ daemons' = daemons \cup {lastDaemon'}
                 /\ UNCHANGED device /\ Elsewhere

DaemonGone == /\ \E d \in daemons : /\ d # lastDaemon \/ lastDaemon < MaxDaemons
                                    /\ daemons' = daemons \ {d}
              /\ UNCHANGED <<lastDaemon, device>> /\ Elsewhere

DeviceChanges == /\ device < MaxVersion
                 /\ device' = device + 1
                 /\ UNCHANGED <<daemons, lastDaemon>> /\ Elsewhere

\* An error of the network, of a command, of what it has printed or of the output file.
Issue   == issues < MaxIssues /\ issues' = issues + 1
NoIssue == UNCHANGED issues

\* FindPodNameFromPrefix: the one pod of that prefix.
Found == Cardinality(daemons) = 1
TheDaemon == CHOOSE d \in daemons : TRUE

\* refresh, by execCommand when the pod of the context is not found.
Refreshed == IF Found THEN TheDaemon ELSE podName

\* What a fetch does: it succeeds, it does not find its pod, or it has another issue.
Succeeds == podName \in daemons /\ NoIssue /\ UNCHANGED podName
NotFound == podName \notin daemons /\ NoIssue /\ podName' = Refreshed
Fails    == NotFound \/ (Issue /\ UNCHANGED podName)
-----------------------------------------------------------------------------
(***************************************************************************)
(* NewDevInfoCollector and Start                                           *)
(***************************************************************************)
\* GetPTPDaemonContext
GetContext ==
  /\ main = "context"
  /\ \/ /\ Found /\ NoIssue
        /\ podName' = TheDaemon /\ main' = "fetcher"
     \/ /\ (~Found /\ NoIssue) \/ Issue
        /\ main' = "failed" /\ UNCHANGED podName
  /\ UNCHANGED <<cluster, wired, devInfo, channels, polls, monitor, wg, polling>>

\* BuildPTPDeviceInfo, once for all fetches.  A grand master's GNSS device is looked for;
\* that this fails is only logged.
BuildFetcher ==
  /\ main = "fetcher" /\ main' = "initialFetch"
  /\ Succeeds \/ Fails \/ (NoIssue /\ UNCHANGED podName)
  /\ UNCHANGED <<cluster, wired, devInfo, channels, polls, monitor, wg, polling>>

\* GetPTPDeviceInfo, and verify, which rejects an environment that is not valid.
InitialFetch ==
  /\ main = "initialFetch"
  /\ \/ Succeeds /\ devInfo' = device /\ main' \in {"start", "failed"}
     \/ Fails /\ main' = "failed" /\ UNCHANGED devInfo
  /\ UNCHANGED <<cluster, wired, channels, polls, monitor, wg, polling>>

Start ==
  /\ main = "start" /\ main' = "loop"
  /\ monitor' = "spawned"
  /\ UNCHANGED <<cluster, issues, wired, podName, devInfo, channels, polls, wg, polling>>
-----------------------------------------------------------------------------
(***************************************************************************)
(* monitorErroredPolls                                                     *)
(***************************************************************************)
Monitored == UNCHANGED <<cluster, issues, wired, podName, devInfo, pollResults, polls,
                         polling>>

\* Mutant of Join: the monitor does not count itself.
JoinWithoutAdd ==
  /\ monitor = "spawned" /\ monitor' = "select"
  /\ UNCHANGED <<requiresFetch, erroredPolls, main, wg>> /\ Monitored

\* wg.Add, by the goroutine itself.
Join ==
  /\ monitor = "spawned" /\ monitor' = "select"
  /\ wg' = wg + 1
  /\ UNCHANGED <<requiresFetch, erroredPolls, main>> /\ Monitored

\* Mutant of TakeErrored: the length of requiresFetch is not looked at.
TakeErroredAlways ==
  /\ monitor = "select" /\ wired /\ erroredPolls > 0
  /\ erroredPolls' = erroredPolls - 1
  /\ monitor' = "request"
  /\ UNCHANGED <<requiresFetch, wg, main>> /\ Monitored

\* An errored poll is received, and requiresFetch looked at.
TakeErrored ==
  /\ monitor = "select" /\ wired /\ erroredPolls > 0
  /\ erroredPolls' = erroredPolls - 1
  /\ monitor' = IF requiresFetch = 0 THEN "request" ELSE "select"
  /\ UNCHANGED <<requiresFetch, wg, main>> /\ Monitored

\* requiresFetch <- true
RequestFetch ==
  /\ monitor = "request" /\ requiresFetch < 1
  /\ requiresFetch' = requiresFetch + 1 /\ monitor' = "select"
  /\ UNCHANGED <<erroredPolls, wg, main>> /\ Monitored

\* Mutant of Leave: wg.Done is not deferred.
LeaveWithoutDone ==
  /\ monitor = "leaving" /\ monitor' = "gone"
  /\ UNCHANGED <<requiresFetch, erroredPolls, main, wg>> /\ Monitored

\* The deferred wg.Done of a monitor that has received from quit.
Leave ==
  /\ monitor = "leaving" /\ monitor' = "gone"
  /\ wg' = wg - 1
  /\ UNCHANGED <<requiresFetch, erroredPolls, main>> /\ Monitored
-----------------------------------------------------------------------------
(***************************************************************************)
(* Polls                                                                   *)
(***************************************************************************)
Polled == UNCHANGED <<cluster, wired, erroredPolls, monitor, wg, polling, main>>

BeginPoll(p) ==
  /\ main \in {"loop", "report"} /\ polling
  /\ polls[p] = Idle
  /\ polls' = [polls EXCEPT ![p].at = "select"]
  /\ UNCHANGED <<issues, podName, devInfo, requiresFetch, pollResults>> /\ Polled

\* The select of devInfoPoller: a required fetch is taken, or else what is kept.
Select(p) ==
  /\ polls[p].at = "select"
  /\ \/ /\ requiresFetch > 0
        /\ requiresFetch' = requiresFetch - 1
        /\ polls' = [polls EXCEPT ![p].at = "fetch"]
     \/ /\ requiresFetch = 0 /\ UNCHANGED requiresFetch
        /\ polls' = [polls EXCEPT ![p].at = "call", ![p].info = devInfo]
  /\ UNCHANGED <<issues, podName, devInfo, pollResults>> /\ Polled

\* GetPTPDeviceInfo
Fetch(p) ==
  /\ polls[p].at = "fetch"
  /\ \/ Succeeds /\ polls' = [polls EXCEPT ![p].at = "store", ![p].info = device]
     \/ Fails /\ polls' = [polls EXCEPT ![p].at = "deliver", ![p].error = TRUE]
  /\ UNCHANGED <<devInfo, requiresFetch, pollResults>> /\ Polled

\* ptpDev.devInfo = fetchedDevInfo, which another poll may do before or after.
Store(p) ==
  /\ polls[p].at = "store"
  /\ devInfo' = polls[p].info
  /\ polls' = [polls EXCEPT ![p].at = "call"]
  /\ UNCHANGED <<issues, podName, requiresFetch, pollResults>> /\ Polled

\* callback.Call
Call(p) ==
  /\ polls[p].at = "call"
  /\ \/ NoIssue /\ polls' = [polls EXCEPT ![p].at = "deliver"]
     \/ Issue /\ polls' = [polls EXCEPT ![p].at = "deliver", ![p].error = TRUE]
  /\ UNCHANGED <<podName, devInfo, requiresFetch, pollResults>> /\ Polled

\* The result of Poll is sent.
Deliver(p) ==
  /\ polls[p].at = "deliver" /\ Len(pollResults) < PollResultsSize
  /\ pollResults' = Append(pollResults, polls[p].error)
  /\ polls' = [polls EXCEPT ![p] = Idle]
  /\ UNCHANGED <<issues, podName, devInfo, requiresFetch>> /\ Polled

\* A poll of another collector has had errors.
OtherErrors ==
  /\ main \in {"loop", "report"} /\ polling
  /\ Len(pollResults) < PollResultsSize /\ Issue
  /\ pollResults' = Append(pollResults, TRUE)
  /\ UNCHANGED <<podName, devInfo, requiresFetch, polls>> /\ Polled
-----------------------------------------------------------------------------
(***************************************************************************)
(* The runner's main loop, and CleanUp                                     *)
(***************************************************************************)
Looped == UNCHANGED <<cluster, issues, wired, podName, devInfo, requiresFetch, polls>>

Receive ==
  /\ main = "loop" /\ pollResults # <<>>
  /\ pollResults' = Tail(pollResults)
  /\ main' = IF Head(pollResults) THEN "report" ELSE "loop"
  /\ UNCHANGED <<erroredPolls, monitor, wg, polling>> /\ Looped

\* erroredPolls <- pollRes
Report ==
  /\ main = "report" /\ erroredPolls < ErroredPollsSize
  /\ erroredPolls' = erroredPolls + 1 /\ main' = "loop"
  /\ UNCHANGED <<pollResults, monitor, wg, polling>> /\ Looped

\* The time is up, or the other collectors have finished.
StopPolling ==
  /\ polling /\ main \in {"loop", "report"}
  /\ polling' = FALSE
  /\ UNCHANGED <<erroredPolls, pollResults, monitor, wg, main>> /\ Looped

EndLoop ==
  /\ main = "loop" /\ ~polling /\ \A p \in Slots : polls[p] = Idle
  /\ main' = "cleanUp"
  /\ UNCHANGED <<erroredPolls, pollResults, monitor, wg, polling>> /\ Looped

\* Mutant of Quit: quit has room for the signal.
QuitBuffered ==
  /\ main = "cleanUp"
  /\ main' = "waiting"
  /\ monitor' = IF monitor = "select" THEN "leaving" ELSE monitor
  /\ UNCHANGED <<erroredPolls, pollResults, wg, polling>> /\ Looped

\* quit <- os.Kill: quit has no buffer, so the monitor receives in the same step.
Quit ==
  /\ main = "cleanUp" /\ monitor = "select"
  /\ main' = "waiting" /\ monitor' = "leaving"
  /\ UNCHANGED <<erroredPolls, pollResults, wg, polling>> /\ Looped

\* wg.Wait
Wait ==
  /\ main = "waiting" /\ wg = 0
  /\ main' = "done"
  /\ UNCHANGED <<erroredPolls, pollResults, monitor, wg, polling>> /\ Looped

Construct == GetContext \/ BuildFetcher \/ InitialFetch \/ Start
Monitor   == Join \/ TakeErrored \/ RequestFetch \/ Leave
Poll(p)   == Select(p) \/ Fetch(p) \/ Store(p) \/ Call(p) \/ Deliver(p)
Main      == Receive \/ Report \/ EndLoop \/ Quit \/ Wait

Next == \/ DaemonCreated \/ DaemonGone \/ DeviceChanges
        \/ Construct \/ Monitor \/ Main \/ OtherErrors \/ StopPolling
        \/ \E p \in Slots : BeginPoll(p) \/ Poll(p)

\* The goroutines of the monitor and of main go on; nothing else has to happen.
Fairness == WF_vars(Monitor) /\ WF_vars(Main)

Spec == Init /\ [][Next]_vars /\ Fairness
-----------------------------------------------------------------------------
(***************************************************************************)
(* Properties                                                              *)
(***************************************************************************)
\* The variables have their types; the channels hold no more than they have room for.
TypeOK ==
  /\ daemons \subseteq Nat /\ lastDaemon \in Nat /\ device \in Nat /\ issues \in Nat
  /\ wired \in BOOLEAN /\ polling \in BOOLEAN
  /\ podName \in Nat /\ devInfo \in Nat
  /\ requiresFetch \in 0 .. 1
  /\ erroredPolls \in 0 .. ErroredPollsSize
  /\ pollResults \in Seq(BOOLEAN) /\ Len(pollResults) <= PollResultsSize
  /\ polls \in [Slots -> [at : {"idle", "select", "fetch", "store", "call", "deliver"},
                          info : Nat, error : BOOLEAN]]
  /\ monitor \in {"none", "spawned", "select", "request", "leaving", "gone"}
  /\ wg \in Nat
  /\ main \in {"context", "fetcher", "initialFetch", "start", "loop", "report", "cleanUp",
               "waiting", "done", "failed"}

\* The monitor finds room in requiresFetch whenever it has decided to send, although
\* it looks at the length first and sends later: the potential deadlock that the
\* comment at dev_info_collector.go:66-68 is about does not come about.
MonitorNeverBlocks == monitor = "request" => requiresFetch = 0

\* When CleanUp has returned the monitor has ended, also one that had not been
\* scheduled before: wg.Add(1) is called by the goroutine itself, which alone would
\* let wg.Wait return at once (dev_info_collector.go:57, 104).
CleanUpWaits == main = "done" => monitor = "gone"

\* Main is not held up for good: it ends its clean-up, and it gets rid of an errored
\* poll if the collector receives them (dev_info_collector.go:50-55).
MainGoesOn ==
  (main \in {"cleanUp", "waiting"} \/ (wired /\ main = "report")) ~> main \in {"loop", "done"}
=============================================================================
