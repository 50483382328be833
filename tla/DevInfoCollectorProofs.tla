--------------------------- MODULE DevInfoCollectorProofs ---------------------------
(***************************************************************************)
(* Theorems about DevInfoCollector, for any number of polls and any size   *)
(* of its channels.  That the monitor never blocks on requiresFetch rests  *)
(* on its being the only sender; that wg counts the monitor exactly while  *)
(* it is between wg.Add and wg.Done, and that quit is handed over while it *)
(* is, make CleanUp wait for it (Control).                                 *)
(***************************************************************************)
EXTENDS DevInfoCollector, TLAPS, FiniteSetTheorems, SequenceTheorems

\* Where the monitor is, what wg counts and where main is go together.
Control ==
  /\ MonitorNeverBlocks
  /\ monitor \in {"select", "request", "leaving"} => wg = 1
  /\ monitor \in {"none", "spawned", "gone"} => wg = 0
  /\ main \in {"context", "fetcher", "initialFetch", "start"} => monitor = "none"
  /\ main = "waiting" => monitor \in {"leaving", "gone"}
  /\ CleanUpWaits

IInv == TypeOK /\ Control
-----------------------------------------------------------------------------
(***************************************************************************)
(* Types                                                                   *)
(***************************************************************************)
LEMMA InitIInv == Init => IInv
  <1>1. ErroredPollsSize \in Nat /\ PollResultsSize \in Nat
    BY DevInfoAssumption
  <1> QED
    BY <1>1 DEF Init, Idle, IInv, TypeOK, Control, MonitorNeverBlocks, CleanUpWaits

\* The pod that is found is one of the daemon's.
LEMMA FoundDaemon == TypeOK /\ Found => TheDaemon \in Nat
  <1> SUFFICES ASSUME TypeOK, Found PROVE TheDaemon \in Nat
    OBVIOUS
  <1>1. daemons # {}
    BY FS_EmptySet DEF Found
  <1> QED
    BY <1>1 DEF TypeOK, TheDaemon

\* A fetch, whatever its outcome, leaves a name in the context.
LEMMA AfterFetch ==
  ASSUME TypeOK, Succeeds \/ Fails \/ (NoIssue /\ UNCHANGED podName)
  PROVE  podName' \in Nat /\ issues' \in Nat
  <1>1. podName' \in Nat
    BY FoundDaemon DEF Succeeds, Fails, NotFound, Refreshed, TypeOK
  <1>2. issues' \in Nat
    BY DEF Succeeds, Fails, NotFound, NoIssue, Issue, TypeOK
  <1> QED
    BY <1>1, <1>2

LEMMA ConstructTypes == TypeOK /\ Construct => TypeOK'
  <1> SUFFICES ASSUME TypeOK, Construct PROVE TypeOK'
    OBVIOUS
  <1>1. CASE GetContext
    <2>1. podName' \in Nat /\ issues' \in Nat
      BY <1>1, FoundDaemon DEF GetContext, NoIssue, Issue, TypeOK
    <2> QED
      BY <1>1, <2>1 DEF GetContext, TypeOK, cluster, channels
  <1>2. CASE BuildFetcher
    <2>1. podName' \in Nat /\ issues' \in Nat
      BY <1>2, AfterFetch DEF BuildFetcher
    <2> QED
      BY <1>2, <2>1 DEF BuildFetcher, TypeOK, cluster, channels
  <1>3. CASE InitialFetch
    <2>1. podName' \in Nat /\ issues' \in Nat
      BY <1>3, AfterFetch DEF InitialFetch
    <2> QED
      BY <1>3, <2>1 DEF InitialFetch, TypeOK, cluster, channels
  <1>4. CASE Start
    BY <1>4 DEF Start, TypeOK, cluster, channels
  <1> QED
    BY <1>1, <1>2, <1>3, <1>4 DEF Construct

LEMMA MonitorTypes == TypeOK /\ Control /\ Monitor => TypeOK'
  <1> SUFFICES ASSUME TypeOK, Control, Monitor PROVE TypeOK'
    OBVIOUS
  <1>1. Monitored
    BY DEF Monitor, Join, TakeErrored, RequestFetch, Leave
  <1>2. wg' \in Nat
    <2>1. CASE Join
      BY <2>1 DEF Join, TypeOK
    <2>2. CASE Leave
      BY <2>2 DEF Leave, Control
    <2> QED
      BY <2>1, <2>2 DEF Monitor, TakeErrored, RequestFetch, TypeOK
  <1>3. requiresFetch' \in 0 .. 1
    BY DEF Monitor, Join, TakeErrored, RequestFetch, Leave, TypeOK
  <1>4. erroredPolls' \in 0 .. ErroredPollsSize
    <2>1. ErroredPollsSize \in Nat
      BY DevInfoAssumption
    <2> QED
      BY <2>1 DEF Monitor, Join, TakeErrored, RequestFetch, Leave, TypeOK
  <1>5. /\ monitor' \in {"none", "spawned", "select", "request", "leaving", "gone"}
        /\ main' = main
    BY DEF Monitor, Join, TakeErrored, RequestFetch, Leave, TypeOK
  <1> QED
    BY <1>1, <1>2, <1>3, <1>4, <1>5 DEF Monitored, TypeOK, cluster

PollStates == [at : {"idle", "select", "fetch", "store", "call", "deliver"},
               info : Nat, error : BOOLEAN]

LEMMA PollTypes ==
  ASSUME TypeOK, NEW p \in Slots, BeginPoll(p) \/ Poll(p)
  PROVE  TypeOK'
  <1>1. Polled
    BY DEF Poll, BeginPoll, Select, Fetch, Store, Call, Deliver
  <1>2. polls[p] \in PollStates /\ Idle \in PollStates /\ devInfo \in Nat /\ device \in Nat
    BY DEF TypeOK, PollStates, Idle
  <1>3. polls' \in [Slots -> PollStates]
    <2>1. polls \in [Slots -> PollStates]
      BY DEF TypeOK, PollStates
    <2>2. CASE BeginPoll(p)
      BY <2>1, <2>2 DEF BeginPoll, PollStates
    <2>3. CASE Select(p)
      BY <1>2, <2>1, <2>3 DEF Select, PollStates
    <2>4. CASE Fetch(p)
      BY <1>2, <2>1, <2>4 DEF Fetch, PollStates
    <2>5. CASE Store(p)
      BY <2>1, <2>5 DEF Store, PollStates
    <2>6. CASE Call(p)
      BY <2>1, <2>6 DEF Call, PollStates
    <2>7. CASE Deliver(p)
      BY <1>2, <2>1, <2>7 DEF Deliver
    <2> QED
      BY <2>2, <2>3, <2>4, <2>5, <2>6, <2>7 DEF Poll
  <1>4. podName' \in Nat /\ issues' \in Nat
    <2>1. CASE Fetch(p)
      BY <2>1, AfterFetch DEF Fetch
    <2> QED
      BY <2>1 DEF Poll, BeginPoll, Select, Store, Call, Deliver, NoIssue, Issue, TypeOK
  <1>5. requiresFetch' \in 0 .. 1
    BY DEF Poll, BeginPoll, Select, Fetch, Store, Call, Deliver, TypeOK
  <1>6. devInfo' \in Nat
    BY <1>2 DEF Poll, BeginPoll, Select, Fetch, Store, Call, Deliver, PollStates
  <1>7. pollResults' \in Seq(BOOLEAN) /\ Len(pollResults') <= PollResultsSize
    <2>1. CASE Deliver(p)
      <3>1. polls[p].error \in BOOLEAN
        BY <1>2 DEF PollStates
      <3>2. /\ pollResults' = Append(pollResults, polls[p].error)
            /\ Len(pollResults) < PollResultsSize /\ pollResults \in Seq(BOOLEAN)
            /\ PollResultsSize \in Nat
        BY <2>1, DevInfoAssumption DEF Deliver, TypeOK
      <3>3. pollResults' \in Seq(BOOLEAN) /\ Len(pollResults') = Len(pollResults) + 1
        BY <3>1, <3>2, AppendProperties
      <3> QED
        BY <3>2, <3>3, LenProperties
    <2> QED
      BY <2>1 DEF Poll, BeginPoll, Select, Fetch, Store, Call, TypeOK
  <1> QED
    BY <1>1, <1>3, <1>4, <1>5, <1>6, <1>7 DEF Polled, TypeOK, cluster, PollStates

LEMMA MainTypes == TypeOK /\ (Main \/ OtherErrors \/ StopPolling) => TypeOK'
  <1> SUFFICES ASSUME TypeOK, Main \/ OtherErrors \/ StopPolling PROVE TypeOK'
    OBVIOUS
  <1>1. CASE Receive
    <2>1. /\ pollResults' = Tail(pollResults) /\ pollResults # <<>>
          /\ pollResults \in Seq(BOOLEAN) /\ Len(pollResults) <= PollResultsSize
          /\ PollResultsSize \in Nat
      BY <1>1, DevInfoAssumption DEF Receive, TypeOK
    <2>2. pollResults' \in Seq(BOOLEAN) /\ Len(pollResults') = Len(pollResults) - 1
      BY <2>1, HeadTailProperties
    <2>3. Len(pollResults') <= PollResultsSize
      BY <2>1, <2>2, LenProperties
    <2> QED
      BY <1>1, <2>2, <2>3 DEF Receive, Looped, TypeOK, cluster
  <1>2. CASE Report
    <2>1. ErroredPollsSize \in Nat
      BY DevInfoAssumption
    <2> QED
      BY <1>2, <2>1 DEF Report, Looped, TypeOK, cluster
  <1>3. CASE EndLoop
    BY <1>3 DEF EndLoop, Looped, TypeOK, cluster
  <1>4. CASE Quit
    BY <1>4 DEF Quit, Looped, TypeOK, cluster
  <1>5. CASE Wait
    BY <1>5 DEF Wait, Looped, TypeOK, cluster
  <1>6. CASE StopPolling
    BY <1>6 DEF StopPolling, Looped, TypeOK, cluster
  <1>7. CASE OtherErrors
    <2>1. /\ pollResults' = Append(pollResults, TRUE)
          /\ Len(pollResults) < PollResultsSize /\ pollResults \in Seq(BOOLEAN)
          /\ PollResultsSize \in Nat
      BY <1>7, DevInfoAssumption DEF OtherErrors, TypeOK
    <2>2. pollResults' \in Seq(BOOLEAN) /\ Len(pollResults') = Len(pollResults) + 1
      BY <2>1, AppendProperties
    <2>3. Len(pollResults') <= PollResultsSize
      BY <2>1, <2>2, LenProperties
    <2>4. issues' \in Nat
      BY <1>7 DEF OtherErrors, Issue, TypeOK
    <2> QED
      BY <1>7, <2>2, <2>3, <2>4 DEF OtherErrors, Polled, TypeOK, cluster
  <1> QED
    BY <1>1, <1>2, <1>3, <1>4, <1>5, <1>6, <1>7 DEF Main

LEMMA ClusterTypes ==
  TypeOK /\ (DaemonCreated \/ DaemonGone \/ DeviceChanges) => TypeOK'
  <1> SUFFICES ASSUME TypeOK, DaemonCreated \/ DaemonGone \/ DeviceChanges PROVE TypeOK'
    OBVIOUS
  <1>1. Elsewhere
    BY DEF DaemonCreated, DaemonGone, DeviceChanges
  <1>2. daemons' \subseteq Nat /\ lastDaemon' \in Nat /\ device' \in Nat
    <2>1. CASE DaemonCreated
      <3>1. lastDaemon + 1 \in Nat
        BY DEF TypeOK
      <3> QED
        BY <2>1, <3>1 DEF DaemonCreated, Elsewhere, TypeOK
    <2>2. CASE DaemonGone
      BY <2>2 DEF DaemonGone, TypeOK
    <2>3. CASE DeviceChanges
      BY <2>3 DEF DeviceChanges, TypeOK
    <2> QED
      BY <2>1, <2>2, <2>3
  <1> QED
    BY <1>1, <1>2 DEF Elsewhere, TypeOK, channels
-----------------------------------------------------------------------------
(***************************************************************************)
(* Control                                                                 *)
(***************************************************************************)
\* Where main builds and starts the collector the monitor has not been spawned.
LEMMA ConstructControl == IInv /\ Construct => Control'
  <1> SUFFICES ASSUME IInv, Construct PROVE Control'
    OBVIOUS
  <1>1. UNCHANGED <<wg, requiresFetch>>
    BY DEF Construct, GetContext, BuildFetcher, InitialFetch, Start, channels
  <1>2. monitor = "none" /\ wg = 0
    BY DEF Construct, GetContext, BuildFetcher, InitialFetch, Start, IInv, Control
  <1>3. \/ monitor' = "none" /\ main' \in {"fetcher", "initialFetch", "start", "failed"}
        \/ monitor' = "spawned" /\ main' = "loop"
    BY <1>2 DEF Construct, GetContext, BuildFetcher, InitialFetch, Start
  <1> QED
    BY <1>1, <1>2, <1>3 DEF Control, MonitorNeverBlocks, CleanUpWaits

\* The monitor's own steps: it sends only when requiresFetch was empty, and fills it.
LEMMA MonitorControl == IInv /\ Monitor => Control'
  <1> SUFFICES ASSUME IInv, Monitor PROVE Control'
    OBVIOUS
  <1>1. Control /\ wg \in Nat
    BY DEF IInv, TypeOK
  <1>2. CASE Join
    BY <1>1, <1>2 DEF Join, Control, MonitorNeverBlocks, CleanUpWaits
  <1>3. CASE TakeErrored
    BY <1>1, <1>3 DEF TakeErrored, Control, MonitorNeverBlocks, CleanUpWaits
  <1>4. CASE RequestFetch
    BY <1>1, <1>4 DEF RequestFetch, Control, MonitorNeverBlocks, CleanUpWaits
  <1>5. CASE Leave
    BY <1>1, <1>5 DEF Leave, Control, MonitorNeverBlocks, CleanUpWaits
  <1> QED
    BY <1>2, <1>3, <1>4, <1>5 DEF Monitor

\* A poll only takes from requiresFetch.
LEMMA PollControl ==
  ASSUME IInv, NEW p \in Slots, BeginPoll(p) \/ Poll(p)
  PROVE  Control'
  <1>1. UNCHANGED <<monitor, wg, main>>
    BY DEF BeginPoll, Poll, Select, Fetch, Store, Call, Deliver, Polled
  <1>2. requiresFetch = 0 => requiresFetch' = 0
    BY DEF BeginPoll, Poll, Select, Fetch, Store, Call, Deliver, IInv, TypeOK
  <1> QED
    BY <1>1, <1>2 DEF IInv, Control, MonitorNeverBlocks, CleanUpWaits

\* Main goes on to wait when the monitor has received from quit, and is done when the
\* monitor has counted itself off.
LEMMA MainControl == IInv /\ (Main \/ OtherErrors \/ StopPolling) => Control'
  <1> SUFFICES ASSUME IInv, Main \/ OtherErrors \/ StopPolling PROVE Control'
    OBVIOUS
  <1>1. UNCHANGED <<requiresFetch, wg>> /\ Control
    BY DEF Main, Receive, Report, EndLoop, Quit, Wait, OtherErrors, StopPolling, Looped,
           Polled, IInv
  <1>2. CASE Quit
    BY <1>1, <1>2 DEF Quit, Control, MonitorNeverBlocks, CleanUpWaits
  <1>3. CASE Wait
    BY <1>1, <1>3 DEF Wait, Control, MonitorNeverBlocks, CleanUpWaits
  <1>4. CASE Receive \/ Report \/ EndLoop \/ OtherErrors \/ StopPolling
    <2>1. monitor' = monitor /\ (main' = main \/ main' \in {"loop", "report", "cleanUp"})
      BY <1>4 DEF Receive, Report, EndLoop, OtherErrors, StopPolling, Polled
    <2> QED
      BY <1>1, <2>1 DEF Control, MonitorNeverBlocks, CleanUpWaits
  <1> QED
    BY <1>2, <1>3, <1>4 DEF Main

LEMMA NextKeepsIInv == IInv /\ [Next]_vars => IInv'
  <1> SUFFICES ASSUME IInv, [Next]_vars PROVE IInv'
    OBVIOUS
  <1>1. CASE DaemonCreated \/ DaemonGone \/ DeviceChanges
    <2>1. UNCHANGED <<requiresFetch, monitor, wg, main>>
      BY <1>1 DEF DaemonCreated, DaemonGone, DeviceChanges, Elsewhere, channels
    <2>2. Control'
      BY <2>1 DEF IInv, Control, MonitorNeverBlocks, CleanUpWaits
    <2> QED
      BY <1>1, <2>2, ClusterTypes DEF IInv
  <1>2. CASE Construct
    BY <1>2, ConstructTypes, ConstructControl DEF IInv
  <1>3. CASE Monitor
    BY <1>3, MonitorTypes, MonitorControl DEF IInv
  <1>4. CASE Main \/ OtherErrors \/ StopPolling
    BY <1>4, MainTypes, MainControl DEF IInv
  <1>5. ASSUME NEW p \in Slots, BeginPoll(p) \/ Poll(p) PROVE IInv'
    BY <1>5, PollTypes, PollControl DEF IInv
  <1>6. CASE UNCHANGED vars
    BY <1>6 DEF vars, cluster, channels, IInv, TypeOK, Control, MonitorNeverBlocks,
                CleanUpWaits
  <1> QED
    BY <1>1, <1>2, <1>3, <1>4, <1>5, <1>6 DEF Next

LEMMA Inductive == Spec => []IInv
  BY InitIInv, NextKeepsIInv, PTL DEF Spec
-----------------------------------------------------------------------------
(***************************************************************************)
(* The theorems                                                            *)
(***************************************************************************)
\* The variables have their types and the channels their bounds.
THEOREM TypeCorrect == Spec => []TypeOK
  BY Inductive, PTL DEF IInv

\* monitorErroredPolls always finds room for the request it has decided to send, though
\* it looked at the length of requiresFetch in an earlier step, and though polls take
\* from the channel meanwhile.
THEOREM SendFindsRoom == Spec => []MonitorNeverBlocks
  BY Inductive, PTL DEF IInv, Control

\* CleanUp returns only when monitorErroredPolls has ended, although the goroutine
\* itself adds itself to wg: the rendezvous on quit comes first.
THEOREM CleanUpOutlivesMonitor == Spec => []CleanUpWaits
  BY Inductive, PTL DEF IInv, Control
=======================================================================================
