-------------------------- MODULE CollectorRunnerProofs --------------------------
(***************************************************************************)
(* Theorems about CollectorRunner, for every set of collectors and every   *)
(* value of its bounds.  The inductive invariant IInv adds to the types    *)
(* what ties the counters to the goroutines they count (PollCounts,        *)
(* GroupCounts), the life of a collector to its poller (Lives), and the    *)
(* place of the main goroutine to what the pollers and the quit channels   *)
(* can still do there (Phases, Quits, Announcing).                         *)
(***************************************************************************)
EXTENDS CollectorRunner, FiniteSetTheorems, TLAPS

Groups == {"collectors", "announcers"}

\* The poller has not yet counted itself out of its group.
Active(c) == poller[c] \in {"loop", "full", "select", "default", "drain"}

ActiveIn(g)     == {c \in Names : Group(c) = g /\ Active(c)}
UnfinishedIn(g) == {c \in Names : Group(c) = g /\ (Active(c) \/ poller[c] = "leaving")}

PollCountOf(c) ==
  /\ runningPolls[c] = Undelivered(c) + polls[c]["delivered"]
  /\ runningPolls[c] <= MaxRunningPolls
  /\ poller[c] \in {"select", "default"} => runningPolls[c] < MaxRunningPolls
  /\ ~Active(c) => runningPolls[c] = 0

PollCounts == \A c \in Names : PollCountOf(c)

GroupCounts ==
  \A g \in Groups :
    /\ wg[g].count = Cardinality(ActiveIn(g))
    /\ wg[g].members = Cardinality(UnfinishedIn(g))

Lives ==
  \A c \in Names :
    /\ Active(c) => life[c] = "started"
    /\ life[c] \in {"absent", "built"} => poller[c] = "none"
    /\ main = "initialise" =>
         life[c] \in {"absent", "built"} /\ (c \in todo => life[c] = "absent")
    /\ main = "start" =>
         life[c] \in {"absent", "built", "started"} /\ (c \in todo <=> life[c] = "built")
    /\ main \notin {"initialise", "start", "cleanUp", "done", "exited"} =>
         life[c] \in {"absent", "started"}
    /\ main = "cleanUp" /\ c \in todo => life[c] = "started"

Phases ==
  /\ main \in {"countAnnouncers", "awaitAnnouncers"} => \A c \in Collectors : ~Active(c)
  /\ main \in {"cleanUp", "done"} => \A c \in Names : ~Active(c)

Quits ==
  \A c \in Names :
    /\ collectorQuit[c] > 0 =>
         \/ main \in {"forward", "awaitCollectors", "awaitAnnouncers"}
         \/ /\ main \in {"countCollectors", "countAnnouncers", "cleanUp", "done", "exited"}
            /\ \A d \in Names : ~Active(d)
    /\ main = "forward" /\ c \in todo => collectorQuit[c] = 0

Announcing ==
  /\ main = "start" /\ (\E a \in Announcers : poller[a] # "none")
       => todo \subseteq Announcers
  /\ /\ main \in {"start", "countCollectors", "countAnnouncers", "select", "report"}
     /\ \A c \in Names : collectorQuit[c] = 0
     /\ \E a \in Announcers : poller[a] \in {"drain", "leaving", "gone"}
     /\ ~OnlyAnnouncers
     => \A c \in Collectors : ~Active(c)

IInv == /\ TypeOK /\ PollCounts /\ GroupCounts /\ Lives
        /\ Phases /\ Quits /\ Announcing
-----------------------------------------------------------------------------
LEMMA NamesFinite == IsFiniteSet(Names)
  BY RunnerAssumption, FS_Union DEF Names

LEMMA InitIInv == Init => IInv
  <1> SUFFICES ASSUME Init PROVE IInv
    OBVIOUS
  <1> USE RunnerAssumption
  <1>1. TypeOK
    <2>1. wg \in [{"collectors", "announcers"} -> WaitGroups]
      <3>1. EmptyWG \in WaitGroups
        BY DEF EmptyWG, WaitGroups
      <3> QED
        BY <3>1 DEF Init
    <2>2. polls \in [Names -> [Stages -> Nat]]
      BY DEF Init
    <2>3. pollResults \in Seq(Outcomes) /\ Len(pollResults) <= PollResultsQueueSize
      BY DEF Init
    <2>4. main \in MainStates /\ poller \in [Names -> PollerStates]
      BY DEF Init, MainStates, PollerStates
    <2>5. /\ polled \in [Names -> 0..MaxPolls]
          /\ runningPolls \in [Names -> Nat]
          /\ collectorQuit \in [Names -> 0..1]
      BY DEF Init
    <2>6. life \in [Names -> {"absent", "built", "started", "cleaned"}]
      BY DEF Init
    <2>7. todo \subseteq Names /\ expired \in BOOLEAN
      BY DEF Init
    <2>8. /\ erroredPolls \in 0..PollResultsQueueSize
          /\ quit \in 0..1
          /\ issues \in 0..MaxIssues
          /\ signals \in 0..MaxSignals
      BY DEF Init
    <2> QED
      BY <2>1, <2>2, <2>3, <2>4, <2>5, <2>6, <2>7, <2>8 DEF TypeOK
  <1>2. PollCounts
    BY DEF Init, PollCounts, PollCountOf, Undelivered, Active, Stages
  <1>3. GroupCounts
    <2> SUFFICES ASSUME NEW g \in Groups
                 PROVE  /\ wg[g].count = Cardinality(ActiveIn(g))
                        /\ wg[g].members = Cardinality(UnfinishedIn(g))
      BY DEF GroupCounts
    <2>1. ActiveIn(g) = {} /\ UnfinishedIn(g) = {}
      BY DEF Init, ActiveIn, UnfinishedIn, Active
    <2>2. wg[g] = EmptyWG
      BY DEF Init, Groups
    <2> QED
      BY <2>1, <2>2, FS_EmptySet DEF EmptyWG
  <1>4. Lives /\ Phases /\ Quits /\ Announcing
    BY DEF Init, Lives, Phases, Quits, Announcing, Active
  <1> QED
    BY <1>1, <1>2, <1>3, <1>4 DEF IInv

\* A step either leaves the pollers and the polls alone or is one of theirs.
LEMMA StepKinds ==
  ASSUME [Next]_vars
  PROVE  \/ UNCHANGED <<pollerVars, polls>>
         \/ \E c \in Names : StartCollector(c) \/ Poller(c) \/ Poll(c)
  <1>1. ASSUME NEW c \in Names, Setup(c) \/ ForwardSignal(c) \/ CleanUp(c) \/ Abort(c)
        PROVE  StartCollector(c) \/ UNCHANGED <<pollerVars, polls>>
    BY <1>1 DEF Setup, BuildCollector, SkipCollector, ForwardSignal, CleanUp, Abort
  <1>2. CASE InitialiseDone \/ StartDone \/ Finish
    BY <1>2 DEF InitialiseDone, StartDone, Finish
  <1>3. CASE MainLoop
    BY <1>3 DEF MainLoop, CountCollectors, CountAnnouncers, TakeSignal, ForwardDone,
         AwaitCollectors, AwaitAnnouncers, ReceiveResult, ReportIssues, MainSleep
  <1>4. CASE Expire \/ DeliverSignal \/ Ended \/ UNCHANGED vars
    BY <1>4 DEF Expire, DeliverSignal, Ended, vars
  <1> QED
    BY <1>1, <1>2, <1>3, <1>4 DEF Next, Main

\* What a poll's change of stage does to the polls of its collector.
LEMMA MovePollEffect ==
  ASSUME TypeOK, NEW c \in Names, NEW from \in Stages, NEW to \in Stages, from # to,
         MovePoll(c, from, to)
  PROVE  /\ polls' \in [Names -> [Stages -> Nat]]
         /\ polls[c][from] > 0
         /\ polls'[c][from] = polls[c][from] - 1
         /\ polls'[c][to] = polls[c][to] + 1
         /\ \A s \in Stages \ {from, to} : polls'[c][s] = polls[c][s]
         /\ \A d \in Names \ {c} : polls'[d] = polls[d]
  BY DEF MovePoll, TypeOK

\* A collector that a step does not touch keeps its count.
LEMMA PollCountFrame ==
  ASSUME NEW d, PollCountOf(d),
         poller'[d] = poller[d], runningPolls'[d] = runningPolls[d], polls'[d] = polls[d]
  PROVE  PollCountOf(d)'
  BY DEF PollCountOf, Active, Undelivered

LEMMA PollTypes ==
  ASSUME TypeOK, NEW c \in Names
  PROVE  /\ runningPolls[c] \in Nat
         /\ \A s \in Stages : polls[c][s] \in Nat
         /\ Undelivered(c) \in Nat
  BY DEF TypeOK, Undelivered, Stages

LEMMA PollCountsStep ==
  ASSUME IInv, [Next]_vars
  PROVE  PollCounts'
  <1>0. TypeOK /\ PollCounts
    BY DEF IInv
  <1>1. CASE UNCHANGED <<pollerVars, polls>>
    BY <1>0, <1>1 DEF pollerVars, PollCounts, PollCountOf, Active, Undelivered
  <1>2. ASSUME NEW c \in Names, StartCollector(c) \/ Poller(c) \/ Poll(c)
        PROVE  PollCounts'
    <2>0. PollCountOf(c)
      BY <1>0 DEF PollCounts
    <2>1. ASSUME NEW d \in Names \ {c}
          PROVE  PollCountOf(d)'
      <3>1. CASE StartCollector(c) \/ Poller(c)
        BY <1>0, <3>1, PollCountFrame DEF PollCounts, TypeOK, StartCollector, Poller,
             PollerLoop, AwaitRunningPolls, TakeQuit, BeginPoll, EnterDefault, SkipPoll,
             DrainPolls, PollerDone
      <3>2. CASE Poll(c)
        BY <1>0, <3>2, PollCountFrame DEF PollCounts, TypeOK, Poll, FetchEnds, SendResult,
             PollDone, MovePoll, pollerVars
      <3> QED
        BY <1>2, <3>1, <3>2
    <2>2. PollCountOf(c)'
      <3>1. CASE StartCollector(c) \/ PollerLoop(c)
        <4>1. CASE StartCollector(c)
          <5>1. poller[c] = "none" /\ poller'[c] = "loop"
            BY <4>1 DEF IInv, Lives, TypeOK, StartCollector
          <5> QED
            BY <2>0, <4>1, <5>1 DEF StartCollector, PollCountOf, Active, Undelivered
        <4>2. CASE PollerLoop(c)
          <5>1. /\ poller'[c] \in {"drain", "full", "select"}
                /\ poller'[c] = "select" => ~(runningPolls[c] >= MaxRunningPolls)
                /\ UNCHANGED <<polls, runningPolls>>
            BY <1>0, <4>2 DEF PollerLoop, TypeOK
          <5> QED
            BY <1>0, <2>0, <5>1, PollTypes, RunnerAssumption DEF PollCountOf, Active,
                 Undelivered
        <4> QED
          BY <3>1, <4>1, <4>2
      <3>2. CASE AwaitRunningPolls(c) \/ DrainPolls(c)
        <4>1. /\ runningPolls[c] = 0
              /\ UNCHANGED <<polls, runningPolls>>
          BY <3>2 DEF AwaitRunningPolls, DrainPolls
        <4> QED
          BY <2>0, <4>1, RunnerAssumption DEF PollCountOf, Active, Undelivered
      <3>3. CASE TakeQuit(c) \/ EnterDefault(c) \/ SkipPoll(c) \/ PollerDone(c)
        <4>1. /\ poller'[c] \in {"drain", "default", "loop", "gone"}
              /\ poller'[c] = "default" => poller[c] = "select"
              /\ poller'[c] = "gone" => ~Active(c)
              /\ UNCHANGED <<polls, runningPolls>>
          BY <1>0, <3>3 DEF TakeQuit, EnterDefault, SkipPoll, PollerDone, Active, TypeOK
        <4> QED
          BY <2>0, <4>1 DEF PollCountOf, Active, Undelivered
      <3>4. CASE BeginPoll(c)
        <4>1. /\ poller[c] = "default" /\ poller'[c] = "loop"
              /\ runningPolls'[c] = runningPolls[c] + 1
              /\ polls'[c]["fetching"] = polls[c]["fetching"] + 1
              /\ \A s \in {"ok", "issues", "delivered"} : polls'[c][s] = polls[c][s]
          BY <1>0, <3>4 DEF BeginPoll, TypeOK, Stages
        <4> QED
          BY <1>0, <2>0, <4>1, PollTypes, RunnerAssumption
          DEF PollCountOf, Active, Undelivered, Stages
      <3>5. ASSUME NEW o \in Outcomes, FetchEnds(c, o) \/ SendResult(c, o)
            PROVE  PollCountOf(c)'
        <4>1. UNCHANGED <<poller, runningPolls>>
          BY <3>5 DEF FetchEnds, SendResult, pollerVars
        <4>2. Undelivered(c)' + polls'[c]["delivered"] = Undelivered(c) + polls[c]["delivered"]
          <5>1. MovePoll(c, "fetching", o) \/ MovePoll(c, o, "delivered")
            BY <3>5 DEF FetchEnds, SendResult
          <5>2. \A s \in Stages : polls[c][s] \in Nat
            BY <1>0, PollTypes
          <5>3. CASE MovePoll(c, "fetching", o)
            <6>1. /\ polls'[c]["fetching"] = polls[c]["fetching"] - 1
                  /\ polls'[c][o] = polls[c][o] + 1
                  /\ \A s \in Stages \ {"fetching", o} : polls'[c][s] = polls[c][s]
              BY <1>0, <5>3, MovePollEffect DEF Outcomes, Stages
            <6> QED
              BY <5>2, <6>1, SMTT(20) DEF Undelivered, Outcomes, Stages
          <5>4. CASE MovePoll(c, o, "delivered")
            <6>1. /\ polls'[c][o] = polls[c][o] - 1
                  /\ polls'[c]["delivered"] = polls[c]["delivered"] + 1
                  /\ \A s \in Stages \ {o, "delivered"} : polls'[c][s] = polls[c][s]
              BY <1>0, <5>4, MovePollEffect DEF Outcomes, Stages
            <6> QED
              BY <5>2, <6>1, SMTT(20) DEF Undelivered, Outcomes, Stages
          <5> QED
            BY <5>1, <5>3, <5>4
        <4> QED
          BY <2>0, <4>1, <4>2 DEF PollCountOf, Active
      <3>6. CASE PollDone(c)
        <4>1. /\ runningPolls'[c] = runningPolls[c] - 1
              /\ polls[c]["delivered"] > 0
              /\ polls'[c]["delivered"] = polls[c]["delivered"] - 1
              /\ \A s \in {"fetching", "ok", "issues"} : polls'[c][s] = polls[c][s]
              /\ poller'[c] = poller[c]
          BY <1>0, <3>6 DEF PollDone, TypeOK, Stages
        <4> QED
          BY <1>0, <2>0, <4>1, PollTypes, RunnerAssumption
          DEF PollCountOf, Active, Undelivered, Stages
      <3> QED
        BY <1>2, <3>1, <3>2, <3>3, <3>4, <3>5, <3>6 DEF Poller, Poll
    <2> QED
      BY <2>1, <2>2 DEF PollCounts
  <1> QED
    BY StepKinds, <1>1, <1>2

\* A step that leaves the wait groups alone and moves no poller into or out of
\* a group keeps the counts.
LEMMA GroupCountFrame ==
  ASSUME GroupCounts, UNCHANGED wg,
         \A d \in Names : /\ Active(d)' <=> Active(d)
                          /\ (poller'[d] = "leaving") <=> (poller[d] = "leaving")
  PROVE  GroupCounts'
  <1> SUFFICES ASSUME NEW g \in Groups
               PROVE  /\ wg'[g].count = Cardinality(ActiveIn(g)')
                      /\ wg'[g].members = Cardinality(UnfinishedIn(g)')
    BY DEF GroupCounts
  <1>1. ActiveIn(g)' = ActiveIn(g) /\ UnfinishedIn(g)' = UnfinishedIn(g)
    BY DEF ActiveIn, UnfinishedIn, Group, IsAnnouncer
  <1> QED
    BY <1>1 DEF GroupCounts

LEMMA GroupSetsFinite ==
  ASSUME NEW g
  PROVE  /\ IsFiniteSet(ActiveIn(g)) /\ IsFiniteSet(UnfinishedIn(g))
         /\ Cardinality(ActiveIn(g)) \in Nat /\ Cardinality(UnfinishedIn(g)) \in Nat
  <1>1. ActiveIn(g) \in SUBSET Names /\ UnfinishedIn(g) \in SUBSET Names
    BY DEF ActiveIn, UnfinishedIn
  <1> QED
    BY <1>1, NamesFinite, FS_Subset, FS_CardinalityType

LEMMA GroupCountsStep ==
  ASSUME IInv, [Next]_vars
  PROVE  GroupCounts'
  <1>0. TypeOK /\ GroupCounts
    BY DEF IInv
  <1>1. CASE UNCHANGED <<pollerVars, polls>>
    BY <1>0, <1>1, GroupCountFrame DEF pollerVars, Active
  <1>2. ASSUME NEW c \in Names, Poll(c)
        PROVE  GroupCounts'
    <2>1. UNCHANGED <<wg, poller>>
      BY <1>2 DEF Poll, FetchEnds, SendResult, PollDone, pollerVars
    <2> QED
      BY <1>0, <2>1, GroupCountFrame DEF Active
  <1>3. ASSUME NEW c \in Names,
               \/ PollerLoop(c) \/ AwaitRunningPolls(c) \/ TakeQuit(c)
               \/ BeginPoll(c) \/ EnterDefault(c) \/ SkipPoll(c)
        PROVE  GroupCounts'
    <2>1. /\ UNCHANGED wg
          /\ \E t \in {"loop", "full", "select", "default", "drain"} :
               poller' = [poller EXCEPT ![c] = t]
          /\ poller[c] \in {"loop", "full", "select", "default"}
      BY <1>3 DEF PollerLoop, AwaitRunningPolls, TakeQuit, BeginPoll, EnterDefault, SkipPoll
    <2> QED
      BY <1>0, <2>1, GroupCountFrame DEF Active, TypeOK
  <1>4. ASSUME NEW c \in Names, NEW g \in Groups, StartCollector(c)
        PROVE  /\ wg'[g].count = Cardinality(ActiveIn(g)')
               /\ wg'[g].members = Cardinality(UnfinishedIn(g)')
    <2>1. /\ poller' = [poller EXCEPT ![c] = "loop"]
          /\ poller[c] = "none"
          /\ Group(c)' = Group(c)
      BY <1>4 DEF StartCollector, IInv, Lives, Group, IsAnnouncer
    <2>2. CASE g = Group(c)
      <3>1. /\ wg'[g].count = wg[g].count + 1
            /\ wg'[g].members = wg[g].members + 1
        BY <1>0, <1>4, <2>2 DEF StartCollector, TypeOK, WaitGroups, Groups
      <3>2. /\ ActiveIn(g)' = ActiveIn(g) \cup {c} /\ c \notin ActiveIn(g)
            /\ UnfinishedIn(g)' = UnfinishedIn(g) \cup {c} /\ c \notin UnfinishedIn(g)
        BY <1>0, <2>1, <2>2 DEF ActiveIn, UnfinishedIn, Active, Group, IsAnnouncer, TypeOK
      <3>3. /\ Cardinality(ActiveIn(g) \cup {c}) = Cardinality(ActiveIn(g)) + 1
            /\ Cardinality(UnfinishedIn(g) \cup {c}) = Cardinality(UnfinishedIn(g)) + 1
        BY <3>2, GroupSetsFinite, FS_AddElement
      <3>4. /\ wg[g].count = Cardinality(ActiveIn(g))
            /\ wg[g].members = Cardinality(UnfinishedIn(g))
        BY <1>0 DEF GroupCounts
      <3> QED
        BY <3>1, <3>2, <3>3, <3>4
    <2>3. CASE g # Group(c)
      <3>1. wg'[g] = wg[g]
        BY <1>0, <1>4, <2>3 DEF StartCollector, TypeOK, Groups
      <3>2. ActiveIn(g)' = ActiveIn(g) /\ UnfinishedIn(g)' = UnfinishedIn(g)
        BY <1>0, <2>1, <2>3 DEF ActiveIn, UnfinishedIn, Active, Group, IsAnnouncer, TypeOK
      <3> QED
        BY <1>0, <3>1, <3>2 DEF GroupCounts
    <2> QED
      BY <2>2, <2>3
  <1>5. ASSUME NEW c \in Names, NEW g \in Groups, DrainPolls(c)
        PROVE  /\ wg'[g].count = Cardinality(ActiveIn(g)')
               /\ wg'[g].members = Cardinality(UnfinishedIn(g)')
    <2>1. /\ poller' = [poller EXCEPT ![c] = "leaving"]
          /\ poller[c] = "drain"
      BY <1>5 DEF DrainPolls
    <2>2. UnfinishedIn(g)' = UnfinishedIn(g) /\ wg'[g].members = wg[g].members
      BY <1>0, <1>5, <2>1
      DEF UnfinishedIn, Active, Group, IsAnnouncer, TypeOK, DrainPolls, WaitGroups, Groups
    <2>3. CASE g = Group(c)
      <3>1. wg'[g].count = wg[g].count - 1
        BY <1>0, <1>5, <2>3 DEF DrainPolls, TypeOK, WaitGroups, Groups
      <3>2. ActiveIn(g)' = ActiveIn(g) \ {c} /\ c \in ActiveIn(g)
        BY <1>0, <2>1, <2>3 DEF ActiveIn, Active, Group, IsAnnouncer, TypeOK
      <3> QED
        BY <1>0, <2>2, <3>1, <3>2, GroupSetsFinite, FS_RemoveElement DEF GroupCounts
    <2>4. CASE g # Group(c)
      <3>1. wg'[g] = wg[g]
        BY <1>0, <1>5, <2>4 DEF DrainPolls, TypeOK, Groups
      <3>2. ActiveIn(g)' = ActiveIn(g)
        BY <1>0, <2>1, <2>4 DEF ActiveIn, Active, Group, IsAnnouncer, TypeOK
      <3> QED
        BY <1>0, <2>2, <3>1, <3>2 DEF GroupCounts
    <2> QED
      BY <2>3, <2>4
  <1>6. ASSUME NEW c \in Names, NEW g \in Groups, PollerDone(c)
        PROVE  /\ wg'[g].count = Cardinality(ActiveIn(g)')
               /\ wg'[g].members = Cardinality(UnfinishedIn(g)')
    <2>1. /\ poller' = [poller EXCEPT ![c] = "gone"]
          /\ poller[c] = "leaving"
      BY <1>6 DEF PollerDone
    <2>2. ActiveIn(g)' = ActiveIn(g) /\ wg'[g].count = wg[g].count
      BY <1>0, <1>6, <2>1
      DEF ActiveIn, Active, Group, IsAnnouncer, TypeOK, PollerDone, WaitGroups, Groups
    <2>3. CASE g = Group(c)
      <3>1. wg'[g].members = wg[g].members - 1
        BY <1>0, <1>6, <2>3 DEF PollerDone, TypeOK, WaitGroups, Groups
      <3>2. UnfinishedIn(g)' = UnfinishedIn(g) \ {c} /\ c \in UnfinishedIn(g)
        BY <1>0, <2>1, <2>3 DEF UnfinishedIn, Active, Group, IsAnnouncer, TypeOK
      <3> QED
        BY <1>0, <2>2, <3>1, <3>2, GroupSetsFinite, FS_RemoveElement DEF GroupCounts
    <2>4. CASE g # Group(c)
      <3>1. wg'[g] = wg[g]
        BY <1>0, <1>6, <2>4 DEF PollerDone, TypeOK, Groups
      <3>2. UnfinishedIn(g)' = UnfinishedIn(g)
        BY <1>0, <2>1, <2>4 DEF UnfinishedIn, Active, Group, IsAnnouncer, TypeOK
      <3> QED
        BY <1>0, <2>2, <3>1, <3>2 DEF GroupCounts
    <2> QED
      BY <2>3, <2>4
  <1>7. ASSUME NEW c \in Names, StartCollector(c) \/ DrainPolls(c) \/ PollerDone(c)
        PROVE  GroupCounts'
    BY <1>4, <1>5, <1>6, <1>7 DEF GroupCounts
  <1> QED
    BY StepKinds, <1>1, <1>2, <1>3, <1>7 DEF Poller

-----------------------------------------------------------------------------
\* What reading a count, or waiting for a group, tells about its pollers.
LEMMA GroupReading ==
  ASSUME TypeOK, GroupCounts, NEW g \in Groups
  PROVE  /\ wg[g].count > 0 <=> \E c \in Names : Group(c) = g /\ Active(c)
         /\ wg[g].members = 0 => \A c \in Names : Group(c) = g => ~Active(c)
  <1>1. /\ wg[g].count = Cardinality(ActiveIn(g))
        /\ wg[g].members = Cardinality(UnfinishedIn(g))
    BY DEF GroupCounts
  <1>2. Cardinality(ActiveIn(g)) > 0 <=> ActiveIn(g) # {}
    BY GroupSetsFinite, FS_EmptySet
  <1>3. Cardinality(UnfinishedIn(g)) = 0 => UnfinishedIn(g) = {}
    BY GroupSetsFinite, FS_EmptySet
  <1> QED
    BY <1>1, <1>2, <1>3 DEF ActiveIn, UnfinishedIn

LEMMA GroupOf ==
  ASSUME NEW c \in Names
  PROVE  /\ Group(c) \in Groups
         /\ c \in Collectors <=> Group(c) = "collectors"
         /\ c \in Announcers <=> Group(c) = "announcers"
  BY RunnerAssumption DEF Group, Groups, IsAnnouncer, Names

\* Only StartCollector makes a poller active.
LEMMA ActiveStep ==
  ASSUME TypeOK, [Next]_vars, NEW d \in Names
  PROVE  Active(d)' => Active(d) \/ StartCollector(d)
  <1>1. CASE UNCHANGED <<pollerVars, polls>>
    BY <1>1 DEF pollerVars, Active
  <1>2. ASSUME NEW c \in Names, StartCollector(c) \/ Poller(c)
        PROVE  Active(d)' => Active(d) \/ StartCollector(d)
    BY <1>2 DEF StartCollector, Poller, PollerLoop, AwaitRunningPolls, TakeQuit, BeginPoll,
         EnterDefault, SkipPoll, DrainPolls, PollerDone, Active, TypeOK
  <1>3. ASSUME NEW c \in Names, Poll(c)
        PROVE  Active(d)' => Active(d) \/ StartCollector(d)
    BY <1>3 DEF Poll, FetchEnds, SendResult, PollDone, pollerVars, Active
  <1> QED
    BY StepKinds, <1>1, <1>2, <1>3

LEMMA LivesStep ==
  ASSUME IInv, [Next]_vars
  PROVE  Lives'
  <1>0. TypeOK /\ Lives
    BY DEF IInv
  <1>1. ASSUME NEW c \in Names, Setup(c)
        PROVE  Lives'
    BY <1>0, <1>1 DEF Lives, TypeOK, Setup, BuildCollector, SkipCollector, StartCollector,
         Active, pollerVars
  <1>2. ASSUME NEW c \in Names, Poller(c)
        PROVE  Lives'
    BY <1>0, <1>2 DEF Lives, TypeOK, Poller, PollerLoop, AwaitRunningPolls, TakeQuit,
         BeginPoll, EnterDefault, SkipPoll, DrainPolls, PollerDone, Active, mainVars
  <1>3. ASSUME NEW c \in Names, Poll(c)
        PROVE  Lives'
    BY <1>0, <1>3 DEF Lives, Poll, FetchEnds, SendResult, PollDone, Active, mainVars, pollerVars
  <1>4. ASSUME NEW c \in Names, ForwardSignal(c) \/ Abort(c)
        PROVE  Lives'
    BY <1>0, <1>4 DEF Lives, TypeOK, ForwardSignal, Abort, Active, pollerVars
  <1>5. ASSUME NEW c \in Names, CleanUp(c)
        PROVE  Lives'
    <2>1. \A d \in Names : ~Active(d)
      BY <1>5 DEF IInv, Phases, CleanUp
    <2> QED
      BY <1>0, <1>5, <2>1 DEF Lives, TypeOK, CleanUp, Active, pollerVars
  <1>6. CASE InitialiseDone \/ StartDone
    BY <1>0, <1>6 DEF Lives, TypeOK, InitialiseDone, StartDone, Active, pollerVars, Instances
  <1>7. CASE CountAnnouncers
    BY <1>0, <1>7 DEF Lives, TypeOK, CountAnnouncers, Active, pollerVars, Instances
  <1>8. CASE \/ CountCollectors \/ TakeSignal \/ ForwardDone \/ AwaitCollectors \/ AwaitAnnouncers
             \/ ReceiveResult \/ ReportIssues \/ MainSleep
    BY <1>0, <1>8 DEF Lives, CountCollectors, TakeSignal, ForwardDone, AwaitCollectors,
         AwaitAnnouncers, ReceiveResult, ReportIssues, MainSleep, Active, pollerVars
  <1>9. CASE Finish \/ Expire \/ DeliverSignal \/ Ended \/ UNCHANGED vars
    BY <1>0, <1>9 DEF Lives, Finish, Expire, DeliverSignal, Ended, vars, mainVars, Active,
         pollerVars
  <1> QED
    BY <1>1, <1>2, <1>3, <1>4, <1>5, <1>6, <1>7, <1>8, <1>9 DEF Next, Main, MainLoop

LEMMA PhasesStep ==
  ASSUME IInv, [Next]_vars
  PROVE  Phases'
  <1>0. TypeOK /\ GroupCounts /\ Phases
    BY DEF IInv
  <1>1. \A d \in Names : Active(d)' => Active(d) \/ main = "start"
    BY <1>0, ActiveStep DEF StartCollector
  <1>2. \A c \in Collectors : c \in Names /\ Group(c) = "collectors"
    BY GroupOf DEF Names
  <1>3. CASE CountCollectors
    <2>1. main' = "countAnnouncers" => \A c \in Collectors : ~Active(c)
      <3>1. main' = "countAnnouncers" => ~(wg["collectors"].count > 0)
        BY <1>3 DEF CountCollectors
      <3> QED
        BY <1>0, <1>2, <3>1, GroupReading DEF Groups
    <2> QED
      BY <1>1, <1>2, <1>3, <2>1 DEF CountCollectors, Phases
  <1>4. CASE CountAnnouncers
    <2>1. main' = "cleanUp" => \A c \in Names : ~Active(c)
      <3>1. main' = "cleanUp" => ~(wg["announcers"].count > 0)
        BY <1>4 DEF CountAnnouncers
      <3>2. main' = "cleanUp" => \A c \in Announcers : ~Active(c)
        BY <1>0, <3>1, GroupReading, GroupOf DEF Groups, Names
      <3> QED
        BY <1>0, <1>4, <3>2 DEF CountAnnouncers, Phases, Names
    <2> QED
      BY <1>1, <1>4, <2>1 DEF CountAnnouncers, Phases
  <1>5. CASE AwaitCollectors
    <2>1. \A c \in Collectors : ~Active(c)
      BY <1>0, <1>2, <1>5, GroupReading DEF AwaitCollectors, Groups
    <2> QED
      BY <1>1, <1>2, <1>5, <2>1 DEF AwaitCollectors, Phases
  <1>6. CASE Finish
    BY <1>0, <1>1, <1>6 DEF Finish, Phases
  <1>7. CASE main' = main \/ main' \in MainStates \ {"countAnnouncers", "awaitAnnouncers", "cleanUp", "done"}
    BY <1>0, <1>1, <1>2, <1>7 DEF Phases
  <1>8. ASSUME NEW c \in Names, \/ Setup(c) \/ ForwardSignal(c) \/ CleanUp(c) \/ Abort(c)
                               \/ Poller(c) \/ Poll(c)
        PROVE  main' = main \/ main' = "exited"
    BY <1>8 DEF Setup, BuildCollector, SkipCollector, StartCollector, ForwardSignal,
         CleanUp, Abort, Poller, PollerLoop, AwaitRunningPolls, TakeQuit, BeginPoll,
         EnterDefault, SkipPoll, DrainPolls, PollerDone, Poll, FetchEnds, SendResult,
         PollDone, mainVars
  <1>9. CASE \/ InitialiseDone \/ StartDone \/ TakeSignal \/ ForwardDone \/ AwaitAnnouncers
             \/ ReceiveResult \/ ReportIssues \/ MainSleep
             \/ Expire \/ DeliverSignal \/ Ended \/ UNCHANGED vars
    <2>1. main' = main \/ main' \in {"start", "countCollectors", "forward", "awaitCollectors", "report"}
      BY <1>9 DEF InitialiseDone, StartDone, TakeSignal, ForwardDone, AwaitAnnouncers,
           ReceiveResult, ReportIssues, MainSleep, Expire, DeliverSignal, Ended, vars, mainVars
    <2> QED
      BY <1>7, <2>1 DEF MainStates
  <1> QED
    BY <1>3, <1>4, <1>5, <1>6, <1>7, <1>8, <1>9 DEF Next, Main, MainLoop, MainStates

\* Steps of the pollers and the polls leave the main goroutine where it is, and
\* put nothing into a quit channel.
LEMMA PollerStepFrame ==
  ASSUME TypeOK, NEW c \in Names, Poller(c) \/ Poll(c)
  PROVE  /\ UNCHANGED <<main, todo, life, expired>>
         /\ \A d \in Names : collectorQuit'[d] > 0 => collectorQuit[d] > 0
  <1>1. CASE TakeQuit(c)
    BY <1>1 DEF TakeQuit, TypeOK, mainVars, envVars
  <1>2. CASE Poller(c) /\ ~TakeQuit(c)
    BY <1>2 DEF Poller, PollerLoop, AwaitRunningPolls, BeginPoll, EnterDefault, SkipPoll,
         DrainPolls, PollerDone, mainVars, chanVars, envVars
  <1>3. CASE Poll(c)
    BY <1>3 DEF Poll, FetchEnds, SendResult, PollDone, mainVars, chanVars, envVars
  <1> QED
    BY <1>1, <1>2, <1>3

LEMMA QuitsStep ==
  ASSUME IInv, [Next]_vars
  PROVE  Quits'
  <1>0. TypeOK /\ GroupCounts /\ Phases /\ Quits
    BY DEF IInv
  <1>1. main # "start" => \A d \in Names : Active(d)' => Active(d)
    BY <1>0, ActiveStep DEF StartCollector
  <1>2. \A d \in Names : collectorQuit[d] \in 0..1
    BY <1>0 DEF TypeOK
  <1>3. ASSUME NEW c \in Names, Setup(c)
        PROVE  Quits'
    <2>1. \A d \in Names : ~(collectorQuit[d] > 0)
      BY <1>0, <1>3 DEF Quits, Setup, BuildCollector, SkipCollector, StartCollector
    <2> QED
      BY <1>3, <2>1 DEF Quits, Setup, BuildCollector, SkipCollector, StartCollector, chanVars
  <1>4. ASSUME NEW c \in Names, ForwardSignal(c)
        PROVE  Quits'
    BY <1>0, <1>4 DEF Quits, ForwardSignal, TypeOK
  <1>5. ASSUME NEW c \in Names, CleanUp(c) \/ Abort(c)
        PROVE  Quits'
    BY <1>0, <1>1, <1>5 DEF Quits, CleanUp, Abort, chanVars
  <1>6. ASSUME NEW c \in Names, Poller(c) \/ Poll(c)
        PROVE  Quits'
    <2>1. /\ UNCHANGED <<main, todo>>
          /\ \A d \in Names : collectorQuit'[d] > 0 => collectorQuit[d] > 0
      BY <1>0, <1>6, PollerStepFrame
    <2>2. \A d \in Names : collectorQuit[d] = 0 => collectorQuit'[d] = 0
      BY <1>0, <1>6 DEF Poller, PollerLoop, AwaitRunningPolls, TakeQuit, BeginPoll,
           EnterDefault, SkipPoll, DrainPolls, PollerDone, Poll, FetchEnds, SendResult,
           PollDone, chanVars, TypeOK
    <2> QED
      BY <1>0, <1>1, <2>1, <2>2 DEF Quits
  <1>7. CASE CountCollectors
    <2>1. main' = "select" => \E d \in Names : Active(d)
      BY <1>0, <1>7, GroupReading DEF CountCollectors, Groups
    <2> QED
      BY <1>0, <1>1, <1>7, <2>1 DEF Quits, CountCollectors, chanVars
  <1>8. CASE CountAnnouncers
    <2>1. main' = "select" => \E d \in Names : Active(d)
      BY <1>0, <1>8, GroupReading DEF CountAnnouncers, Groups
    <2> QED
      BY <1>0, <1>1, <1>8, <2>1 DEF Quits, CountAnnouncers, chanVars
  <1>9. CASE AwaitAnnouncers
    <2>1. \A d \in Announcers : ~Active(d)
      BY <1>0, <1>9, GroupReading, GroupOf DEF AwaitAnnouncers, Groups, Names
    <2>2. \A d \in Names : ~Active(d)
      BY <1>0, <1>9, <2>1 DEF AwaitAnnouncers, Phases, Names
    <2> QED
      BY <1>0, <1>1, <1>9, <2>2 DEF Quits, AwaitAnnouncers, chanVars
  <1>10. CASE TakeSignal
    BY <1>0, <1>2, <1>10 DEF Quits, TakeSignal
  <1>11. CASE ForwardDone \/ AwaitCollectors
    BY <1>0, <1>11 DEF Quits, ForwardDone, AwaitCollectors, chanVars
  <1>12. CASE InitialiseDone \/ StartDone \/ ReceiveResult \/ ReportIssues \/ MainSleep
    BY <1>0, <1>12 DEF Quits, InitialiseDone, StartDone, ReceiveResult, ReportIssues,
         MainSleep, chanVars
  <1>13. CASE Finish \/ Expire \/ DeliverSignal \/ Ended \/ UNCHANGED vars
    <2>1. UNCHANGED <<main, todo, collectorQuit, poller>> \/ Finish
      BY <1>13 DEF Expire, DeliverSignal, Ended, vars, mainVars, chanVars, pollerVars
    <2> QED
      BY <1>0, <1>1, <2>1 DEF Quits, Finish, chanVars, Active
  <1> QED
    BY <1>3, <1>4, <1>5, <1>6, <1>7, <1>8, <1>9, <1>10, <1>11, <1>12, <1>13 DEF Next, Main,
         MainLoop

\* An announcer is started after every collector.
LEMMA StartOrderStep ==
  ASSUME IInv, [Next]_vars, main' = "start", NEW a \in Announcers, poller'[a] # "none"
  PROVE  todo' \subseteq Announcers
  <1>0. TypeOK /\ Lives /\ Announcing
    BY DEF IInv
  <1>1. CASE UNCHANGED <<main, todo, poller>>
    BY <1>0, <1>1 DEF Announcing
  <1>2. CASE InitialiseDone
    BY <1>0, <1>2, RunnerAssumption DEF InitialiseDone, Lives, pollerVars, Names
  <1>3. ASSUME NEW c \in Names, StartCollector(c)
        PROVE  todo' \subseteq Announcers
    <2>1. CASE c \in Announcers
      BY <1>3, <2>1 DEF StartCollector, IsAnnouncer
    <2>2. CASE c \notin Announcers
      <3>1. poller[a] # "none" /\ main = "start"
        BY <1>0, <1>3, <2>2 DEF StartCollector, TypeOK
      <3> QED
        BY <1>0, <1>3, <3>1 DEF Announcing, StartCollector
    <2> QED
      BY <2>1, <2>2
  <1>4. ASSUME NEW c \in Names, Poller(c)
        PROVE  todo' \subseteq Announcers
    <2>1. poller[a] # "none" /\ main = "start" /\ todo' = todo
      BY <1>0, <1>4 DEF Poller, PollerLoop, AwaitRunningPolls, TakeQuit, BeginPoll,
           EnterDefault, SkipPoll, DrainPolls, PollerDone, TypeOK, mainVars, Names
    <2> QED
      BY <1>0, <2>1 DEF Announcing
  <1>5. ASSUME NEW c \in Names, Poll(c)
        PROVE  todo' \subseteq Announcers
    BY <1>1, <1>5 DEF Poll, FetchEnds, SendResult, PollDone, mainVars, pollerVars
  <1>6. ASSUME NEW c \in Names,
               BuildCollector(c) \/ SkipCollector(c) \/ ForwardSignal(c) \/ CleanUp(c) \/ Abort(c)
        PROVE  FALSE
    BY <1>6 DEF BuildCollector, SkipCollector, ForwardSignal, CleanUp, Abort
  <1>7. CASE MainLoop \/ StartDone \/ Finish
    BY <1>7 DEF MainLoop, StartDone, Finish, CountCollectors, CountAnnouncers, TakeSignal,
         ForwardDone, AwaitCollectors, AwaitAnnouncers, ReceiveResult, ReportIssues,
         MainSleep
  <1>8. CASE Expire \/ DeliverSignal \/ Ended \/ UNCHANGED vars
    BY <1>1, <1>8 DEF Expire, DeliverSignal, Ended, vars, mainVars, pollerVars
  <1> QED
    BY <1>2, <1>3, <1>4, <1>5, <1>6, <1>7, <1>8 DEF Next, Main, Setup

LEMMA OutliveStep ==
  ASSUME IInv, [Next]_vars,
         main' \in {"start", "countCollectors", "countAnnouncers", "select", "report"},
         \A c \in Names : collectorQuit'[c] = 0,
         NEW a \in Announcers, poller'[a] \in {"drain", "leaving", "gone"},
         ~OnlyAnnouncers'
  PROVE  \A c \in Collectors : ~Active(c)'
  <1> DEFINE Early == {"start", "countCollectors", "countAnnouncers", "select", "report"}
  <1>0. TypeOK /\ GroupCounts /\ Lives /\ Phases /\ Quits /\ Announcing
    BY DEF IInv
  <1>1. a \in Names /\ Collectors \subseteq Names /\ \A c \in Collectors : c \notin Announcers
    BY RunnerAssumption DEF Names
  <1>2. ASSUME \A c \in Collectors : ~Active(c), \A c \in Collectors : ~StartCollector(c)
        PROVE  \A c \in Collectors : ~Active(c)'
    BY <1>0, <1>1, <1>2, ActiveStep
  <1>3. CASE /\ main \in Early /\ \A c \in Names : collectorQuit[c] = 0
             /\ poller[a] \in {"drain", "leaving", "gone"}
             /\ ~OnlyAnnouncers
             /\ \A c \in Collectors : ~StartCollector(c)
    BY <1>0, <1>2, <1>3 DEF Announcing
  <1>4. ASSUME NEW c \in Names, StartCollector(c)
        PROVE  \A d \in Collectors : ~Active(d)'
    <2>1. a # c /\ poller'[a] = poller[a] /\ main = "start"
      BY <1>0, <1>1, <1>4 DEF StartCollector, TypeOK
    <2>2. c \in Announcers
      BY <1>0, <1>4, <2>1 DEF Announcing, StartCollector
    <2>3. ~OnlyAnnouncers
      BY <1>0, <1>4 DEF OnlyAnnouncers, Instances, StartCollector, TypeOK, Lives, IsAnnouncer
    <2>4. \A d \in Collectors : ~Active(d)
      BY <1>0, <1>4, <2>1, <2>3 DEF Announcing, StartCollector, chanVars
    <2>5. \A d \in Collectors : d # c /\ poller'[d] = poller[d]
      BY <1>0, <1>1, <1>4, <2>2 DEF StartCollector, TypeOK
    <2> QED
      BY <2>4, <2>5 DEF Active
  <1>5. ASSUME NEW c \in Names, PollerLoop(c)
        PROVE  \A d \in Collectors : ~Active(d)'
    <2>1. UNCHANGED <<main, life, collectorQuit, wg>> /\ ~StartCollector(c)
      BY <1>0, <1>5 DEF PollerLoop, mainVars, chanVars, StartCollector, Lives, Active, TypeOK
    <2>2. \A d \in Collectors : ~StartCollector(d)
      BY <1>0, <1>1, <1>5 DEF PollerLoop, StartCollector, TypeOK, mainVars, Lives
    <2>3. ~OnlyAnnouncers
      BY <2>1 DEF OnlyAnnouncers, Instances
    <2>4. CASE poller[a] \in {"drain", "leaving", "gone"}
      BY <1>3, <2>1, <2>2, <2>3, <2>4
    <2>5. CASE poller[a] \notin {"drain", "leaving", "gone"}
      <3>1. c = a /\ ~ShouldKeepPolling(a)
        BY <1>0, <1>1, <1>5, <2>5 DEF PollerLoop, TypeOK
      <3>2. ~(wg["collectors"].count > 0)
        BY <2>3, <3>1 DEF ShouldKeepPolling, IsAnnouncer
      <3>3. \A d \in Collectors : ~Active(d)
        BY <1>0, <1>1, <3>2, GroupReading, GroupOf DEF Groups
      <3> QED
        BY <1>2, <2>2, <3>3
    <2> QED
      BY <2>4, <2>5
  <1>6. ASSUME NEW c \in Names, TakeQuit(c)
        PROVE  \A d \in Collectors : ~Active(d)'
    <2>1. collectorQuit[c] > 0 /\ main \in Early
      BY <1>6 DEF TakeQuit, mainVars
    <2>2. \A d \in Names : ~Active(d)
      BY <1>0, <2>1 DEF Quits
    <2> QED
      BY <1>6, <2>2 DEF TakeQuit, Active
  <1>7. ASSUME NEW c \in Names,
               \/ AwaitRunningPolls(c) \/ BeginPoll(c) \/ EnterDefault(c)
               \/ SkipPoll(c) \/ DrainPolls(c) \/ PollerDone(c)
        PROVE  \A d \in Collectors : ~Active(d)'
    <2>1. /\ UNCHANGED <<main, life, collectorQuit>>
          /\ poller[a] \in {"drain", "leaving", "gone"}
          /\ \A d \in Collectors : ~StartCollector(d)
      BY <1>0, <1>1, <1>7 DEF AwaitRunningPolls, BeginPoll, EnterDefault, SkipPoll,
           DrainPolls, PollerDone, StartCollector, TypeOK, mainVars, chanVars
    <2> QED
      BY <1>3, <2>1 DEF OnlyAnnouncers, Instances
  <1>8. CASE UNCHANGED poller
    <2>1. \A c \in Collectors : ~StartCollector(c)
      BY <1>0, <1>1, <1>8 DEF StartCollector, Lives, TypeOK, IInv
    <2>2. CASE UNCHANGED <<life, collectorQuit>> /\ main \in Early
      BY <1>3, <1>8, <2>1, <2>2 DEF OnlyAnnouncers, Instances
    <2>3. CASE InitialiseDone
      BY <1>0, <1>1, <1>8, <2>3 DEF InitialiseDone, Lives, Active
    <2>4. CASE AwaitAnnouncers
      <3>1. \A c \in Collectors : ~Active(c)
        BY <1>0, <2>4 DEF AwaitAnnouncers, Phases
      <3> QED
        BY <1>2, <2>1, <3>1
    <2>5. ASSUME NEW c \in Names, Setup(c) \/ ForwardSignal(c) \/ CleanUp(c) \/ Abort(c)
          PROVE  StartCollector(c)
      BY <2>5 DEF Setup, BuildCollector, SkipCollector, ForwardSignal, CleanUp, Abort
    <2>6. CASE StartDone \/ CountCollectors \/ CountAnnouncers \/ ReceiveResult
               \/ ReportIssues \/ MainSleep
      BY <2>2, <2>6 DEF StartDone, CountCollectors, CountAnnouncers, ReceiveResult,
           ReportIssues, MainSleep, chanVars
    <2>7. CASE TakeSignal \/ ForwardDone \/ AwaitCollectors \/ Finish
      BY <2>7 DEF TakeSignal, ForwardDone, AwaitCollectors, Finish
    <2>8. CASE \/ Expire \/ DeliverSignal \/ Ended \/ UNCHANGED vars
               \/ \E c \in Names : Poll(c)
      BY <2>2, <2>8 DEF Expire, DeliverSignal, Ended, vars, mainVars, chanVars, Poll,
           FetchEnds, SendResult, PollDone
    <2>9. ASSUME NEW c \in Names, Poller(c)
          PROVE  \A d \in Collectors : ~Active(d)'
      BY <1>5, <1>6, <1>7, <2>9 DEF Poller
    <2> QED
      BY <1>4, <2>3, <2>4, <2>5, <2>6, <2>7, <2>8, <2>9 DEF Next, Main, MainLoop
  <1>9. ASSUME NEW c \in Names, Poll(c)
        PROVE  UNCHANGED poller
    BY <1>9 DEF Poll, FetchEnds, SendResult, PollDone, pollerVars
  <1> QED
    BY StepKinds, <1>4, <1>5, <1>6, <1>7, <1>8, <1>9 DEF Poller, pollerVars

LEMMA AnnouncingStep ==
  ASSUME IInv, [Next]_vars
  PROVE  Announcing'
  BY StartOrderStep, OutliveStep DEF Announcing

-----------------------------------------------------------------------------
\* Replacing one group's counters by natural numbers keeps the type.
LEMMA WaitGroupUpdate ==
  ASSUME TypeOK, NEW g \in Groups, NEW m \in Nat, NEW n \in Nat
  PROVE  /\ [wg EXCEPT ![g].count = m] \in [Groups -> WaitGroups]
         /\ [wg EXCEPT ![g].members = n] \in [Groups -> WaitGroups]
         /\ [wg EXCEPT ![g].count = m, ![g].members = n] \in [Groups -> WaitGroups]
  <1>1. wg \in [Groups -> WaitGroups]
    BY DEF TypeOK, Groups
  <1>2. \A r \in WaitGroups : /\ [r EXCEPT !.count = m] \in WaitGroups
                              /\ [r EXCEPT !.members = n] \in WaitGroups
    BY DEF WaitGroups
  <1>3. [wg EXCEPT ![g].count = m] \in [Groups -> WaitGroups]
    BY <1>1, <1>2
  <1>4. [wg EXCEPT ![g].members = n] \in [Groups -> WaitGroups]
    BY <1>1, <1>2
  <1>5. [wg EXCEPT ![g].count = m, ![g].members = n] \in [Groups -> WaitGroups]
    BY <1>1, <1>2, <1>3
  <1> QED
    BY <1>3, <1>4, <1>5

LEMMA SetupTypes ==
  ASSUME IInv, NEW c \in Names, Setup(c)
  PROVE  TypeOK'
  <1>0. TypeOK
    BY DEF IInv
  <1>1. CASE BuildCollector(c) \/ SkipCollector(c)
    BY <1>0, <1>1 DEF BuildCollector, SkipCollector, TypeOK, pollerVars, chanVars, envVars
  <1>2. CASE StartCollector(c)
    <2>1. wg' \in [{"collectors", "announcers"} -> WaitGroups]
      <3>1. wg[Group(c)].count + 1 \in Nat /\ wg[Group(c)].members + 1 \in Nat
        BY <1>0, GroupOf, SMTT(20) DEF TypeOK, WaitGroups, Groups
      <3> QED
        BY <1>0, <1>2, <3>1, WaitGroupUpdate, GroupOf DEF StartCollector, Groups
    <2>2. poller' \in [Names -> PollerStates]
      BY <1>0, <1>2 DEF StartCollector, TypeOK, PollerStates
    <2> QED
      BY <1>0, <1>2, <2>1, <2>2 DEF StartCollector, TypeOK, chanVars, envVars
  <1> QED
    BY <1>1, <1>2 DEF Setup

LEMMA PollerTypes ==
  ASSUME IInv, NEW c \in Names, Poller(c)
  PROVE  TypeOK'
  <1>0. TypeOK /\ GroupCounts
    BY DEF IInv
  <1>1. \E t \in PollerStates : poller' = [poller EXCEPT ![c] = t]
    BY DEF Poller, PollerLoop, AwaitRunningPolls, TakeQuit, BeginPoll, EnterDefault,
         SkipPoll, DrainPolls, PollerDone, PollerStates
  <1>2. poller' \in [Names -> PollerStates]
    BY <1>0, <1>1 DEF TypeOK
  <1>3. CASE PollerLoop(c) \/ AwaitRunningPolls(c) \/ EnterDefault(c) \/ SkipPoll(c)
    BY <1>0, <1>2, <1>3 DEF PollerLoop, AwaitRunningPolls, EnterDefault, SkipPoll, TypeOK,
         mainVars, chanVars, envVars
  <1>4. CASE TakeQuit(c)
    <2>1. collectorQuit' \in [Names -> 0..1]
      BY <1>0, <1>4 DEF TakeQuit, TypeOK
    <2> QED
      BY <1>0, <1>2, <1>4, <2>1 DEF TakeQuit, TypeOK, mainVars, envVars
  <1>5. CASE BeginPoll(c)
    <2>1. polled' \in [Names -> 0..MaxPolls] /\ runningPolls' \in [Names -> Nat]
      BY <1>0, <1>5, RunnerAssumption DEF BeginPoll, TypeOK
    <2>2. polls' \in [Names -> [Stages -> Nat]]
      <3>1. polls \in [Names -> [Stages -> Nat]] /\ "fetching" \in Stages
        BY <1>0 DEF TypeOK, Stages
      <3>2. polls' = [polls EXCEPT ![c]["fetching"] = polls[c]["fetching"] + 1]
        BY <1>5 DEF BeginPoll
      <3> QED
        BY <3>1, <3>2
    <2> QED
      BY <1>0, <1>2, <1>5, <2>1, <2>2 DEF BeginPoll, TypeOK, mainVars, chanVars, envVars
  <1>6. CASE DrainPolls(c)
    <2>1. wg[Group(c)].count > 0
      BY <1>0, <1>6, GroupReading, GroupOf DEF DrainPolls, Active
    <2>2. wg' \in [{"collectors", "announcers"} -> WaitGroups]
      <3>1. wg[Group(c)].count - 1 \in Nat
        BY <1>0, <2>1, GroupOf DEF TypeOK, WaitGroups, Groups
      <3> QED
        BY <1>0, <1>6, <3>1, WaitGroupUpdate, GroupOf DEF DrainPolls, Groups
    <2> QED
      BY <1>0, <1>2, <1>6, <2>2 DEF DrainPolls, TypeOK, mainVars, chanVars, envVars
  <1>7. CASE PollerDone(c)
    <2>1. wg[Group(c)].members > 0
      <3>1. c \in UnfinishedIn(Group(c))
        BY <1>7 DEF PollerDone, UnfinishedIn
      <3>2. Cardinality(UnfinishedIn(Group(c))) > 0
        BY <3>1, GroupSetsFinite, FS_EmptySet
      <3> QED
        BY <1>0, <3>2, GroupOf DEF GroupCounts
    <2>2. wg' \in [{"collectors", "announcers"} -> WaitGroups]
      <3>1. wg[Group(c)].members - 1 \in Nat
        BY <1>0, <2>1, GroupOf DEF TypeOK, WaitGroups, Groups
      <3> QED
        BY <1>0, <1>7, <3>1, WaitGroupUpdate, GroupOf DEF PollerDone, Groups
    <2> QED
      BY <1>0, <1>2, <1>7, <2>2 DEF PollerDone, TypeOK, mainVars, chanVars, envVars
  <1> QED
    BY <1>3, <1>4, <1>5, <1>6, <1>7 DEF Poller

LEMMA PollTypesStep ==
  ASSUME IInv, NEW c \in Names, Poll(c)
  PROVE  TypeOK'
  <1>0. TypeOK /\ PollCounts
    BY DEF IInv
  <1>1. ASSUME NEW o \in Outcomes, FetchEnds(c, o)
        PROVE  TypeOK'
    <2>1. polls' \in [Names -> [Stages -> Nat]]
      BY <1>0, <1>1, MovePollEffect DEF FetchEnds, Outcomes, Stages
    <2>2. issues' \in 0..MaxIssues
      BY <1>0, <1>1, RunnerAssumption DEF FetchEnds, TypeOK
    <2> QED
      BY <1>0, <1>1, <2>1, <2>2 DEF FetchEnds, TypeOK, mainVars, pollerVars, chanVars
  <1>2. ASSUME NEW o \in Outcomes, SendResult(c, o)
        PROVE  TypeOK'
    <2>1. polls' \in [Names -> [Stages -> Nat]]
      BY <1>0, <1>2, MovePollEffect DEF SendResult, Outcomes, Stages
    <2>2. pollResults' \in Seq(Outcomes) /\ Len(pollResults') <= PollResultsQueueSize
      BY <1>0, <1>2, RunnerAssumption DEF SendResult, TypeOK
    <2> QED
      BY <1>0, <1>2, <2>1, <2>2 DEF SendResult, TypeOK, mainVars, pollerVars, envVars
  <1>3. CASE PollDone(c)
    <2>1. polls' \in [Names -> [Stages -> Nat]]
      BY <1>0, <1>3, SMTT(20) DEF PollDone, TypeOK, Stages
    <2>2. runningPolls[c] \in Nat \ {0}
      BY <1>0, <1>3, PollTypes DEF PollDone, PollCounts, PollCountOf, Stages
    <2>3. runningPolls' \in [Names -> Nat]
      BY <1>0, <1>3, <2>2 DEF PollDone, TypeOK
    <2> QED
      BY <1>0, <1>3, <2>1, <2>3 DEF PollDone, TypeOK, mainVars, chanVars, envVars
  <1> QED
    BY <1>1, <1>2, <1>3 DEF Poll

LEMMA MainTypes ==
  ASSUME IInv, \/ InitialiseDone \/ StartDone \/ MainLoop \/ Finish
               \/ \E c \in Names : ForwardSignal(c) \/ CleanUp(c) \/ Abort(c)
  PROVE  TypeOK'
  <1>0. TypeOK
    BY DEF IInv
  <1>1. Instances \subseteq Names
    BY DEF Instances
  <1>2. CASE InitialiseDone \/ StartDone \/ Finish
    BY <1>0, <1>1, <1>2
    DEF InitialiseDone, StartDone, Finish, TypeOK, MainStates, pollerVars, chanVars, envVars
  <1>3. CASE CountCollectors \/ CountAnnouncers \/ ForwardDone \/ AwaitCollectors
             \/ AwaitAnnouncers \/ MainSleep
    BY <1>0, <1>1, <1>3
    DEF CountCollectors, CountAnnouncers, ForwardDone, AwaitCollectors, AwaitAnnouncers,
        MainSleep, TypeOK, MainStates, pollerVars, chanVars, envVars
  <1>4. CASE TakeSignal
    BY <1>0, <1>1, <1>4 DEF TakeSignal, TypeOK, MainStates, pollerVars, envVars
  <1>5. CASE ReceiveResult
    <2>1. pollResults' \in Seq(Outcomes) /\ Len(pollResults') <= PollResultsQueueSize
      BY <1>0, <1>5, RunnerAssumption DEF ReceiveResult, TypeOK
    <2> QED
      BY <1>0, <1>5, <2>1 DEF ReceiveResult, TypeOK, MainStates, pollerVars, envVars
  <1>6. CASE ReportIssues
    BY <1>0, <1>6, RunnerAssumption DEF ReportIssues, TypeOK, MainStates, pollerVars, envVars
  <1>7. ASSUME NEW c \in Names, ForwardSignal(c)
        PROVE  TypeOK'
    BY <1>0, <1>7 DEF ForwardSignal, TypeOK, pollerVars, envVars
  <1>8. ASSUME NEW c \in Names, CleanUp(c) \/ Abort(c)
        PROVE  TypeOK'
    BY <1>0, <1>8 DEF CleanUp, Abort, TypeOK, MainStates, pollerVars, chanVars, envVars
  <1> QED
    BY <1>2, <1>3, <1>4, <1>5, <1>6, <1>7, <1>8 DEF MainLoop

LEMMA TypeStep ==
  ASSUME IInv, [Next]_vars
  PROVE  TypeOK'
  <1>0. TypeOK
    BY DEF IInv
  <1>1. CASE Expire
    BY <1>0, <1>1 DEF Expire, TypeOK, mainVars, pollerVars, chanVars
  <1>2. CASE DeliverSignal
    BY <1>0, <1>2, RunnerAssumption DEF DeliverSignal, TypeOK, mainVars, pollerVars
  <1>3. CASE Ended \/ UNCHANGED vars
    BY <1>0, <1>3 DEF Ended, TypeOK, vars, mainVars, pollerVars, chanVars, envVars
  <1> QED
    BY <1>1, <1>2, <1>3, SetupTypes, PollerTypes, PollTypesStep, MainTypes DEF Next, Main
-----------------------------------------------------------------------------
\* Every counter counts what it should and no goroutine is where the phase of
\* the run forbids it to be.
THEOREM Invariance == Spec => []IInv
  <1>1. IInv /\ [Next]_vars => IInv'
    BY TypeStep, PollCountsStep, GroupCountsStep, LivesStep, PhasesStep, QuitsStep,
       AnnouncingStep DEF IInv
  <1> QED
    BY InitIInv, <1>1, PTL DEF Spec

\* The state of the runner has the types the code declares, and no wait group's
\* counter goes negative (a negative sync.WaitGroup counter panics).
THEOREM TypeCorrect == Spec => []TypeOK
  BY Invariance, PTL DEF IInv

\* However many collectors and whatever the poll interval, at most
\* maxRunningPolls polls of a collector are at work.
THEOREM PollBound == Spec => []RunningPollsBounded
  <1>1. IInv => RunningPollsBounded
    <2> SUFFICES ASSUME IInv, NEW c \in Names
                 PROVE  Undelivered(c) <= MaxRunningPolls
      BY DEF RunningPollsBounded
    <2>1. PollCountOf(c) /\ TypeOK
      BY DEF IInv, PollCounts
    <2> QED
      BY <2>1, PollTypes, RunnerAssumption DEF PollCountOf, Stages
  <1> QED
    BY Invariance, <1>1, PTL

\* Collectors are cleaned up only after every poller has left and every poll
\* has delivered its result.
THEOREM QuiescentCleanUp == Spec => []CleanUpIsQuiescent
  <1>1. IInv => CleanUpIsQuiescent
    <2> SUFFICES ASSUME IInv, main \in {"cleanUp", "done"}, NEW c \in Names
                 PROVE  Stopped(c) /\ Undelivered(c) = 0
      BY DEF CleanUpIsQuiescent
    <2>1. ~Active(c) /\ PollCountOf(c) /\ TypeOK
      BY DEF IInv, Phases, PollCounts
    <2>2. Stopped(c)
      BY <2>1 DEF Active, Stopped, TypeOK, PollerStates
    <2> QED
      BY <2>1, <2>2, PollTypes DEF PollCountOf, Stages
  <1> QED
    BY Invariance, <1>1, PTL

\* Unless a signal was forwarded, no announcer leaves its loop before the last
\* collector has.
THEOREM AnnouncersLast == Spec => []AnnouncersOutliveCollectors
  <1>1. IInv => AnnouncersOutliveCollectors
    BY RunnerAssumption
    DEF IInv, TypeOK, Announcing, AnnouncersOutliveCollectors, Active, Stopped,
        PollerStates, Names
  <1> QED
    BY Invariance, <1>1, PTL

\* The main goroutine finds room in every quit channel it forwards a signal to.
THEOREM ForwardingNeverBlocks == Spec => []ForwardNeverBlocks
  <1>1. IInv => ForwardNeverBlocks
    BY DEF IInv, TypeOK, Quits, ForwardNeverBlocks
  <1> QED
    BY Invariance, <1>1, PTL

-----------------------------------------------------------------------------
\* After its signal was forwarded a poller either still has it in its channel or
\* is on its way out.
Forwarded ==
  \A c \in Names :
    /\ main \in {"forward", "awaitCollectors", "awaitAnnouncers"}
    /\ main = "forward" => c \notin todo
    /\ Active(c)
    /\ collectorQuit[c] = 0
    => poller[c] = "drain"

LEMMA ForwardedStep ==
  ASSUME IInv, Forwarded, [Next]_vars
  PROVE  Forwarded'
  <1>0. TypeOK /\ Lives /\ \A d \in Names : collectorQuit[d] \in 0..1
    BY DEF IInv, TypeOK
  <1>1. ASSUME NEW c \in Names, Setup(c)
        PROVE  Forwarded'
    BY <1>1 DEF Forwarded, Setup, BuildCollector, SkipCollector, StartCollector
  <1>2. ASSUME NEW c \in Names, ForwardSignal(c)
        PROVE  Forwarded'
    BY <1>0, <1>2 DEF Forwarded, ForwardSignal, TypeOK, Active, pollerVars
  <1>3. ASSUME NEW c \in Names, CleanUp(c) \/ Abort(c)
        PROVE  Forwarded'
    BY <1>3 DEF Forwarded, CleanUp, Abort
  <1>4. CASE TakeSignal
    BY <1>0, <1>4 DEF Forwarded, TakeSignal, Lives, Instances, Active, pollerVars
  <1>5. CASE ForwardDone \/ AwaitCollectors
    BY <1>5 DEF Forwarded, ForwardDone, AwaitCollectors, Active, pollerVars, chanVars
  <1>6. CASE \/ InitialiseDone \/ StartDone \/ CountCollectors \/ CountAnnouncers
             \/ AwaitAnnouncers \/ ReceiveResult \/ ReportIssues \/ MainSleep \/ Finish
    <2>1. main' \notin {"forward", "awaitCollectors", "awaitAnnouncers"}
      BY <1>6 DEF InitialiseDone, StartDone, CountCollectors, CountAnnouncers,
           AwaitAnnouncers, ReceiveResult, ReportIssues, MainSleep, Finish
    <2> QED
      BY <2>1 DEF Forwarded
  <1>7. CASE \/ Expire \/ DeliverSignal \/ Ended \/ UNCHANGED vars
             \/ \E c \in Names : Poll(c)
    <2>1. UNCHANGED <<main, todo, poller, collectorQuit>>
      BY <1>7 DEF Expire, DeliverSignal, Ended, vars, mainVars, pollerVars, chanVars,
           Poll, FetchEnds, SendResult, PollDone
    <2> QED
      BY <2>1 DEF Forwarded, Active
  <1>8. ASSUME NEW c \in Names, PollerLoop(c)
        PROVE  Forwarded'
    BY <1>0, <1>8 DEF Forwarded, PollerLoop, TypeOK, Active, mainVars, chanVars
  <1>9. ASSUME NEW c \in Names, TakeQuit(c)
        PROVE  Forwarded'
    BY <1>0, <1>9 DEF Forwarded, TakeQuit, TypeOK, Active, mainVars
  <1>10. ASSUME NEW c \in Names,
                \/ AwaitRunningPolls(c) \/ BeginPoll(c) \/ EnterDefault(c)
                \/ SkipPoll(c) \/ DrainPolls(c) \/ PollerDone(c)
        PROVE  Forwarded'
    BY <1>0, <1>10 DEF Forwarded, AwaitRunningPolls, BeginPoll, EnterDefault, SkipPoll,
         DrainPolls, PollerDone, TypeOK, Active, mainVars, chanVars
  <1> QED
    BY <1>1, <1>2, <1>3, <1>4, <1>5, <1>6, <1>7, <1>8, <1>9, <1>10 DEF Next, Main, MainLoop,
         Poller

LEMMA ToldIsForwarded ==
  ASSUME Forwarded, NEW c \in Names, Told(c), Active(c), collectorQuit[c] = 0
  PROVE  poller[c] = "drain"
  BY DEF Forwarded, Told

\* A poller that was told to quit begins at most the one poll it was committed to.
THEOREM OnePollAfterForwardAtMost == Spec => OnePollAfterForward
  <1>1. Init => Forwarded
    BY DEF Init, Forwarded
  <1>2. ASSUME IInv, Forwarded, [Next]_vars, NEW c \in Names, Told(c)
        PROVE  /\ poller'[c] = "default" => poller[c] = "default" /\ polled'[c] = polled[c]
               /\ polled'[c] = polled[c] \/ (poller[c] = "default" /\ polled'[c] = polled[c] + 1)
    <2>0. TypeOK
      BY <1>2 DEF IInv
    <2>1. CASE UNCHANGED <<pollerVars, polls>>
      BY <2>1 DEF pollerVars
    <2>2. ASSUME NEW d \in Names, StartCollector(d)
          PROVE  FALSE
      BY <1>2, <2>2 DEF StartCollector, Told
    <2>3. ASSUME NEW d \in Names, EnterDefault(d)
          PROVE  UNCHANGED polled /\ (poller'[c] = "default" => poller[c] = "default")
      <3>1. d # c
        BY <1>2, <2>3, ToldIsForwarded DEF EnterDefault, Active
      <3> QED
        BY <2>0, <2>3, <3>1 DEF EnterDefault, TypeOK
    <2>4. ASSUME NEW d \in Names, BeginPoll(d)
          PROVE  /\ poller'[c] = "default" => poller[c] = "default" /\ polled'[c] = polled[c]
                 /\ polled'[c] = polled[c] \/ (poller[c] = "default" /\ polled'[c] = polled[c] + 1)
      BY <2>0, <2>4 DEF BeginPoll, TypeOK
    <2>5. ASSUME NEW d \in Names, Poll(d)
          PROVE  UNCHANGED <<polled, poller>>
      BY <2>5 DEF Poll, FetchEnds, SendResult, PollDone, pollerVars
    <2>6. ASSUME NEW d \in Names,
                 \/ PollerLoop(d) \/ AwaitRunningPolls(d) \/ TakeQuit(d)
                 \/ SkipPoll(d) \/ DrainPolls(d) \/ PollerDone(d)
          PROVE  UNCHANGED polled /\ (poller'[c] = "default" => poller[c] = "default")
      BY <2>0, <2>6 DEF PollerLoop, AwaitRunningPolls, TakeQuit, SkipPoll, DrainPolls,
           PollerDone, TypeOK
    <2> QED
      BY StepKinds, <1>2, <2>1, <2>2, <2>3, <2>4, <2>5, <2>6 DEF Poller
  <1>3. IInv /\ Forwarded /\ [Next]_vars
          => [\A c \in Names : Told(c) =>
                /\ poller'[c] = "default" => poller[c] = "default" /\ polled'[c] = polled[c]
                /\ polled'[c] = polled[c]
                     \/ (poller[c] = "default" /\ polled'[c] = polled[c] + 1)]_vars
    BY <1>2
  <1>4. IInv /\ Forwarded /\ [Next]_vars => Forwarded'
    BY ForwardedStep
  <1> QED
    BY Invariance, <1>1, <1>3, <1>4, PTL DEF Spec, OnePollAfterForward
-----------------------------------------------------------------------------
(***************************************************************************)
(* Refinement: the runner implements CollectorLifecycle                    *)
(***************************************************************************)
LEMMA LifecycleInit == Init => Lifecycle!Init
  BY DEF Init, Lifecycle!Init, Undelivered, Stages

LEMMA LifecycleStep ==
  ASSUME IInv, [Next]_vars
  PROVE  [Lifecycle!Next]_(Lifecycle!vars)
  <1> DEFINE run == [c \in Names |-> Undelivered(c)]
  <1>0. TypeOK /\ PollCounts /\ Lives /\ TypeOK'
    BY TypeStep DEF IInv
  <1> USE DEF Lifecycle!vars, Lifecycle!Next
  <1>1. ASSUME UNCHANGED polls PROVE run' = run
    BY <1>1 DEF Undelivered
  <1>2. ASSUME UNCHANGED <<life, polls>> PROVE UNCHANGED Lifecycle!vars
    BY <1>1, <1>2
  <1>3. ASSUME NEW c \in Names, BuildCollector(c) \/ StartCollector(c) \/ CleanUp(c)
        PROVE  Lifecycle!Next
    <2>1. run' = run
      BY <1>1, <1>3 DEF BuildCollector, StartCollector, CleanUp
    <2>2. CASE BuildCollector(c)
      BY <1>0, <2>1, <2>2 DEF BuildCollector, Lives, Lifecycle!Build
    <2>3. CASE StartCollector(c)
      BY <1>0, <2>1, <2>3 DEF StartCollector, Lives, Lifecycle!Start
    <2>4. CASE CleanUp(c)
      <3>1. life[c] = "started"
        BY <1>0, <2>4 DEF CleanUp, Lives
      <3>2. run[c] = 0
        <4>1. ~Active(c) /\ PollCountOf(c)
          BY <1>0, <2>4 DEF CleanUp, IInv, Phases, PollCounts
        <4> QED
          BY <1>0, <4>1, PollTypes DEF PollCountOf, Stages
      <3> QED
        BY <2>1, <2>4, <3>1, <3>2 DEF CleanUp, Lifecycle!CleanUp
    <2> QED
      BY <1>3, <2>2, <2>3, <2>4
  <1>4. ASSUME NEW c \in Names, BeginPoll(c)
        PROVE  Lifecycle!Next
    <2>1. /\ polls'[c]["fetching"] = polls[c]["fetching"] + 1
          /\ \A s \in {"ok", "issues", "delivered"} : polls'[c][s] = polls[c][s]
          /\ \A d \in Names \ {c} : polls'[d] = polls[d]
      BY <1>0, <1>4 DEF BeginPoll, TypeOK, Stages
    <2>2. Undelivered(c)' = Undelivered(c) + 1
      BY <1>0, <2>1, PollTypes DEF Undelivered, Stages
    <2>3. run' = [run EXCEPT ![c] = run[c] + 1]
      BY <2>1, <2>2 DEF Undelivered
    <2>4. life[c] = "started" /\ UNCHANGED life
      BY <1>0, <1>4 DEF BeginPoll, Lives, Active, mainVars
    <2>5. run[c] < MaxRunningPolls
      BY <1>0, <1>4, PollTypes, RunnerAssumption DEF BeginPoll, PollCounts, PollCountOf, Stages
    <2> QED
      BY <2>3, <2>4, <2>5 DEF Lifecycle!BeginPoll
  <1>5. ASSUME NEW c \in Names, NEW o \in Outcomes, SendResult(c, o)
        PROVE  Lifecycle!Next
    <2>1. MovePoll(c, o, "delivered") /\ UNCHANGED <<life, poller>>
      BY <1>5 DEF SendResult, mainVars, pollerVars
    <2>2. /\ polls[c][o] > 0
          /\ polls'[c][o] = polls[c][o] - 1
          /\ \A s \in Stages \ {o, "delivered"} : polls'[c][s] = polls[c][s]
          /\ \A d \in Names \ {c} : polls'[d] = polls[d]
      BY <1>0, <2>1, MovePollEffect DEF Outcomes, Stages
    <2>3. Undelivered(c)' = Undelivered(c) - 1 /\ Undelivered(c) > 0
      BY <1>0, <2>2, PollTypes DEF Undelivered, Outcomes, Stages
    <2>4. run' = [run EXCEPT ![c] = run[c] - 1] /\ run[c] > 0
      BY <2>2, <2>3 DEF Undelivered
    <2>5. life[c] = "started"
      <3>1. runningPolls[c] # 0
        BY <1>0, <2>3, PollTypes DEF PollCounts, PollCountOf, Stages
      <3> QED
        BY <1>0, <3>1 DEF PollCounts, PollCountOf, Lives
    <2> QED
      BY <2>1, <2>4, <2>5 DEF Lifecycle!EndPoll
  <1>6. ASSUME NEW c \in Names, NEW o \in Outcomes, FetchEnds(c, o)
        PROVE  UNCHANGED Lifecycle!vars
    <2>1. /\ polls'[c]["fetching"] = polls[c]["fetching"] - 1
          /\ polls'[c][o] = polls[c][o] + 1
          /\ \A s \in Stages \ {"fetching", o} : polls'[c][s] = polls[c][s]
          /\ \A d \in Names \ {c} : polls'[d] = polls[d]
      BY <1>0, <1>6, MovePollEffect DEF FetchEnds, Outcomes, Stages
    <2>2. Undelivered(c)' = Undelivered(c)
      BY <1>0, <2>1, PollTypes DEF Undelivered, Outcomes, Stages
    <2> QED
      BY <1>6, <2>1, <2>2 DEF FetchEnds, mainVars, Undelivered
  <1>7. ASSUME NEW c \in Names, PollDone(c)
        PROVE  UNCHANGED Lifecycle!vars
    <2>1. /\ \A s \in Stages \ {"delivered"} : polls'[c][s] = polls[c][s]
          /\ \A d \in Names \ {c} : polls'[d] = polls[d]
      BY <1>0, <1>7 DEF PollDone, TypeOK, Stages
    <2>2. \A d \in Names : Undelivered(d)' = Undelivered(d)
      BY <2>1 DEF Undelivered, Stages
    <2> QED
      BY <1>7, <2>2 DEF PollDone, mainVars
  <1>8. ASSUME NEW c \in Names, \/ SkipCollector(c) \/ ForwardSignal(c) \/ Abort(c)
                               \/ PollerLoop(c) \/ AwaitRunningPolls(c) \/ TakeQuit(c)
                               \/ EnterDefault(c) \/ SkipPoll(c) \/ DrainPolls(c)
                               \/ PollerDone(c)
        PROVE  UNCHANGED Lifecycle!vars
    BY <1>2, <1>8 DEF SkipCollector, ForwardSignal, Abort, PollerLoop, AwaitRunningPolls,
         TakeQuit, EnterDefault, SkipPoll, DrainPolls, PollerDone, mainVars
  <1>9. CASE InitialiseDone \/ StartDone \/ MainLoop \/ Finish
    BY <1>2, <1>9 DEF InitialiseDone, StartDone, Finish, MainLoop, CountCollectors,
         CountAnnouncers, TakeSignal, ForwardDone, AwaitCollectors, AwaitAnnouncers,
         ReceiveResult, ReportIssues, MainSleep
  <1>10. CASE Expire \/ DeliverSignal \/ Ended \/ UNCHANGED vars
    BY <1>2, <1>10 DEF Expire, DeliverSignal, Ended, vars, mainVars
  <1> HIDE DEF run
  <1> QED
    BY <1>3, <1>4, <1>5, <1>6, <1>7, <1>8, <1>9, <1>10 DEF Next, Main, Setup, Poller, Poll

\* Every behaviour of the runner is one of CollectorLifecycle: its collectors are
\* started once, polled only while started and within the bound, and cleaned up
\* when none of their polls is at work.
THEOREM RunnerImplementsLifecycle == Spec => ImplementsLifecycle
  <1>1. IInv /\ [Next]_vars => [Lifecycle!Next]_(Lifecycle!vars)
    BY LifecycleStep
  <1> QED
    BY Invariance, LifecycleInit, <1>1, PTL DEF Spec, ImplementsLifecycle, Lifecycle!Spec
=============================================================================
