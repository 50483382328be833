# A verification model of vse-sync-tests

`vse-sync-tests` tests the time synchronisation of OpenShift nodes. A collection
tool (Go) polls a node for the state of its clocks and the log of its PTP daemon,
post-processing (Python) parses and analyses what was collected, a test driver
(Python) runs one test implementation per requirement and turns the results into
JUnit, and a reporting step renders them. This directory holds TLA+ modules for
the parts of it in which order and concurrency decide, TLC configurations that
check them on small instances, and machine-checked proofs.

Paths below are relative to `src/collection_tools/pkg` unless they start with `src/`.

## The system

| Component | State it keeps | Operations | Talks to | What makes it correct |
|---|---|---|---|---|
| collector runner (`runner/runner.go`) | collector instances, two wait groups, channels `pollResults`, `erroredPolls`, `quit`, a quit channel per poller | initialise, start, one poller goroutine per collector, main loop, cleanUpAll | collectors (calls, one goroutine per poll), OS signals | bounded polls; clean-up only when nothing polls; announcers outlive collectors; every run and every signal ends in clean-up |
| base collector, interface (`collectors/collector.go`) | running flag, callback | Start, Poll, CleanUp | runner (result channel, wait group), callback | a collector lives built, started, polled, cleaned up |
| Logs collector (`collectors/log_follower.go`, `loglines/lines.go`) | time and generation of the last poll, slices by generation, two channels of work, output file | overlapping polls, filing, flushing, writing, dumping, CleanUp | Kubernetes log streams, runner | every collected line is written once, in order, without gaps, and CleanUp ends |
| de-duplication (`loglines/dedup.go`) | none | DedupLineSlices and what it is made of | Logs collector | overlapping windows merge into the lines they cover |
| DevInfo collector (`collectors/dev_info_collector.go`) | device info, the pod name of its context, one-slot channel `requiresFetch` | build, monitor of errored polls, overlapping polls, CleanUp | runner through `erroredPolls`, the daemon's pod | the monitor never blocks on what it asks for, CleanUp waits for it but not for ever |
| DPLL, PMC, GPS collectors, device readers (`collectors/`) | pin and clock parameters, fetchers cached by clock | choose a reader, look up pins, one script of commands per poll | base collector, fetcher, debug pod | a reading is published for the pin and the clock it was read from |
| registry and selection (`collectors/registry.go`, `runner/collector_selector.go`) | names | resolve "all", "defaults", duplicates | runner, command line | required collectors first, each collector once, those named |
| debug pod (`clients/exec_command.go`, `cmd/debug_pod.go`) | the pod last seen, the pod in the cluster | find, create, await, delete | Kubernetes, other programs that use the same pod | a left-over pod of another image is not taken, what is cleaned up does not run on, an unmanaged pod is left alone |
| fetcher (`fetcher/`, `clients/command.go`) | one script made of commands, a post-processor | build, fetch, extract, unmarshal | exec contexts | each field gets its part of the output, or the fetch fails |
| callbacks (`callbacks/`) | one output file | format and write | collectors | one record per poll |
| verification (`verify/`, `validations/`) | what has been fetched, over several attempts | fetch, retry, verify, report in two formats | command line | both formats come to one exit code, and the receiver is judged by one reading |
| detection (`detect/`) | what has been read of the files | read one kind of configuration or the other, sort, de-duplicate | Kubernetes | the primary port of a card is kept |
| post-processing (`src/postprocess`) | per analyzer: rows, closed or not | dispatch, parse, collect, analyse | files of the collection tool | a row goes to its analyzer; state transitions of the clock |
| testdrive (`src/testdrive`) | none | run tests, JUnit create and merge | test implementations | counts add up, an error of one test is recorded |
| reporting, `src/cmd/e2e.sh`, test implementations | none | straight-line glue | all of the above | layout |

What is hard about it: the runner and the Logs collector are goroutines that meet
over bounded channels, wait groups whose count is read without waiting, and quit
channels; polls overlap by design; several programs share one debug pod by its name, in
a cluster that changes between any two requests; pods of the daemon restart under other
names; fetchers are cached while what they were built from changes; log streams break; failures end the process in
the middle of a loop; and de-duplication has to work on any windows the streams
leave. `PROJECT.json` lists each hazard at its line.

## Modules

| Module | Models | State and actions |
|---|---|---|
| `CollectorLifecycle` | what the `Collector` interface promises | `life` and `running` of each collector; Build, Start, BeginPoll, EndPoll, CleanUp |
| `CollectorRunner` | `runner.go`, `WaitGroupCount`, `baseCollector.Poll` | `main` and `poller` are program counters of the goroutines, `polls` counts the goroutines of each collector's polls by stage; one action per channel operation, wait or loop head |
| `MCCollectorRunner` | | the property that sums over the polls of all collectors |
| `CollectorRunnerProofs` | | the inductive invariant, its proof, and the theorems |
| `Ordering` | `sort.Slice`, as `Dedup`, `Selection` and `Detection` use it | pure: sorting as functions that proofs can expand |
| `Dedup` | `dedup.go` | pure: one function per Go function, recursive where the Go code loops, indices as in the code, `ok = FALSE` where Go would panic |
| `MCDedup` | | every sequence of small windows, one `AddWindow` at a time |
| `Induction` | | lemmas: induction over the numbers, recursion over the numbers and recursion that need not end, with sets in place of operators; sequences, orders and sorting |
| `DedupProofs`, `MCDedupProofs` | | what the functions of `Dedup` return on windows without and with missing lines, and the theorems |
| `LogWriter` | what the Logs collector promises of its file | `collected`, `file`, `closed`; Collect, Write, Close |
| `LogsCollector` | `log_follower.go`, `lines.go`, on top of `Dedup` | `polls`, `lastPoll`, `slices`, `store`, `processor`, `writer`, `dumper`, `cleanUp`; one action per channel operation, lock, read of shared state or loop decision |
| `LogsCollectorProofs` | | the control of CleanUp, what is written and when, types, the refinement of `LogWriter`, the progress of flushes: invariants, proofs, theorems |
| `DebugPod` | `exec_command.go`, the netlink collector's constructor, Start and CleanUp, `cmd/debug_pod.go` | `pod` in the cluster; `user`: of each program its stage, where its call is, and its `c.pod`; one action per request to the API server |
| `DebugPodProofs` | | the inductive invariant, its proof, and the theorems |
| `DevInfoCollector` | `dev_info_collector.go`, finding and refreshing the daemon's pod, the runner's loop as far as errored polls go | channels as lengths, `polls` by slot, `monitor` and `main` as program counters |
| `DevInfoCollectorProofs` | | the control invariant, its proof, and the theorems |
| `Fetcher` | `fetcher.go`, `unmarshal.go`, `command.go` | pure: a run's output as a function from keys |
| `DPLLReader` | `dpll_collector*.go`, `dpll_netlink.go`, `dpll_fs.go`, on top of `Fetcher` | `board` changes at any time; `dpll` is where the collector is, its parameters, its cached fetcher, its last reading |
| `Verification` | `verify.go`, `result.go`, how the validations end, `gps_ubx.go`, on top of `Fetcher` | `verify`: one action per fetch, attempt and report |
| `Detection` | `detect.go` | `detect`: one action per listing and per file |
| `Selection` | `collector_selector.go`, `registry.go`, the check in `collect.go` | pure functions, and one action that gives them names |
| `MCTools` | | one of the four sequential parts at a time |
| `ToolsProofs` | | the invariants of all four, and the theorems |

### CollectorRunner

`main` goes through initialise, start, the main loop (two counts read one after the
other, then the `select`), forwarding a signal, waiting, and clean-up. `wg` keeps
the readable count and the members of each `WaitGroupCount` apart, because `Done`
lowers them in two steps and `Run` reads one and waits on the other. A poll is one
of a collector's goroutines and has no identity in the code, so `polls` counts them
by stage: fetching, holding a result, delivered. `IfErrorExitOrPanic` is `Abort` in
each of the three loops, and in `Finish` for the callback. A poller that has taken the
`default` of its `select` is at "default": nothing looks at its quit channel again before it
begins a poll or finds none due, so main may forward the signal and start to wait in between.
`OnePollAfterForward` therefore allows the one poll it was committed to, which main does
not receive from any more.

Time is abstract: `expired` becomes true once, and whether a poll is due is free
after the first. The number of polls, of errored polls and of signals is bounded by
`MaxPolls`, `MaxIssues` and `MaxSignals`.

### LogsCollector

The clock is a small integer and the daemon logs line `t` at time `t`, so a poll's
window is an interval: from `since`, read when the request is made, to the first line
past the end the poll expects. `start` and `generation` are read when the stream
is open, and slice, `lastPoll` and the end of the poll are separate steps, as the
goroutines of other polls may run in between. `Flush` and `FlushAll` apply `Dedup`
to the actual slices. The runner's guarantee is the guard of `BeginCleanUp`: no poll
is at work (`CleanUpIsQuiescent`, proved of the runner). A log that is silent until
the follow timeout, and a poll whose request fails, are not modelled: the first is a
stream that breaks, the second a poll that does not happen. Lines that cannot be processed,
which each poll skips alike (`log_follower.go:211-214`), are left out: the log is the lines
it can read. So are writes that fail, which are logged and lose their line (`log_follower.go:94-105`):
what is said of the file is said of writes that succeed.

### Dedup

A line is a number, its text and timestamp at once; lines of equal text are
therefore the same line. `WriteOverlap`, which writes a dump, is left out.

### DebugPod

The debug pod has a fixed name, and any number of programs use it: collections (whose
constructor starts the netlink collector, which the runner then starts again),
collections with `--unmanaged-debug-pod`, `start-debug` and `stop-debug`. The cluster
starts, ends, evicts and removes the pod by itself. The image is a setting of each program
(`NETLINK_DEBUG_CONTAINER_IMAGE`, `contexts.go:23-31`): those in `Configurable` are run with either of two. Each step of a program is one
request, answered from the state the cluster is in then, so anything may happen
between two requests of one call. `GiveUp` is a request that fails as well as a wait whose
time-out expires; a create or delete may take effect although its answer is lost. A list
that is older than the state it is asked in is not modelled.

`checkForLeftOverPod` compares images, but the look after it, and each one in the wait, goes by the
name alone. TLC finds that a program can go on with a pod of another image in eleven steps: it sees
a pod of its own image, which is evicted and goes; another program creates one of its image, which
starts; and the second look finds that one running. The code does not rule this out and
promises nothing about it, so `TakesNoLeftOver` says what is left: the pod a program goes on with
runs, and has its image unless another program has created it since the first look. (`since` in the
model is the number of pods created before that look.)

What the model shows of the code, besides its properties: a pod that was created and
did not start in time is still Pending, is not deleted by `DeletePodAndWait`, which only
deletes what runs and returns without an error, and is in the way of every later create.
When a create finds a foreign pod in its way, `c.pod` becomes an empty pod that is not nil,
so the clean-up of the collector that could not be built looks the name up, finds the
foreign pod, and deletes it. A `c.pod` of an earlier call whose pod has gone since makes
`Start` and `CleanUp` fail (`refeshPod` finds nothing).

### DevInfoCollector

The collection tool never gives the collector the runner's `erroredPolls`, so in the
program nothing is ever fetched again (`runner_errored_polls` shows what that does to
main). The model has both: `wired = FALSE` is the program, `wired = TRUE` what the
constructor's field and the comments of `monitorErroredPolls` are for. The information is
the version the device was at. Overlapping fetches may put an older version back, and nothing is
said of which is kept. `TypeOK`, `CleanUpWaits` and `MainGoesOn` are checked of both;
`MonitorNeverBlocks` says something only of a monitor that is wired.

### Fetcher, DPLLReader, Verification, Detection, Selection

These are sequential, and are checked over all small inputs. The output of a command is
a value, `Nothing` for no line at all, or `Bad` for text that cannot be read; a
command without output fails its group (`command.go:45`). The type mismatches that
`unmarshal` reports cannot occur with the fields the program has. `DPLLReader` has a second
card, so that entries of another clock are there to be confused with. `Verification` has
environments with up to two deviating checks, an antenna that differs from attempt to
attempt, and attempts that fail. Its two reports are two actions, as they compute the exit code apart:
one gathers failures and unknown results, the other goes through the sorted results and writes a line for each,
of which one may fail. `Detection` has a map's order free, files that cannot be
read, and either kind of file. What these modules take as it is in the code:

- `dpll_netlink.go:224` writes `ecc_offset` where the field's key is `eec_offset` (line 52),
  so the EEC's offset is always its zero value;
- `selectPin` (`dpll_netlink.go:356`) dereferences a nil pointer on a clock without one of its
  two pins; the board of the model has both;
- the comment at `gps_ubx_ver.go:91` says that a missing device gives an empty string; a
  command that prints nothing fails the fetch instead, so the failing branch of the
  validation is never reached, nor is that of the driver's version;
- `collect.go:66-72` asks for a logs file only when a name is literally `Logs` or `all`, while
  the selection also takes `defaults` and other cases of `all`: with those and no file the Logs
  collector runs, and its writer panics on opening a file without a name (`log_follower.go:153-154`);
- names of collectors are compared exactly (`collector_selector.go:57`), although the help says their
  case does not matter: `tools_names` shows it, and `SelectedOnce` leaves open whether such a name runs its collector;
- ports of `ptp4l` are de-duplicated within a file and not across files, those of `ts2phc` not
  at all.

## Runs

| Run | Expect | Shows | Bounds |
|---|---|---|---|
| `runner_liveness` | pass | every run ends in clean-up when its time is over, and after a signal while `pollResults` has room for the results to come | a collector, an announcer, 2 polls each, one at a time, 1 slot for results, 1 errored poll, 1 signal |
| `runner_safety` | pass | the safety properties, one poll at most after a signal was forwarded, and the refinement | 3 polls each with at most 2 at once, 1 slot, 2 signals, failures of build, start, clean-up, callback; 700,000 states |
| `runner_shutdown` | violation | a signal hangs the run when there is no room | 1 slot, 2 polls |
| `runner_errored_polls` | violation | main blocks on `erroredPolls` for good | 1 slot, 2 errored polls |
| `logs_pipeline` | pass | written once, in order, no gaps, flushes make progress, no slice is late; the collector implements `LogWriter` | 13 ticks, 2 polls at once, requests answered up to 1 tick late and streams up to 1 more, 2 generations kept; 2,453,520 states |
| `logs_breaks` | pass | order and bounds hold when streams break anywhere; CleanUp ends, after the goroutines have | 7 ticks, 1 generation kept, channels of 1 slice, 2 lines |
| `dedup_windows` | pass | complete windows merge exactly; with lines missing, no index out of range, the latest window kept, order where windows meet | all triples of subsets of 1..5 |
| `dedup_missing_lines` | violation | two incomplete windows lose a line | all pairs of subsets of 1..4 |
| `debug_pod` | pass | the shared pod: no left-over of another image taken, nothing left running, unmanaged untouched, every call returns | 2 programs of any kind, one of them with either image, 2 pods created, a left-over pod in any phase and of either image; 642,884 states |
| `dev_info` | pass | the monitor never blocks, CleanUp waits and ends | 2 polls at once, 2 slots for results, 1 for errored polls, 2 pods of the daemon, 2 versions, 2 issues; 123,144 states |
| `tools` | pass | selection, detection, verification and readings | 3 names, 3 interfaces on 2 devices in 2 files, 3 attempts, 2 deviations, 3 starts; 784,987 states |
| `tools_names` | violation | a name in another case than the collector's does not run it | 2 names |

Why the bounds are enough: a collector with two polls at once already has one that
blocks while another returns; one slot makes every channel full as often as
possible; two signals fill a quit channel twice. In the Logs collector 13 ticks are five polls,
begun every other tick, of which two overlap, and two generations are kept. One flush takes place and a
second becomes due; after the first there are slices that wait and polls at work, also of the
generation that is the oldest now, which is what `NoLateSlice` is about. Requests are
answered late but in turn at these lags, as the theorems assume too (`Timely`). The
code's numbers (5 generations, 100 and 1000 slots, 3 polls) only make this rarer.
In `debug_pod` one program has the default image and the other may have another, as a left-over pod has.
Two programs are a reader and a writer of the pod between any two requests; two pods
created are one that was deleted meanwhile and its successor, and what holds of any
number is proved. With two polls of the DevInfo collector one can fetch while another
takes what is kept or fetches too, and one slot for errored polls is full after a single
one. Three interfaces on two devices put two ports on a card in any order, and three names
are a group, a single name and a repetition.

The runs of the runner do not check for deadlock, as it really stops for good in the
ways `runner_shutdown` and `runner_errored_polls` show, and those of `MCDedup` end when all
windows are there. Programs of `debug_pod` and commands of `tools` end, and the collector of
`dev_info` ends with its run; these do not check either. The runs of the Logs collector do check. There the `default` cases of
the three `select`s are the action `Sleep`.

### Fairness

Weak fairness of each goroutine: the Go scheduler runs what can run. In the runner,
a poll that is fetching returns, as each fetch is a command that answers or a request
with a timeout. In `DebugPod` a program goes on with its call (`Request`), whose waits have
time-outs, while the cluster owes nothing. In `DevInfoCollector` the monitor and
main are fair, which is all that `MainGoesOn` needs. Time passing, signals and the start of CleanUp are not
fair: the properties speak of what follows them.

### Mutants

Each property of a passing run has a mutant beside the definition it mutates, named
in `PROJECT.json`: the property fails when the mutant takes the definition's place.

## Proofs

`CollectorRunnerProofs` proves for any finite sets of collectors and announcers, any
queue size and any number of running polls, from `RunnerAssumption` alone:
type correctness, `RunningPollsBounded`, `CleanUpIsQuiescent`,
`AnnouncersOutliveCollectors`, `ForwardNeverBlocks`, `OnePollAfterForward` and that
`CollectorRunner` implements `CollectorLifecycle`.

None of the invariants is inductive alone. `IInv` adds

- `PollCounts`: the wait group of a poller counts exactly its polls by stage, below
  the limit where the poller may begin another, and 0 once it has drained;
- `GroupCounts`: count and members of each wait group are the numbers of pollers
  that have not lowered them yet, as cardinalities;
- `Lives`: where main is in its loops determines the stage of each collector's life
  and which pollers exist;
- `Phases`: what main has waited for or counted, so that it cleans up only when both
  counts were 0 and no poller can come back;
- `Quits`: the quit channel of a poller holds a signal only between forwarding and
  the end of the waits, which is why forwarding does not block;
- `Announcing`: collectors are started before announcers, and an announcer that has
  left its loop has seen the count of collectors at 0.

The proof of each conjunct has one case per kind of step. `GroupCounts` needs the
finite-set theorems of the library; the refinement needs `IInv` for the guards of
`BeginPoll` and `CleanUp`.

`DebugPodProofs` proves, for any number of programs and of pods, `TypeOK`,
`TakesNoLeftOver`, `NothingLeftRunning` and `UnmanagedUntouched`, from `NobodyAssumption` alone.
`IInv` says what the pod in the cluster can be (`ClusterPod`), what a program knows where it is
(`Local`), and how the two are tied: what a program can have done while the pod was there before it first looked and has
another image (`Foreign`: it has not started), that a pod it created has its image (`Own`), or while its own pod is pending (`Starting`:
it waits or has failed, and has not begun to clean up), and what the pod is after its
clean-up (`Cleaned`). `Starting` is why a clean-up that finds nothing running leaves no
pod of its own that may start later. One lemma per request shows that `IInv` is kept,
also for the other programs.

`DevInfoCollectorProofs` proves `TypeOK`, `MonitorNeverBlocks` and `CleanUpWaits` for any number of
polls and any room in the channels, from `DevInfoAssumption`. `Control` adds that `wg` is 1
exactly where the monitor has added itself and not left, and that main waits only for a
monitor that has received from `quit`; `requiresFetch` is filled by the monitor alone.

`LogsCollectorProofs` proves, for any log, any room in the channels and any number of polls
and generations kept:

- `CleanUpWaits`, from `LogsAssumption` alone. `GroupCount` ties `wg` to where the two
  goroutines are, `Stopping` the stage of CleanUp to all four; it needs the runner's guarantee
  that no poll is at work.
- From `LogsAssumption` and `Timely`: `FileInOrder`, `NoGap`, `NothingLost`, `NoLateSlice`,
  `NeverPanics`, `TypeOK`, and that the collector implements `LogWriter`.
- From those and `MaxRunningPolls <= keepGenerations`: `FlushMakesProgress`.

`Timely` says what the collector relies on without checking it: streams do not break; a request
is answered before the next poll begins (`OpenLag <= PollInterval`); and a poll's stream lags so
little that the poll is over before the third one after it could be
(`OpenLag + ReadLag <= 2 * PollInterval + 1`). The constants of `logs_pipeline` satisfy it.
Without the first part TLC finds lines lost that a poll had collected: a slice that breaks off inside an earlier one
cuts that short in `DedupAB`, and the code's comments expect losses (`log_follower.go:327`, `dedup.go:143`). Without the second
TLC finds two streams opened in the wrong order, whose lines `FileInOrder` then
finds repeated (`OpenLag = 2`, `PollInterval = 1`, `ReadLag = 1`). The third is sufficient, and
what the runner's limit of polls at work is meant for. `MaxRunningPolls <= keepGenerations`
holds of the code (3, `runner.go:20`, and 5, `dedup.go:15`); with 3 polls and one generation kept
TLC finds a flush that is due and has only the oldest generation within reach.

The invariant is `WrittenInv`. It speaks of *reads*, the lines a poll contributes from first
to last under a generation: those of polls at work (`Pending`), of slices in the channel and of
slices in the store (`Queued`). Its parts are

- `Clocks`, `Shapes`, `PollTimes`: types, slices without missing lines, and what a poll knows
  where it is;
- `Apart`, `Spaced`: no two requests are open and no two reads start together, and reads start
  at least a poll interval less an answer apart, so that three of them span two;
- `InTurn`: reads that start later begin with later lines and have later generations, and those
  of one generation overlap. This is what makes sorting by start, within a
  generation and then by generation, the order of the log;
- `InStore`, `Begun`: the store holds generations from oldest to latest, oldest among them, and
  no read is for an older one, so that nothing that is flushed can still grow;
- `Known`: a poll asks for the log from a line on that an earlier one has queued, so that there are no
  gaps between reads;
- `Linked`, `Content`, `Emptied`: what goes to the file is the log up to some line, each read
  begins right there or inside another one, and what was collected is there or queued.

One lemma per step of a poll, of processSlices and of the writer shows that it is kept; that of the flush
uses the theorems about `Dedup`. `Promised` follows: the file is the log up to a line that was
collected, and the last one when CleanUp has ended, and each step is one of `LogWriter` or
none. `InSteps` is for `FlushMakesProgress`: a generation begins when a poll is over, and its
slice is queued by then, so generations that hold slices are never further apart than
polls can be at work (`Near`); a flush then has one besides the oldest within reach.

`DedupProofs` proves that windows that miss no line and end in the order they start in merge into
the interval they cover: `DedupAB` of two of them ends in `noOverlap` or `sameToEnd` and never
reaches `handleIncompleteOverlap`. `MCDedupProofs` proves `WindowsMergeExactly` with it, for any
number of windows of any log in any order. Sorting, the loop over slices and the loops over maps
and files are recursions over numbers; the induction they need is stated in `Induction` with a set of
numbers in the place of the operator of the library's theorems (`NatInductionSet`, from the
well-foundedness of inclusion of finite sets), and so is that such a recursion defines a function
(`RecursionDefines`).

Windows that miss lines go through `resolved` and `handleIncompleteOverlap`, which recurse on pairs of
slices. That the two definitions define functions at all is `TailRecursionDefines`: where a pair's
recursion ends its value is the one it ends with, and where it does not any value will do. So
`ResolvedStep` and `HandleIs` expand each once, at any pair. The loop does end: each turn leaves less of the
second slice after the first issue (`FixedCloser`), so what each turn keeps, the loop keeps
(`LoopKeeps`). `FixedIs` says what a turn does, as lines: the slices `Meet` again further on, or
have nothing left in common (`Disjoint`), or each has the other's line `Ahead` and nothing changes.
Three such invariants of the loop give the three theorems, for windows of any lengths:

- Two slices in order that have a line in common (`InOrderFrom`) are resolved, in order, and
  the second loses no line. With it `TwoWindows` says what `DedupAB` makes of any two windows,
  which gives `LatestWindowKept` for any number of windows, as the last two decide it
  (`WindowsSorted`, `ResultIs`), and `OverlapInOrder`.
- Three windows compare the first with what the last two became. That is in order, or it is one after the
  other where the two do not join (`Halves`), and then the loop can end at an issue it cannot
  fix. Some lines always agree before it (`HalvesFixed`), so the split leaves no empty slice and
  what is tried again is resolved (`SplitHandled`): `IndexInRange`.

`ToolsProofs` proves of `MCTools` that `AntennaFromOneReading` and `FormatsAgree` hold for
any number of attempts and of deviating checks, from `RetriesAssumption`,
`ReadingIsOfThePin` for any number of Starts, `SelectedOnce` for any names in any order
(`NamesAssumption`), and `PrimaryKept` for any files with any interfaces, in any order of the
maps (`InterfacesAssumption`, `FilesAssumption`). `VerifyInv` adds `Attempts`: `gpsDetails` is of
the last attempt, and `antCheck` too unless that failed, and then the command panics before it checks;
`AnyHasFailedIs` says, by induction along the sorted results, that the loop of the one report finds a
failure exactly where the other gathers one.
`DPLLInv` adds that the label kept by a started collector is that of the pin its cached
fetcher reads; `Published` says what a fetch with its post-processor can then put in a reading.
`CollectInv` adds only types, as one step resolves all names, and `DetectInv` says of each file read that
its ports are kept; those proofs are about the functions of `Selection` and `Detection`: sorting, loops
and the removal of duplicates.

What stays with TLC: liveness (`DurationEndsInCleanUp`, `ShutdownWithRoomEnds`, `CleanUpEnds`,
`EveryCommandEnds`, `MainGoesOn`), and the Logs collector with streams that
break (`logs_breaks`), where only `CleanUpWaits` is proved.

## What the runs found

`PROJECT.json` lists the findings with the lines they contradict: the hang on a signal
and the undrained `erroredPolls` of the runner, the names whose case does matter, and the lines
that `fixLines` skips.

The attempt to prove `IndexInRange` for any number of windows showed that it is false for six. What the windows
`<<5>>`, `<<2,4,5,6,7,9,10>>`, `<<1,7,8,9>>`, `<<1,6,12>>`, `<<4,6,7,8,9>>` and `<<3,6,11>>`
become is compared with a reference that is out of order, an issue at the very first line cannot
be fixed, and `DedupAB` takes the last line of the empty slice the split leaves (`dedup.go:145`
and `159`), which panics. `DedupLineSlices` of these slices evaluates to `ok = FALSE`; six windows
are out of reach of a run over all inputs. `IndexInRange` is therefore stated of up to three windows, where
it is proved, and says nothing of this case. A flush merges up to six slices, one of each generation (`lines.go:222-230`), so six
are within what the collector can pass; while its streams do not break, their slices miss no
line and nothing panics (`NeverPanics`, proved).

Two things are modelled but have no run: a CleanUp that fails ends the process before the other collectors are cleaned up
(`Abort`), and the store of the Logs collector survives its CleanUp (`FlushAll`).

## Plan

1. `IndexInRange` of four and five windows: no proof yet, and random windows have shown no counterexample.
2. `DebugPod` with a list that may be older than the state it is asked in.
3. The Logs collector with streams that break: which lines are then certain.

## Not modelled

- PMC and GPS collectors beyond their readers' shape: they add nothing to the base
  collector and `CollectorRunner`.
- Callbacks, the reporting step, `src/cmd/e2e.sh` and the wrappers under `src/tests`: formatting,
  layout, and straight-line glue.
- Post-processing: sequential Python whose results depend on parsing and, in the wander
  statistics, on floating point.
- testdrive: sequential Python; `run.py:37` is listed as a hazard without a property.
- Regular expressions, comparison of versions, flags, and the client set.
