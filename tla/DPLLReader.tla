---------------------------------- MODULE DPLLReader ----------------------------------
(***************************************************************************)
(* What the DPLL collector reads (collectors/dpll_collector*.go,           *)
(* devices/dpll_fs.go, devices/dpll_netlink.go): from files of the driver  *)
(* when there are any, or over netlink in the debug pod.  Start looks the  *)
(* clock's pins up, chooses the one to read the offset of, and builds the  *)
(* fetcher, which is cached under the clock's ID; each poll then fetches   *)
(* the states of the clock and the offset of that pin.  The board may      *)
(* change between any two requests.                                        *)
(***************************************************************************)
EXTENDS Fetcher, Naturals, FiniteSets

CONSTANT MaxStarts  \* bound: Starts of the collector

VARIABLES
  board,   \* the pins and the states of the clocks
  dpll     \* the collector: where it is, its parameters, its fetcher, its last reading

\* Two cards: the collector's interface is on the first.  Pins 1 and 2 are of that.
Clocks  == {1, 2}
Pins    == {1, 2, 3}
ClockOf == <<1, 1, 2>>
Label   == <<"GNSS-1PPS", "SMA1", "GNSS-1PPS">>
Parents == {"eec", "pps"}
OwnClock == 1

\* The directions a pin may have.
Directions == {"input", "output"}

NoParams  == [pin |-> 0, label |-> ""]
NoReading == [label |-> "", state |-> "", fields |-> Failed]

BoardInit == board = [direction |-> "input", connected |-> [p \in {1, 2} |-> Parents],
                      state |-> [c \in Clocks |-> "locked"]]
DPLLInit  == dpll = [at |-> "off", starts |-> 0, found |-> NoParams, params |-> NoParams,
                     fetcher |-> 0, reading |-> NoReading]

\* One pin or one clock changes; the other card's pin stays as it is.
BoardChanges ==
  /\ dpll.at # "off"
  /\ \/ \E d \in Directions : board' = [board EXCEPT !.direction = d]
     \/ \E p \in {1, 2}, c \in SUBSET Parents : board' = [board EXCEPT !.connected[p] = c]
     \/ \E c \in Clocks, s \in {"locked", "holdover"} : board' = [board EXCEPT !.state[c] = s]
  /\ board' # board
  /\ UNCHANGED dpll
-----------------------------------------------------------------------------
(***************************************************************************)
(* NewDPLLCollector and Start                                              *)
(***************************************************************************)
Become(at) == dpll' = [dpll EXCEPT !.at = at] /\ UNCHANGED board

expected == {"dpll_0_state", "dpll_1_state", "dpll_1_offset"}

\* IsDPLLFileSystemPresent: all three files are listed; that the listing fails leaves
\* netlink.  Without the pod of the daemon there is no collector.
Choose ==
  /\ dpll.at = "choose"
  /\ \/ \E present \in SUBSET expected :
          Become(IF present = expected THEN "filesystem" ELSE "start")
     \/ Become("start")
     \/ Become("failed")

\* postProcessDPLLFilesystem
postProcessFilesystem(result) ==
  IF result.dpll_1_offset = Bad THEN Failed ELSE [dpll_1_offset |-> result.dpll_1_offset]

\* GetDevDPLLFilesystemInfo
PollFilesystem ==
  /\ dpll.at = "filesystem"
  /\ \E offset \in {Nothing, Bad, "offset"} :
       LET out == [date |-> "date", dpll_0_state |-> board.state[OwnClock],
                   dpll_1_state |-> board.state[OwnClock], dpll_1_offset |-> offset]
           result == ExtractResult(DOMAIN out, out)
       IN dpll' = [dpll EXCEPT !.reading.fields =
                     Fetch(result, postProcessFilesystem(result), DOMAIN out)]
  /\ UNCHANGED board

Connected(p) == board.connected[p] = Parents

\* selectPin, on the pins of the clock; both labels are there.
selectPin ==
  IF Connected(1) THEN 1 ELSE IF Connected(2) /\ board.direction = "input" THEN 2 ELSE 0

\* GetNetlinkParameters: without pins the requirements are not met, and with none of
\* them connected Start fails; so it does when its command fails.
GetParameters ==
  /\ dpll.at = "start" /\ dpll.starts < MaxStarts
  /\ \/ /\ selectPin # 0
        /\ dpll' = [dpll EXCEPT !.at = "build", !.starts = @ + 1,
                                !.found = [pin |-> selectPin, label |-> Label[selectPin]]]
        /\ UNCHANGED board
     \/ Become("failed")

\* Mutant of BuildFetcher: a fetcher that is cached for the clock is used again.
BuildFetcherOnce ==
  /\ dpll.at = "build"
  /\ dpll' = [dpll EXCEPT !.at = "started", !.params = dpll.found,
                          !.fetcher = IF @ = 0 THEN dpll.found.pin ELSE @]
  /\ UNCHANGED board

\* BuildDPLLNetlinkDeviceFetcher, which replaces the fetcher, and the end of Start.
BuildFetcher ==
  /\ dpll.at = "build"
  /\ dpll' = [dpll EXCEPT !.at = "started", !.params = dpll.found,
                          !.fetcher = dpll.found.pin]
  /\ UNCHANGED board

\* The runner starts the collector that its constructor has started already.
StartAgain == dpll.at = "started" /\ dpll.starts < MaxStarts /\ Become("start")
-----------------------------------------------------------------------------
(***************************************************************************)
(* Polls                                                                   *)
(***************************************************************************)
\* The states of the clock, by type, from the entries of all clocks.
StatesOf(entries) ==
  [t \in Parents |-> (CHOOSE e \in entries : e.type = t /\ e.clock = OwnClock).state]

\* buildPostProcessDPLLNetlink: a text that is not JSON is only logged.  The key of the
\* EEC's offset is one that no field has.
postProcessNetlink(result) ==
  Over(IF result.device = Bad THEN <<>> ELSE StatesOf(result.device),
       IF result.offset = Bad THEN <<>>
       ELSE [ecc_offset |-> result.offset, pps_offset |-> result.offset])

Entries == {[clock |-> c, type |-> t, state |-> board.state[c]] : c \in Clocks, t \in Parents}

\* GetDevDPLLNetlinkInfo.  An offset is known by the pin it is of.  Nothing is published
\* of a fetch that fails.
PollNetlink ==
  /\ dpll.at = "started"
  /\ \E device \in {Nothing, Bad, Entries}, offset \in {Bad, dpll.fetcher} :
       LET out    == [date |-> "date", device |-> device, offset |-> offset]
           result == ExtractResult(DOMAIN out, out)
           fields == Fetch(result, postProcessNetlink(result),
                           {"date", "eec", "pps", "pps_offset", "eec_offset"})
       IN dpll' = [dpll EXCEPT !.reading =
            IF fields = Failed THEN @
            ELSE [label |-> dpll.params.label, state |-> board.state[OwnClock],
                  fields |-> fields]]
  /\ UNCHANGED board

DPLLBegin == dpll.at = "off" /\ Become("choose")
DPLLNext == \/ BoardChanges \/ Choose \/ PollFilesystem \/ GetParameters
            \/ BuildFetcher \/ StartAgain \/ PollNetlink
-----------------------------------------------------------------------------
\* A reading over netlink is one of one pin and one clock: the label it is published
\* under is that of the pin its offset was read from, a pin of the collector's own
\* card, and its states are those the own clock had then - whichever pin was chosen at
\* an earlier Start, and although the fetcher is cached by the clock and the label kept
\* by the collector (dpll_netlink.go:203, 262, 270).
ReadingIsOfThePin ==
  LET r == dpll.reading
  IN r.label # "" =>
       /\ \A t \in Parents : r.fields[t] \in {r.state, Zero}
       /\ r.fields.pps_offset # Zero => /\ Label[r.fields.pps_offset] = r.label
                                        /\ ClockOf[r.fields.pps_offset] = OwnClock
=======================================================================================
