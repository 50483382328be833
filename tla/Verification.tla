--------------------------------- MODULE Verification ---------------------------------
(***************************************************************************)
(* The env verify command (verify/verify.go, validations): it fetches what *)
(* is to be checked, of the receiver up to antPowerRetries times until its *)
(* antenna is connected, then verifies each check and reports.  A check    *)
(* that was verified has failed, or is unknown when its data could not be  *)
(* had or read.                                                            *)
(***************************************************************************)
EXTENDS Fetcher, SequencesExt, Naturals

CONSTANTS
  antPowerRetries,  \* attempts to find the antenna connected
  MaxDeviations     \* bound: checks that are not as they should be

ASSUME RetriesAssumption == antPowerRetries \in Nat \ {0}

VARIABLE verify  \* the command: where it is, the environment, and what it has found

\* The checks, in the order of getValidations.
DeviceChecks  == <<"device", "firmware", "driver">>
VersionChecks == <<"gnssVersion", "gpsd", "gnssDevices", "module", "protocol">>
StatusChecks  == <<"antenna", "navStatus">>
CommonChecks  == <<"operator", "cluster">>

Applicable(clock) ==
  DeviceChecks
  \o (IF clock = "GM" THEN VersionChecks \o StatusChecks \o <<"grandMaster">> ELSE <<>>)
  \o CommonChecks

\* What the environment may be like: "bad" for one that is not valid, "odd" for one that
\* cannot be told.  The driver is never bad: an old version, or one that is not a
\* version, is taken for an out-of-tree driver (NewDeviceDriver); the device files are
\* never bad, since without one the fetch fails.
MayBe(check) == CASE check \in {"device", "module"}     -> {"good", "bad"}
                  [] check = "driver"                   -> {"good", "odd"}
                  [] check \in {"gnssDevices"} \cup ToSet(StatusChecks) -> {"good"}
                  [] OTHER                              -> {"good", "bad", "odd"}

Checks == ToSet(Applicable("GM"))

Environments ==
  {e \in UNION {[Checks -> {"good"}],
                {[[c \in Checks |-> "good"] EXCEPT ![c1] = k1, ![c2] = k2] :
                   c1, c2 \in Checks, k1, k2 \in {"bad", "odd"}}} :
     /\ \A c \in Checks : e[c] \in MayBe(c)
     /\ Quantify(Checks, LAMBDA c : e[c] # "good") <= MaxDeviations}

VerifyInit == verify = [at |-> "off", clock |-> "", json |-> FALSE,
                        env |-> [c \in Checks |-> "good"], navs |-> <<>>,
                        antCheck |-> 0, gpsDetails |-> 0, exit |-> "", says |-> "",
                        lines |-> {}]

\* The command has been given a valid clock type.
VerifyBegin ==
  /\ verify.at = "off"
  /\ \E clock \in {"GM", "BC"}, json \in BOOLEAN, env \in Environments :
       verify' = [verify EXCEPT !.at = "fetch", !.clock = clock, !.json = json, !.env = env]

Panic == verify' = [verify EXCEPT !.at = "over", !.exit = "panic"]

\* getDevInfoValidations and getGPSVersionValidations: their fetches succeed or end it.
FetchVersions ==
  /\ verify.at = "fetch"
  /\ \/ verify' = [verify EXCEPT !.at = IF verify.clock = "GM" THEN "status" ELSE "verify"]
     \/ Panic
-----------------------------------------------------------------------------
(***************************************************************************)
(* getGPSStatusValidation                                                  *)
(***************************************************************************)
\* processUBX: all three messages are there, or it fails.
processUBX(result) ==
  IF Bad \in {result.GPS.status, result.GPS.clock, result.GPS.monitor} THEN Failed
  ELSE [navStatus |-> result.GPS.status, navClock |-> result.GPS.clock,
        antennaDetails |-> result.GPS.monitor]

\* GetGPSNav, whose command may fail.  Blocks of the antenna are known by their status.
Outputs ==
  {[GPS |-> Nothing]} \cup
  {[GPS |-> [status |-> s, clock |-> c, monitor |-> m]] :
     s \in {Bad, "good", "bad"}, c \in {Bad, "clock"}, m \in {Bad, <<>>, <<1, 2>>, <<1, 1>>}}

NavFields == {"navStatus", "navClock", "antennaDetails"}
GPSResult(out) == ExtractResult({"GPS"}, out)
Navs == {Failed} \cup
        {Fetch(GPSResult(out), processUBX(GPSResult(out)), NavFields) : out \in Outputs}

\* GNSSAntStatus.Verify
AntennaConnected(nav) == 2 \in ToSet(nav.antennaDetails)

Attempt == Len(verify.navs) + 1

\* One attempt: an error goes to the next one, an antenna that is not connected too.
TryNav ==
  /\ verify.at = "status" /\ Attempt <= antPowerRetries
  /\ \E nav \in Navs :
       verify' = [verify EXCEPT
         !.navs = Append(@, nav), !.gpsDetails = Attempt,
         !.antCheck = IF nav = Failed THEN @ ELSE Attempt,
         !.at = IF nav # Failed /\ AntennaConnected(nav) THEN "statusRead" ELSE "status"]

TriesDone ==
  /\ verify.at = "status" /\ Attempt > antPowerRetries
  /\ verify' = [verify EXCEPT !.at = "statusRead"]

\* Mutant of StatusRead: the error of the last attempt is not looked at if an earlier one
\* has had none.
StatusReadIfAny ==
  /\ verify.at = "statusRead"
  /\ IF verify.antCheck = 0 THEN Panic
     ELSE verify' = [verify EXCEPT !.at = "verify"]

\* An error of the last attempt ends the command, also after an attempt without one.
StatusRead ==
  /\ verify.at = "statusRead"
  /\ IF Last(verify.navs) = Failed THEN Panic
     ELSE verify' = [verify EXCEPT !.at = "verify"]
-----------------------------------------------------------------------------
(***************************************************************************)
(* Verify and report                                                       *)
(***************************************************************************)
\* The Verify methods, and NewValidationResult.
Result(check) ==
  LET of(good) == IF good THEN "success" ELSE "failure"
  IN CASE check = "antenna"   -> of(AntennaConnected(verify.navs[verify.antCheck]))
       [] check = "navStatus" -> of(verify.navs[verify.gpsDetails].navStatus = "good")
       [] verify.env[check] = "odd" -> "unknown"
       [] OTHER               -> of(verify.env[check] = "good")

Made == ToSet(Applicable(verify.clock))

\* report gathers failures and unknown results, in the order of the checks.
Gathered(type) == {c \in Made : Result(c) = type}
PlainExit      == IF Gathered("failure") # {} THEN "InvalidEnv" ELSE "0"

ReportPlain ==
  /\ verify.at = "verify" /\ ~verify.json
  /\ verify' = [verify EXCEPT
       !.at = "over", !.exit = PlainExit,
       !.says = IF Gathered("failure") # {} THEN ""
                ELSE IF Gathered("unknown") # {} THEN "not complete" ELSE "no issues"]

\* The order of the results in the other format (GetOrder, common.go:22-36).
Ordering ==
  <<"cluster", "operator", "gpsd", "device", "driver", "firmware", "module", "gnssVersion",
    "protocol", "gnssDevices", "antenna", "navStatus", "grandMaster">>

\* anyHasFailed after the loop over the results, of which it looks at those of the checks.
anyHasFailed(checks) ==
  LET failed[n \in 0 .. Len(Ordering)] ==
        IF n = 0 THEN FALSE
        ELSE \/ failed[n - 1]
             \/ Ordering[n] \in checks /\ Result(Ordering[n]) = "failure"
  IN  failed[Len(Ordering)]

\* The checks whose line is written: a call of the callback may fail, which is only
\* logged.  Bound: one of them.
Written == {Made} \cup {Made \ {c} : c \in Made}

\* Mutant of ReportAnalyserJSON: a call that fails goes on to the next result before
\* its own is looked at.
ReportAnalyserJSONWritten ==
  /\ verify.at = "verify" /\ verify.json
  /\ \E lines \in Written :
       verify' = [verify EXCEPT !.at = "over", !.lines = lines,
                                !.exit = IF anyHasFailed(lines) THEN "InvalidEnv" ELSE "0"]

\* reportAnalyserJSON
ReportAnalyserJSON ==
  /\ verify.at = "verify" /\ verify.json
  /\ \E lines \in Written :
       verify' = [verify EXCEPT !.at = "over", !.lines = lines,
                                !.exit = IF anyHasFailed(Made) THEN "InvalidEnv" ELSE "0"]

VerifyNext == FetchVersions \/ TryNav \/ TriesDone \/ StatusRead \/ ReportPlain
              \/ ReportAnalyserJSON
-----------------------------------------------------------------------------
\* The two formats end alike: the loop that writes one line for each result, sorted and
\* with calls that may fail, comes to the exit code that gathering the failures comes to
\* for the same results, also where the line of the only failure is not written
\* (verify.go:121-144, 154-185).
FormatsAgree ==
  verify.at = "over" /\ verify.exit # "panic" /\ verify.json => verify.exit = PlainExit

\* The antenna and the fix are judged by one reading, the last one, which was complete:
\* an antenna found earlier is not combined with the fix of an attempt that failed
\* (verify.go:77-97).
AntennaFromOneReading ==
  verify.at \in {"verify", "over"} /\ verify.exit # "panic" /\ verify.clock = "GM" =>
    /\ verify.antCheck = verify.gpsDetails /\ verify.gpsDetails = Len(verify.navs)
    /\ Last(verify.navs) # Failed
=======================================================================================
