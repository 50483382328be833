---------------------------------- MODULE ToolsProofs ----------------------------------
(***************************************************************************)
(* Theorems about the sequential parts, as MCTools composes them: the      *)
(* verification of an environment, for any number of attempts and of       *)
(* deviations; the readings of the DPLL collector, for any number of       *)
(* Starts; the selection of collectors, for any number of names; and the   *)
(* detection of interfaces, for any number of them and of files.           *)
(***************************************************************************)
EXTENDS MCTools, Induction

Verdicts == {"good", "bad", "odd"}

VerifyType ==
  [at : {"off", "fetch", "status", "statusRead", "verify", "over"},
   clock : {"", "GM", "BC"}, json : BOOLEAN, env : [Checks -> Verdicts],
   navs : Seq(Navs), antCheck : Nat, gpsDetails : Nat,
   exit : {"", "panic", "InvalidEnv", "0"}, says : {"", "not complete", "no issues"},
   lines : SUBSET Checks]

\* The attempts made: the last one is the one that gpsDetails is of, and antCheck too
\* unless it failed.
Attempts ==
  /\ verify.gpsDetails = Len(verify.navs)
  /\ Len(verify.navs) > 0 /\ Last(verify.navs) # Failed
       => verify.antCheck = Len(verify.navs)

VerifyInv ==
  /\ verify \in VerifyType
  /\ {"antenna", "navStatus"} \subseteq Checks
  /\ verify.env["antenna"] = "good" /\ verify.env["navStatus"] = "good"
  /\ verify.at # "over" => verify.exit = ""
  /\ verify.at \in {"off", "fetch"} => verify.navs = <<>> /\ verify.gpsDetails = 0
  /\ verify.at \in {"status", "statusRead"} => Attempts
  /\ verify.at = "statusRead" => Len(verify.navs) > 0
  /\ AntennaFromOneReading
  /\ FormatsAgree
-----------------------------------------------------------------------------
(***************************************************************************)
(* The checks                                                              *)
(***************************************************************************)
CheckNames ==
  {"device", "firmware", "driver", "gnssVersion", "gpsd", "gnssDevices", "module",
   "protocol", "antenna", "navStatus", "grandMaster", "operator", "cluster"}

\* The checks that are made of either clock type are among those of a grand master,
\* which the antenna and the fix belong to.
LEMMA ApplicableChecks ==
  /\ \A clock \in {"GM", "BC"} : ToSet(Applicable(clock)) \subseteq Checks
  /\ {"antenna", "navStatus"} \subseteq Checks
  /\ \A c \in ToSet(Applicable("BC")) : c \notin {"antenna", "navStatus"}
  /\ Checks \subseteq CheckNames
  <1> DEFINE G == VersionChecks \o StatusChecks \o <<"grandMaster">>
  <1>1. /\ DeviceChecks \in Seq(CheckNames) /\ VersionChecks \in Seq(CheckNames)
        /\ StatusChecks \in Seq(CheckNames) /\ CommonChecks \in Seq(CheckNames)
        /\ <<"grandMaster">> \in Seq(CheckNames) /\ <<>> \in Seq(CheckNames)
    <2>1. DeviceChecks \in Seq(CheckNames)
      BY DEF DeviceChecks, CheckNames
    <2>2. VersionChecks \in Seq(CheckNames)
      BY DEF VersionChecks, CheckNames
    <2>3. StatusChecks \in Seq(CheckNames)
      BY DEF StatusChecks, CheckNames
    <2>4. CommonChecks \in Seq(CheckNames)
      BY DEF CommonChecks, CheckNames
    <2>5. <<"grandMaster">> \in Seq(CheckNames)
      BY DEF CheckNames
    <2>6. <<>> \in Seq(CheckNames)
      BY EmptySeq
    <2> QED
      BY <2>1, <2>2, <2>3, <2>4, <2>5, <2>6
  <1>2. /\ ToSet(DeviceChecks) = {"device", "firmware", "driver"}
        /\ ToSet(StatusChecks) = {"antenna", "navStatus"}
        /\ ToSet(CommonChecks) = {"operator", "cluster"}
        /\ ToSet(<<>>) = {}
    BY DEF ToSet, DeviceChecks, StatusChecks, CommonChecks
  <1>3. VersionChecks \o StatusChecks \in Seq(CheckNames) /\ G \in Seq(CheckNames)
    BY <1>1, ConcatProperties
  <1>4. ToSet(StatusChecks) \subseteq ToSet(G)
    <2>1. ToSet(G) = ToSet(VersionChecks \o StatusChecks) \cup ToSet(<<"grandMaster">>)
      BY <1>1, <1>3, ToSetConcat, ZenonT(30)
    <2>2. ToSet(VersionChecks \o StatusChecks) = ToSet(VersionChecks) \cup ToSet(StatusChecks)
      BY <1>1, ToSetConcat
    <2> QED
      BY <2>1, <2>2
  <1> HIDE DEF G
  <1>5. ASSUME NEW s \in Seq(CheckNames)
        PROVE  ToSet(DeviceChecks \o s \o CommonChecks)
                 = ToSet(DeviceChecks) \cup ToSet(s) \cup ToSet(CommonChecks)
    <2> DEFINE d == DeviceChecks \o s
    <2>1. d \in Seq(CheckNames) /\ ToSet(d) = ToSet(DeviceChecks) \cup ToSet(s)
      BY <1>1, ConcatProperties, ToSetConcat
    <2> HIDE DEF d
    <2>2. ToSet(d \o CommonChecks) = ToSet(d) \cup ToSet(CommonChecks)
      BY <1>1, <2>1, ToSetConcat
    <2> QED
      BY <2>1, <2>2 DEF d
  <1>6. ToSet(Applicable("GM")) = ToSet(DeviceChecks) \cup ToSet(G) \cup ToSet(CommonChecks)
    <2>1. Applicable("GM") = DeviceChecks \o G \o CommonChecks
      BY DEF Applicable, G
    <2> QED
      BY <1>3, <1>5, <2>1
  <1>7. ToSet(Applicable("BC")) = ToSet(DeviceChecks) \cup {} \cup ToSet(CommonChecks)
    <2>1. Applicable("BC") = DeviceChecks \o <<>> \o CommonChecks
      BY DEF Applicable
    <2> QED
      BY <1>1, <1>2, <1>5, <2>1
  <1>8. ToSet(Applicable("GM")) \subseteq CheckNames
    <2>1. \A s \in Seq(CheckNames) : ToSet(s) \subseteq CheckNames
      BY LenProperties, ElementOfSeq DEF ToSet
    <2> QED
      BY <1>1, <1>3, <1>6, <2>1
  <1> QED
    BY <1>2, <1>4, <1>6, <1>7, <1>8 DEF Checks
-----------------------------------------------------------------------------
(***************************************************************************)
(* The verification of an environment                                      *)
(***************************************************************************)
\* An environment has a verdict for each check, and none of its own for the receiver.
LEMMA EnvironmentTypes ==
  ASSUME NEW env \in Environments
  PROVE  /\ env \in [Checks -> Verdicts]
         /\ env["antenna"] = "good" /\ env["navStatus"] = "good"
  <1>1. \A c \in Checks : env[c] \in MayBe(c)
    BY DEF Environments
  <1>2. env \in [Checks -> Verdicts]
    <2>1. env \in UNION {[Checks -> {"good"}],
                         {[[c \in Checks |-> "good"] EXCEPT ![c1] = k1, ![c2] = k2] :
                            c1, c2 \in Checks, k1, k2 \in {"bad", "odd"}}}
      BY DEF Environments
    <2> QED
      BY <2>1 DEF Verdicts
  <1>3. MayBe("antenna") = {"good"} /\ MayBe("navStatus") = {"good"}
    <2>1. {"antenna", "navStatus"} \subseteq ToSet(StatusChecks)
      BY DEF ToSet, StatusChecks
    <2> QED
      BY <2>1 DEF MayBe
  <1> QED
    BY <1>1, <1>2, <1>3, ApplicableChecks

LEMMA VerifyInitInv == VerifyInit => VerifyInv
  <1> SUFFICES ASSUME VerifyInit PROVE VerifyInv
    OBVIOUS
  <1>1. /\ verify.at = "off" /\ verify.exit = "" /\ verify.navs = <<>>
        /\ verify.gpsDetails = 0 /\ verify.env = [c \in Checks |-> "good"]
    BY DEF VerifyInit
  <1>2. verify \in VerifyType
    <2>1. <<>> \in Seq(Navs) /\ [c \in Checks |-> "good"] \in [Checks -> Verdicts]
      BY EmptySeq DEF Verdicts
    <2> QED
      BY <2>1 DEF VerifyInit, VerifyType
  <1>3. AntennaFromOneReading /\ FormatsAgree
    BY <1>1 DEF AntennaFromOneReading, FormatsAgree
  <1> QED
    BY <1>1, <1>2, <1>3, ApplicableChecks DEF VerifyInv

LEMMA VerifyBeginInv == VerifyInv /\ VerifyBegin => VerifyInv'
  <1> SUFFICES ASSUME VerifyInv, VerifyBegin PROVE VerifyInv'
    OBVIOUS
  <1>1. PICK clock \in {"GM", "BC"}, json \in BOOLEAN, env \in Environments :
          verify' = [verify EXCEPT !.at = "fetch", !.clock = clock, !.json = json, !.env = env]
    BY DEF VerifyBegin
  <1>2. verify.at = "off" /\ verify \in VerifyType
    BY DEF VerifyBegin, VerifyInv
  <1>3. env \in [Checks -> Verdicts] /\ env["antenna"] = "good" /\ env["navStatus"] = "good"
    BY EnvironmentTypes
  <1>4. /\ verify' \in VerifyType /\ verify'.at = "fetch" /\ verify'.env = env
        /\ verify'.exit = verify.exit /\ verify'.navs = verify.navs
        /\ verify'.gpsDetails = verify.gpsDetails
    BY <1>1, <1>2, <1>3 DEF VerifyType
  <1>5. AntennaFromOneReading' /\ FormatsAgree'
    BY <1>4 DEF AntennaFromOneReading, FormatsAgree
  <1> QED
    BY <1>2, <1>3, <1>4, <1>5 DEF VerifyInv

\* The end of the command in a panic says nothing.
LEMMA PanicInv == VerifyInv /\ Panic => VerifyInv'
  <1> SUFFICES ASSUME VerifyInv, Panic PROVE VerifyInv'
    OBVIOUS
  <1>1. /\ verify' \in VerifyType /\ verify'.at = "over" /\ verify'.exit = "panic"
        /\ verify'.env = verify.env
    BY DEF Panic, VerifyInv, VerifyType
  <1> QED
    BY <1>1 DEF VerifyInv, AntennaFromOneReading, FormatsAgree

LEMMA FetchVersionsInv == VerifyInv /\ FetchVersions => VerifyInv'
  <1> SUFFICES ASSUME VerifyInv, FetchVersions, ~Panic PROVE VerifyInv'
    BY PanicInv
  <1> DEFINE at == IF verify.clock = "GM" THEN "status" ELSE "verify"
  <1>1. verify.at = "fetch" /\ verify' = [verify EXCEPT !.at = at]
    BY DEF FetchVersions
  <1>2. at \in {"status", "verify"} /\ (verify.clock = "GM" => at = "status")
    OBVIOUS
  <1> HIDE DEF at
  <1>3. /\ verify' \in VerifyType /\ verify'.at = at /\ verify'.exit = ""
        /\ verify'.env = verify.env /\ verify'.navs = <<>> /\ verify'.gpsDetails = 0
        /\ verify'.clock = verify.clock
    BY <1>1, <1>2 DEF VerifyInv, VerifyType
  <1>4. Attempts'
    <2>1. Len(verify'.navs) = 0
      BY <1>3, EmptySeq
    <2>2. ~(Len(verify'.navs) > 0)
      BY <2>1
    <2> QED
      BY <1>3, <2>1, <2>2 DEF Attempts
  <1>5. AntennaFromOneReading' /\ FormatsAgree'
    BY <1>2, <1>3 DEF AntennaFromOneReading, FormatsAgree
  <1> QED
    BY <1>2, <1>3, <1>4, <1>5 DEF VerifyInv

LEMMA TryNavInv == VerifyInv /\ TryNav => VerifyInv'
  <1> SUFFICES ASSUME VerifyInv, TryNav PROVE VerifyInv'
    OBVIOUS
  <1>1. PICK nav \in Navs :
          verify' = [verify EXCEPT
            !.navs = Append(@, nav), !.gpsDetails = Attempt,
            !.antCheck = IF nav = Failed THEN @ ELSE Attempt,
            !.at = IF nav # Failed /\ AntennaConnected(nav) THEN "statusRead" ELSE "status"]
    BY DEF TryNav
  <1>2. verify \in VerifyType /\ verify.navs \in Seq(Navs) /\ verify.exit = ""
    BY DEF TryNav, VerifyInv, VerifyType
  <1> DEFINE navs == Append(verify.navs, nav)
             ant  == IF nav = Failed THEN verify.antCheck ELSE Attempt
             at   == IF nav # Failed /\ AntennaConnected(nav) THEN "statusRead" ELSE "status"
  <1>3. /\ navs \in Seq(Navs) /\ Len(navs) = Attempt /\ navs[Attempt] = nav
        /\ Attempt \in Nat /\ Attempt > 0
    <2>1. Len(verify.navs) \in Nat
      BY <1>2, LenProperties
    <2>2. navs \in Seq(Navs) /\ Len(navs) = Len(verify.navs) + 1
          /\ navs[Len(verify.navs) + 1] = nav
      <3>1. verify.navs \in Seq(Navs)
        BY <1>2
      <3> QED
        BY <3>1, AppendProperties
    <2> QED
      BY <2>1, <2>2 DEF Attempt
  <1>4. Last(navs) = nav
    BY <1>3 DEF Last
  <1>5. ant \in Nat /\ (nav # Failed => ant = Attempt) /\ at \in {"status", "statusRead"}
    BY <1>2, <1>3 DEF VerifyType
  <1>6. verify' = [verify EXCEPT !.navs = navs, !.gpsDetails = Attempt, !.antCheck = ant,
                                 !.at = at]
    BY <1>1
  <1> HIDE DEF navs, ant, at
  <1>7. /\ verify' \in VerifyType /\ verify'.at = at /\ verify'.exit = ""
        /\ verify'.env = verify.env /\ verify'.navs = navs /\ verify'.gpsDetails = Attempt
        /\ verify'.antCheck = ant
    BY <1>2, <1>3, <1>5, <1>6 DEF VerifyType
  <1>8. Attempts' /\ Len(verify'.navs) > 0
    BY <1>3, <1>4, <1>5, <1>7 DEF Attempts
  <1>9. AntennaFromOneReading' /\ FormatsAgree'
    BY <1>5, <1>7 DEF AntennaFromOneReading, FormatsAgree
  <1> QED
    BY <1>5, <1>7, <1>8, <1>9 DEF VerifyInv

LEMMA TriesDoneInv == VerifyInv /\ TriesDone => VerifyInv'
  <1> SUFFICES ASSUME VerifyInv, TriesDone PROVE VerifyInv'
    OBVIOUS
  <1>1. /\ verify' \in VerifyType /\ verify'.at = "statusRead" /\ verify'.exit = ""
        /\ verify'.env = verify.env /\ verify'.navs = verify.navs
        /\ verify'.gpsDetails = verify.gpsDetails /\ verify'.antCheck = verify.antCheck
    BY DEF TriesDone, VerifyInv, VerifyType
  <1>2. Len(verify.navs) > 0
    <2>1. verify.navs \in Seq(Navs)
      BY DEF VerifyInv, VerifyType
    <2>2. Len(verify.navs) \in Nat /\ antPowerRetries \in Nat \ {0}
          /\ Len(verify.navs) + 1 > antPowerRetries
      BY <2>1, LenProperties, RetriesAssumption DEF TriesDone, Attempt
    <2> QED
      BY <2>2
  <1>3. Attempts'
    BY <1>1 DEF TriesDone, VerifyInv, Attempts
  <1>4. AntennaFromOneReading' /\ FormatsAgree'
    BY <1>1 DEF AntennaFromOneReading, FormatsAgree
  <1> QED
    BY <1>1, <1>2, <1>3, <1>4 DEF VerifyInv

LEMMA StatusReadInv == VerifyInv /\ StatusRead => VerifyInv'
  <1> SUFFICES ASSUME VerifyInv, StatusRead, Last(verify.navs) # Failed PROVE VerifyInv'
    BY PanicInv DEF StatusRead
  <1>1. verify.at = "statusRead" /\ verify' = [verify EXCEPT !.at = "verify"]
    BY DEF StatusRead
  <1>2. /\ verify' \in VerifyType /\ verify'.at = "verify" /\ verify'.exit = ""
        /\ verify'.env = verify.env /\ verify'.navs = verify.navs
        /\ verify'.gpsDetails = verify.gpsDetails /\ verify'.antCheck = verify.antCheck
    BY <1>1 DEF VerifyInv, VerifyType
  <1>3. AntennaFromOneReading'
    BY <1>1, <1>2 DEF VerifyInv, Attempts, AntennaFromOneReading
  <1>4. FormatsAgree'
    BY <1>2 DEF FormatsAgree
  <1> QED
    BY <1>2, <1>3, <1>4 DEF VerifyInv

\* The checks that are made are among those the loop of the other format goes through.
LEMMA MadeIs ==
  ASSUME VerifyInv
  PROVE  Made \subseteq Checks /\ \A c \in Made : \E n \in 1 .. Len(Ordering) : Ordering[n] = c
  <1>1. Made \subseteq Checks
    <2>1. CASE verify.clock = "GM"
      BY <2>1, ApplicableChecks DEF Made
    <2>2. CASE verify.clock # "GM"
      <3>1. Applicable(verify.clock) = Applicable("BC")
        BY <2>2 DEF Applicable
      <3> QED
        BY <3>1, ApplicableChecks DEF Made
    <2> QED
      BY <2>1, <2>2
  <1>2. \A c \in CheckNames : \E n \in 1 .. Len(Ordering) : Ordering[n] = c
    <2>1. Len(Ordering) = 13
      BY DEF Ordering
    <2>2. /\ Ordering[1] = "cluster" /\ Ordering[2] = "operator" /\ Ordering[3] = "gpsd"
          /\ Ordering[4] = "device" /\ Ordering[5] = "driver" /\ Ordering[6] = "firmware"
          /\ Ordering[7] = "module" /\ Ordering[8] = "gnssVersion"
          /\ Ordering[9] = "protocol" /\ Ordering[10] = "gnssDevices"
          /\ Ordering[11] = "antenna" /\ Ordering[12] = "navStatus"
          /\ Ordering[13] = "grandMaster"
      BY DEF Ordering
    <2>3. {1, 2, 3, 4, 5, 6, 7, 8, 9, 10, 11, 12, 13} \subseteq 1 .. 13
      OBVIOUS
    <2> QED
      BY <2>1, <2>2, <2>3 DEF CheckNames
  <1> QED
    BY <1>1, <1>2, ApplicableChecks

\* After the loop over the results anyHasFailed is TRUE exactly if one of them is a failure.
LEMMA AnyHasFailedIs ==
  ASSUME NEW checks
  PROVE  anyHasFailed(checks) <=>
           \E n \in 1 .. Len(Ordering) : Ordering[n] \in checks /\ Result(Ordering[n]) = "failure"
  <1> DEFINE n == Len(Ordering)
             bad(i) == Ordering[i] \in checks /\ Result(Ordering[i]) = "failure"
             isFailed(f) == f = [k \in 0 .. n |-> IF k = 0 THEN FALSE ELSE f[k - 1] \/ bad(k)]
             failed == CHOOSE f : isFailed(f)
             some(k) == \E i \in 1 .. k : bad(i)
             g == [k \in 0 .. n |-> some(k)]
  <1>1. n \in Nat
    BY DEF Ordering
  <1> HIDE DEF n, bad
  <1>2. some(0) = FALSE /\ \A k \in 1 .. n : k - 1 \in 0 .. n /\ some(k) = (some(k - 1) \/ bad(k))
    <2>1. \A k \in 1 .. n : k - 1 \in 0 .. n
      BY <1>1
    <2>2. \A k \in 1 .. n : k \in 1 .. k /\ \A i : i \in 1 .. k <=> i \in 1 .. k - 1 \/ i = k
      BY <1>1
    <2>3. 1 .. 0 = {}
      OBVIOUS
    <2> QED
      BY <2>1, <2>2, <2>3
  <1> HIDE DEF some
  <1>3. \A k \in 0 .. n : k = 0 \/ k \in 1 .. n
    BY <1>1
  <1>4. isFailed(g)
    <2>1. \A k \in 0 .. n : g[k] = IF k = 0 THEN FALSE ELSE g[k - 1] \/ bad(k)
      BY <1>2, <1>3
    <2> QED
      BY <2>1
  <1>5. isFailed(failed)
    <2> HIDE DEF isFailed
    <2> QED
      BY <1>4
  <1>6. /\ failed[0] = FALSE
        /\ \A k \in 1 .. n : failed[k] = (failed[k - 1] \/ bad(k))
    <2> HIDE DEF failed
    <2>1. 0 \in 0 .. n /\ \A k \in 1 .. n : k \in 0 .. n /\ k # 0
      BY <1>1
    <2> QED
      BY <1>5, <2>1
  <1>7. anyHasFailed(checks) = failed[n]
    BY DEF anyHasFailed, n, bad
  <1> HIDE DEF failed, isFailed
  <1> DEFINE S == {k \in 0 .. n : failed[k] = some(k)}
  <1>8. 0 \in S
    <2>1. 0 \in 0 .. n
      BY <1>1
    <2>2. failed[0] = some(0)
      BY <1>2, <1>6
    <2> HIDE DEF some
    <2> QED
      BY <2>1, <2>2
  <1>9. ASSUME NEW k \in 1 .. n, k - 1 \in S PROVE k \in S
    BY <1>1, <1>2, <1>6, <1>9
  <1>10. n \in S
    <2>1. n \in 0 .. n
      BY <1>1
    <2> HIDE DEF S
    <2> QED
      BY <1>1, <1>8, <1>9, <2>1, IntervalInductionSet
  <1> QED
    BY <1>7, <1>10 DEF some, bad, n

LEMMA ReportPlainInv == VerifyInv /\ ReportPlain => VerifyInv'
  <1> SUFFICES ASSUME VerifyInv, ReportPlain PROVE VerifyInv'
    OBVIOUS
  <1> DEFINE says == IF Gathered("failure") # {} THEN ""
                     ELSE IF Gathered("unknown") # {} THEN "not complete" ELSE "no issues"
             exit == PlainExit
  <1>1. /\ verify.at = "verify" /\ ~verify.json /\ verify \in VerifyType
        /\ verify' = [verify EXCEPT !.at = "over", !.exit = exit, !.says = says]
    BY DEF ReportPlain, VerifyInv
  <1>2. exit \in {"InvalidEnv", "0"} /\ says \in {"", "not complete", "no issues"}
    BY DEF PlainExit
  <1> HIDE DEF exit, says
  <1>3. /\ verify' \in VerifyType /\ verify'.at = "over" /\ verify'.exit = exit
        /\ verify'.json = verify.json /\ verify'.env = verify.env
        /\ verify'.navs = verify.navs /\ verify'.gpsDetails = verify.gpsDetails
        /\ verify'.antCheck = verify.antCheck /\ verify'.clock = verify.clock
    BY <1>1, <1>2 DEF VerifyType
  <1>4. AntennaFromOneReading'
    BY <1>1, <1>3 DEF VerifyInv, AntennaFromOneReading
  <1>5. FormatsAgree'
    BY <1>1, <1>3 DEF FormatsAgree
  <1> QED
    BY <1>3, <1>4, <1>5 DEF VerifyInv

LEMMA ReportAnalyserJSONInv == VerifyInv /\ ReportAnalyserJSON => VerifyInv'
  <1> SUFFICES ASSUME VerifyInv, ReportAnalyserJSON PROVE VerifyInv'
    OBVIOUS
  <1> DEFINE exit == IF anyHasFailed(Made) THEN "InvalidEnv" ELSE "0"
  <1>1. PICK lines \in Written :
          /\ verify.at = "verify" /\ verify.json /\ verify \in VerifyType
          /\ verify' = [verify EXCEPT !.at = "over", !.lines = lines, !.exit = exit]
    BY DEF ReportAnalyserJSON, VerifyInv
  <1>2. exit \in {"InvalidEnv", "0"} /\ lines \in SUBSET Checks
    BY MadeIs DEF Written
  <1>3. exit = PlainExit
    <2>1. anyHasFailed(Made) <=> \E c \in Made : Result(c) = "failure"
      BY AnyHasFailedIs, MadeIs
    <2> QED
      BY <2>1 DEF PlainExit, Gathered
  <1> HIDE DEF exit
  <1>4. /\ verify' \in VerifyType /\ verify'.at = "over" /\ verify'.exit = exit
        /\ verify'.json = verify.json /\ verify'.env = verify.env
        /\ verify'.navs = verify.navs /\ verify'.gpsDetails = verify.gpsDetails
        /\ verify'.antCheck = verify.antCheck /\ verify'.clock = verify.clock
    BY <1>1, <1>2 DEF VerifyType
  <1>5. AntennaFromOneReading'
    BY <1>1, <1>4 DEF VerifyInv, AntennaFromOneReading
  <1>6. FormatsAgree'
    <2>1. PlainExit' = PlainExit
      BY <1>4 DEF PlainExit, Gathered, Made, Result
    <2> QED
      BY <1>3, <1>4, <2>1 DEF FormatsAgree
  <1> QED
    BY <1>4, <1>5, <1>6 DEF VerifyInv

LEMMA VerifyStepInv == VerifyInv /\ [Next]_toolVars => VerifyInv'
  <1> SUFFICES ASSUME VerifyInv, [Next]_toolVars PROVE VerifyInv'
    OBVIOUS
  <1>1. CASE VerifyBegin
    BY <1>1, VerifyBeginInv
  <1>2. CASE VerifyNext
    BY <1>2, FetchVersionsInv, TryNavInv, TriesDoneInv, StatusReadInv,
        ReportPlainInv, ReportAnalyserJSONInv DEF VerifyNext
  <1>3. CASE UNCHANGED verify
    <2>1. /\ AntennaFromOneReading' <=> AntennaFromOneReading
          /\ FormatsAgree' <=> FormatsAgree
          /\ Attempts' <=> Attempts
      BY <1>3 DEF AntennaFromOneReading, FormatsAgree, PlainExit, Gathered, Made, Result,
                   Attempts
    <2> QED
      BY <1>3, <2>1 DEF VerifyInv
  <1> QED
    BY <1>1, <1>2, <1>3 DEF Next, toolVars

LEMMA VerifyInvariance == Spec => []VerifyInv
  <1>1. Init => VerifyInv
    BY VerifyInitInv DEF Init
  <1> QED
    BY <1>1, VerifyStepInv, PTL DEF Spec

\* However many attempts are made at the receiver, and whatever becomes of each, the
\* antenna and the fix are judged by the last one, which was complete
\* (getGPSStatusValidation).
THEOREM JudgedByOneReading == Spec => []AntennaFromOneReading
  BY VerifyInvariance, PTL DEF VerifyInv

\* Whatever the results of the checks are, in any number of them, and whichever line cannot
\* be written: both formats end with the same exit code (report, reportAnalyserJSON).
THEOREM ReportsAlike == Spec => []FormatsAgree
  BY VerifyInvariance, PTL DEF VerifyInv
-----------------------------------------------------------------------------
(***************************************************************************)
(* The readings of the DPLL collector                                      *)
(***************************************************************************)
\* The label that is kept is that of the pin the cached fetcher reads.
DPLLInv ==
  /\ dpll = [at |-> dpll.at, starts |-> dpll.starts, found |-> dpll.found,
             params |-> dpll.params, fetcher |-> dpll.fetcher, reading |-> dpll.reading]
  /\ dpll.reading = [label |-> dpll.reading.label, state |-> dpll.reading.state,
                     fields |-> dpll.reading.fields]
  /\ dpll.at \in {"off", "choose", "filesystem"} => dpll.reading.label = ""
  /\ dpll.at = "build" => dpll.found.pin \in {1, 2} /\ dpll.found.label = Label[dpll.found.pin]
  /\ dpll.at = "started" => dpll.fetcher \in {1, 2} /\ dpll.params.label = Label[dpll.fetcher]
  /\ ReadingIsOfThePin

\* The states of the clock are taken from the entries of all clocks.
LEMMA OwnStates ==
  /\ DOMAIN StatesOf(Entries) = Parents
  /\ \A t \in Parents : StatesOf(Entries)[t] = board.state[OwnClock]
  <1>1. ASSUME NEW t \in Parents
        PROVE  (CHOOSE e \in Entries : e.type = t /\ e.clock = OwnClock).state
                 = board.state[OwnClock]
    <2> DEFINE own == [clock |-> OwnClock, type |-> t, state |-> board.state[OwnClock]]
    <2>1. own \in Entries /\ own.type = t /\ own.clock = OwnClock
      BY DEF Entries, Clocks, OwnClock
    <2>2. \A e \in Entries : e.state = board.state[e.clock]
      BY DEF Entries
    <2> HIDE DEF own
    <2>3. \E e \in Entries : e.type = t /\ e.clock = OwnClock
      BY <2>1
    <2> QED
      BY <2>2, <2>3
  <1> QED
    BY <1>1 DEF StatesOf

\* What a fetch that has not failed publishes.
LEMMA Published ==
  ASSUME NEW device \in {Nothing, Bad, Entries}, NEW offset
  PROVE  LET out    == [date |-> "date", device |-> device, offset |-> offset]
             result == ExtractResult(DOMAIN out, out)
             fields == Fetch(result, postProcessNetlink(result),
                             {"date", "eec", "pps", "pps_offset", "eec_offset"})
         IN fields # Failed =>
              /\ \A t \in Parents : fields[t] \in {board.state[OwnClock], Zero}
              /\ fields["pps_offset"] # Zero => offset # Bad /\ fields["pps_offset"] = offset
  <1> DEFINE out       == [date |-> "date", device |-> device, offset |-> offset]
             result    == ExtractResult(DOMAIN out, out)
             processed == postProcessNetlink(result)
             names     == {"date", "eec", "pps", "pps_offset", "eec_offset"}
             fields    == Fetch(result, processed, names)
  <1> SUFFICES ASSUME fields # Failed
               PROVE  /\ \A t \in Parents : fields[t] \in {board.state[OwnClock], Zero}
                      /\ fields["pps_offset"] # Zero
                           => offset # Bad /\ fields["pps_offset"] = offset
    OBVIOUS
  <1>1. result # Failed /\ fields = unmarshal(names, Over(processed, result))
    BY DEF Fetch
  <1>2. /\ DOMAIN out = {"date", "device", "offset"}
        /\ out["device"] = device /\ out["offset"] = offset
    OBVIOUS
  <1>3. result = [k \in DOMAIN out |-> out[k]]
    BY <1>1 DEF ExtractResult
  <1>4. /\ DOMAIN result = {"date", "device", "offset"}
        /\ result.device = device /\ result.offset = offset
    BY <1>2, <1>3
  <1>4a. device # Nothing
    BY <1>1, <1>2 DEF ExtractResult
  <1> DEFINE states  == IF device = Bad THEN <<>> ELSE StatesOf(device)
             offsets == IF offset = Bad THEN <<>>
                        ELSE [ecc_offset |-> offset, pps_offset |-> offset]
  <1>5. processed = Over(states, offsets)
    <2> HIDE DEF result
    <2> QED
      BY <1>4 DEF postProcessNetlink
  <1>6. /\ DOMAIN states \in {{}, Parents}
        /\ \A t \in DOMAIN states : states[t] = board.state[OwnClock]
    BY <1>4a, OwnStates
  <1>7. /\ DOMAIN offsets \in {{}, {"ecc_offset", "pps_offset"}}
        /\ "pps_offset" \in DOMAIN offsets
             => offset # Bad /\ offsets["pps_offset"] = offset
    BY DEF offsets
  <1> DEFINE merged == Over(processed, result)
  <1> HIDE DEF states, offsets, result, processed
  <1>8. /\ DOMAIN merged = DOMAIN states \cup DOMAIN offsets \cup DOMAIN result
        /\ \A f \in DOMAIN merged :
             merged[f] = IF f \in DOMAIN states THEN states[f]
                         ELSE IF f \in DOMAIN offsets THEN offsets[f] ELSE result[f]
    BY <1>5 DEF Over
  <1> HIDE DEF merged
  <1>9. ASSUME NEW t \in Parents PROVE fields[t] \in {board.state[OwnClock], Zero}
    <2>1. t \in names /\ t \notin DOMAIN offsets /\ t \notin DOMAIN result
      BY <1>4, <1>7 DEF Parents
    <2>2. fields[t] = IF t \in DOMAIN merged THEN merged[t] ELSE Zero
      BY <1>1, <2>1 DEF unmarshal, merged
    <2> QED
      BY <1>6, <1>8, <2>1, <2>2
  <1>10. fields["pps_offset"] # Zero => offset # Bad /\ fields["pps_offset"] = offset
    <2>1. fields["pps_offset"] = IF "pps_offset" \in DOMAIN merged
                                 THEN merged["pps_offset"] ELSE Zero
      BY <1>1 DEF unmarshal, merged
    <2>2. "pps_offset" \notin DOMAIN states /\ "pps_offset" \notin DOMAIN result
      BY <1>4, <1>6 DEF Parents
    <2> QED
      BY <1>7, <1>8, <2>1, <2>2
  <1> QED
    BY <1>9, <1>10

\* A Start or a poll keeps the label and the fetcher together.
LEMMA DPLLStepInv == DPLLInv /\ [Next]_toolVars => DPLLInv'
  <1> SUFFICES ASSUME DPLLInv, [Next]_toolVars
               PROVE  DPLLInv'
    OBVIOUS
  <1>1. CASE UNCHANGED dpll
    BY <1>1 DEF DPLLInv, ReadingIsOfThePin
  <1>2. CASE DPLLBegin
    BY <1>2 DEF DPLLInv, ReadingIsOfThePin, DPLLBegin, Become
  <1>3. CASE Choose
    <2>1. PICK at \in {"filesystem", "start", "failed"} : dpll' = [dpll EXCEPT !.at = at]
      BY <1>3 DEF Choose, Become
    <2>2. dpll.reading.label = ""
      BY <1>3 DEF Choose, DPLLInv
    <2> QED
      BY <2>1, <2>2 DEF DPLLInv, ReadingIsOfThePin
  <1>4. CASE PollFilesystem
    <2>1. PICK fields : dpll' = [dpll EXCEPT !.reading.fields = fields]
      BY <1>4 DEF PollFilesystem
    <2>2. dpll.at = "filesystem" /\ dpll.reading.label = ""
      BY <1>4 DEF PollFilesystem, DPLLInv
    <2> QED
      BY <2>1, <2>2 DEF DPLLInv, ReadingIsOfThePin
  <1>5. CASE GetParameters
    <2>1. CASE Become("failed")
      BY <1>5, <2>1 DEF DPLLInv, ReadingIsOfThePin, Become
    <2>2. CASE /\ selectPin # 0
               /\ dpll' = [dpll EXCEPT !.at = "build", !.starts = @ + 1,
                             !.found = [pin |-> selectPin, label |-> Label[selectPin]]]
      <3>1. selectPin \in {1, 2}
        BY <2>2 DEF selectPin
      <3> QED
        BY <2>2, <3>1 DEF DPLLInv, ReadingIsOfThePin
    <2> QED
      BY <1>5, <2>1, <2>2 DEF GetParameters
  <1>6. CASE BuildFetcher
    BY <1>6 DEF DPLLInv, ReadingIsOfThePin, BuildFetcher
  <1>7. CASE StartAgain
    BY <1>7 DEF DPLLInv, ReadingIsOfThePin, StartAgain, Become
  <1>8. CASE PollNetlink
    <2> DEFINE out(device, offset) == [date |-> "date", device |-> device, offset |-> offset]
               result(device, offset) == ExtractResult(DOMAIN out(device, offset),
                                                       out(device, offset))
               read(device, offset) ==
                 Fetch(result(device, offset), postProcessNetlink(result(device, offset)),
                       {"date", "eec", "pps", "pps_offset", "eec_offset"})
    <2>1. PICK device \in {Nothing, Bad, Entries}, offset \in {Bad, dpll.fetcher} :
            dpll' = [dpll EXCEPT !.reading =
              IF read(device, offset) = Failed THEN @
              ELSE [label |-> dpll.params.label, state |-> board.state[OwnClock],
                    fields |-> read(device, offset)]]
      BY <1>8 DEF PollNetlink
    <2> DEFINE fields == read(device, offset)
    <2>2. fields # Failed =>
            /\ \A t \in Parents : fields[t] \in {board.state[OwnClock], Zero}
            /\ fields["pps_offset"] # Zero => offset # Bad /\ fields["pps_offset"] = offset
      BY Published
    <2>3. /\ dpll.at = "started" /\ dpll.fetcher \in {1, 2}
          /\ dpll.params.label = Label[dpll.fetcher]
      BY <1>8 DEF PollNetlink, DPLLInv
    <2> HIDE DEF read
    <2>4. CASE fields = Failed
      BY <2>1, <2>4 DEF DPLLInv, ReadingIsOfThePin
    <2>5. CASE fields # Failed
      <3> DEFINE reading == [label |-> dpll.params.label, state |-> board.state[OwnClock],
                             fields |-> fields]
      <3>1. dpll' = [dpll EXCEPT !.reading = reading]
        BY <2>1, <2>5
      <3>2. \A t \in Parents : reading.fields[t] \in {reading.state, Zero}
        BY <2>2, <2>5
      <3>3. reading.fields["pps_offset"] # Zero
              => /\ Label[reading.fields["pps_offset"]] = reading.label
                 /\ ClockOf[reading.fields["pps_offset"]] = OwnClock
        BY <2>2, <2>3, <2>5 DEF ClockOf, OwnClock
      <3>4. /\ reading = [label |-> reading.label, state |-> reading.state,
                          fields |-> reading.fields]
        OBVIOUS
      <3> HIDE DEF reading
      <3>5. dpll'.reading = reading
        BY <3>1 DEF DPLLInv
      <3>6. ReadingIsOfThePin'
        BY <3>2, <3>3, <3>5 DEF ReadingIsOfThePin
      <3> QED
        BY <2>3, <3>1, <3>4, <3>5, <3>6 DEF DPLLInv
    <2> QED
      BY <2>4, <2>5
  <1> QED
    BY <1>1, <1>2, <1>3, <1>4, <1>5, <1>6, <1>7, <1>8
    DEF Next, DPLLNext, BoardChanges, toolVars

\* However often the collector is started, and whatever has become of the board in
\* between, a reading is one of one pin and one clock (dpll_netlink.go:203, 262, 270).
THEOREM ReadingsAreOfThePin == Spec => []ReadingIsOfThePin
  <1>1. ASSUME Init PROVE DPLLInv
    <2>1. dpll = [at |-> "off", starts |-> 0, found |-> NoParams, params |-> NoParams,
                  fetcher |-> 0, reading |-> NoReading]
      BY <1>1 DEF Init, DPLLInit
    <2>2. dpll.at = "off" /\ dpll.reading = NoReading
      BY <2>1
    <2>3. dpll = [at |-> dpll.at, starts |-> dpll.starts, found |-> dpll.found,
                  params |-> dpll.params, fetcher |-> dpll.fetcher, reading |-> dpll.reading]
      BY <2>1
    <2>4. /\ NoReading.label = ""
          /\ NoReading = [label |-> NoReading.label, state |-> NoReading.state,
                          fields |-> NoReading.fields]
      BY DEF NoReading
    <2> QED
      BY <2>2, <2>3, <2>4 DEF DPLLInv, ReadingIsOfThePin
  <1> QED
    BY <1>1, DPLLStepInv, PTL DEF Spec, DPLLInv
-----------------------------------------------------------------------------
(***************************************************************************)
(* The selection of collectors                                             *)
(***************************************************************************)
Names == {"DevInfo", "DPLL", "GNSS", "Logs", "PMC"}

\* The optional collectors that the first k names mean, and the required one.
Meant(given, k) ==
  {"DevInfo"} \cup {o \in ToSet(Optional) : \E i \in 1 .. k : given[i] = o \/ given[i] \in Group}

LEMMA OptionalIs ==
  /\ Optional \in Seq(Names) /\ ToSet(Optional) = Names \ {"DevInfo"}
  /\ \A name : Contains(Optional, name) <=> name \in ToSet(Optional)
  <1>1. Optional \in Seq(Names) /\ Len(Optional) = 4
    BY DEF Optional, Names
  <1>2. ToSet(Optional) = Names \ {"DevInfo"}
    BY DEF Optional, Names, ToSet
  <1>3. \A name : Contains(Optional, name) <=> name \in ToSet(Optional)
    BY <1>1, LenProperties DEF ToSet, Contains
  <1> QED
    BY <1>1, <1>2, <1>3

\* A name adds the collectors it means, behind the first one.
LEMMA SelectIs ==
  ASSUME NEW names \in Seq(Names), Len(names) > 0, NEW name \in Given
  PROVE  /\ Select(names, name) \in Seq(Names) /\ Len(Select(names, name)) > 0
         /\ Select(names, name)[1] = names[1]
         /\ ToSet(Select(names, name)) =
              ToSet(names) \cup {o \in ToSet(Optional) : name = o \/ name \in Group}
  <1>1. Len(names) \in Nat /\ Len(Optional) \in Nat
    BY OptionalIs, LenProperties
  <1>2. CASE name \in Group
    <2>1. Select(names, name) = names \o Optional
      BY <1>2 DEF Select, Group
    <2>2. /\ names \o Optional \in Seq(Names) /\ Len(names \o Optional) = Len(names) + Len(Optional)
          /\ (names \o Optional)[1] = names[1]
      BY <1>1, OptionalIs, ConcatProperties
    <2>3. ToSet(names \o Optional) = ToSet(names) \cup ToSet(Optional)
      BY OptionalIs, ToSetConcat
    <2> QED
      BY <1>1, <1>2, <2>1, <2>2, <2>3
  <1>3. CASE name \notin Group /\ (Contains(names, name) \/ ~Contains(Optional, name))
    <2>1. Select(names, name) = names
      BY <1>3 DEF Select, Group
    <2>2. name \in ToSet(names) \/ name \notin ToSet(Optional)
      BY <1>3, ContainsIs, OptionalIs
    <2> QED
      BY <1>3, <2>1, <2>2
  <1>4. CASE name \notin Group /\ ~Contains(names, name) /\ Contains(Optional, name)
    <2>1. Select(names, name) = Append(names, name)
      BY <1>4 DEF Select, Group
    <2>2. name \in ToSet(Optional) /\ name \in Names
      BY <1>4, OptionalIs
    <2>3. ToSet(Append(names, name)) = ToSet(names) \cup {name}
      BY <2>2, ToSetAppend
    <2>4. /\ Append(names, name) \in Seq(Names) /\ Len(Append(names, name)) = Len(names) + 1
          /\ Append(names, name)[1] = names[1]
      BY <1>1, <2>2, AppendProperties
    <2> QED
      BY <1>1, <1>4, <2>1, <2>2, <2>3, <2>4
  <1> QED
    BY <1>2, <1>3, <1>4

\* Group names are gone through, and what they mean is selected.
LEMMA SelectedIs ==
  ASSUME NEW given \in Seq(Given)
  PROVE  /\ Selected(given) \in Seq(Names) /\ Len(Selected(given)) > 0
         /\ Selected(given)[1] = "DevInfo"
         /\ ToSet(Selected(given)) = Meant(given, Len(given))
  <1> DEFINE n == Len(given)
             A == {names \in Seq(Names) : Len(names) > 0}
             step == [p \in A \X (1 .. n) |-> Select(p[1], given[p[2]])]
             isSelected(f) == f = [k \in 0 .. n |-> IF k = 0 THEN Required
                                                    ELSE Select(f[k - 1], given[k])]
             sel == CHOOSE f : isSelected(f)
  <1>1. n \in Nat /\ \A i \in 1 .. n : given[i] \in Given
    BY LenProperties, ElementOfSeq
  <1>2. Required \in A
    BY DEF Required, Names
  <1>3. step \in [A \X (1 .. n) -> A]
    BY <1>1, SelectIs
  <1>4. PICK f \in [0 .. n -> A] :
          f[0] = Required /\ \A i \in 1 .. n : f[i] = step[<<f[i - 1], i>>]
    <2> HIDE DEF A, step, n
    <2>1. Recursion(A, Required, n, step) # {}
      BY <1>1, <1>2, <1>3, RecursionDefines
    <2> QED
      BY <2>1 DEF Recursion
  <1>5. \A i \in 1 .. n : f[i] = Select(f[i - 1], given[i])
    <2>1. ASSUME NEW i \in 1 .. n PROVE step[<<f[i - 1], i>>] = Select(f[i - 1], given[i])
      <3>1. i - 1 \in 0 .. n
        BY <1>1
      <3>2. f[i - 1] \in A
        BY <3>1
      <3> HIDE DEF A
      <3> QED
        BY <3>2
    <2> HIDE DEF step
    <2> QED
      BY <1>4, <2>1
  <1> HIDE DEF step, A, n
  <1>6. isSelected(f)
    <2>1. \A k \in 0 .. n : f[k] = IF k = 0 THEN Required ELSE Select(f[k - 1], given[k])
      <3>1. \A k \in 0 .. n : k # 0 => k \in 1 .. n
        BY <1>1
      <3> QED
        BY <1>4, <1>5, <3>1
    <2> QED
      BY <2>1
  <1>7. isSelected(sel)
    <2> HIDE DEF isSelected
    <2> QED
      BY <1>6
  <1>8. /\ sel[0] = Required
        /\ \A k \in 1 .. n : sel[k] = Select(sel[k - 1], given[k])
    <2> HIDE DEF sel
    <2>1. 0 \in 0 .. n /\ \A k \in 1 .. n : k \in 0 .. n /\ k # 0
      BY <1>1
    <2> QED
      BY <1>7, <2>1
  <1>9. Selected(given) = sel[n]
    BY DEF Selected, n
  <1> HIDE DEF sel, isSelected
  <1> DEFINE right(k) == /\ sel[k] \in Seq(Names) /\ Len(sel[k]) > 0
                         /\ sel[k][1] = "DevInfo" /\ ToSet(sel[k]) = Meant(given, k)
             S == {k \in 0 .. n : right(k)}
  <1>10. 0 \in S
    <2>1. Required \in Seq(Names) /\ Len(Required) > 0 /\ Required[1] = "DevInfo"
          /\ ToSet(Required) = {"DevInfo"}
      BY DEF Required, Names, ToSet
    <2>2. Meant(given, 0) = {"DevInfo"}
      BY DEF Meant
    <2>3. 0 \in 0 .. n
      BY <1>1
    <2> QED
      BY <1>8, <2>1, <2>2, <2>3
  <1>11. ASSUME NEW k \in 1 .. n, k - 1 \in S PROVE k \in S
    <2>1. right(k - 1) /\ k \in 0 .. n /\ given[k] \in Given
      BY <1>1, <1>11
    <2>2. sel[k] = Select(sel[k - 1], given[k])
      BY <1>8
    <2>3. /\ sel[k] \in Seq(Names) /\ Len(sel[k]) > 0 /\ sel[k][1] = "DevInfo"
          /\ ToSet(sel[k]) = Meant(given, k - 1)
               \cup {o \in ToSet(Optional) : given[k] = o \/ given[k] \in Group}
      BY <2>1, <2>2, SelectIs
    <2>4. \A i \in 1 .. k : i \in 1 .. k - 1 \/ i = k
      OBVIOUS
    <2>5. k \in 1 .. k /\ \A i \in 1 .. k - 1 : i \in 1 .. k
      OBVIOUS
    <2>6. Meant(given, k) = Meant(given, k - 1)
             \cup {o \in ToSet(Optional) : given[k] = o \/ given[k] \in Group}
      BY <2>4, <2>5 DEF Meant
    <2> QED
      BY <2>1, <2>3, <2>6
  <1>12. n \in S
    <2>1. n \in 0 .. n
      BY <1>1
    <2> HIDE DEF S
    <2> QED
      BY <1>1, <1>10, <1>11, <2>1, IntervalInductionSet
  <1> QED
    BY <1>9, <1>12 DEF n

\* Without its duplicates a sequence begins as it did and has the same elements, each
\* once.
LEMMA RemoveDuplicatesIs ==
  ASSUME NEW names \in Seq(Names), Len(names) > 0
  PROVE  /\ removeDuplicates(names) \in Seq(Names) /\ Len(removeDuplicates(names)) > 0
         /\ removeDuplicates(names)[1] = names[1] /\ IsInjective(removeDuplicates(names))
         /\ ToSet(removeDuplicates(names)) = ToSet(names)
  <1> DEFINE n == Len(names)
             A == Seq(Names)
             add(res, k) == IF Contains(res, names[k]) THEN res ELSE Append(res, names[k])
             step == [p \in A \X (1 .. n) |-> add(p[1], p[2])]
             isResult(f) ==
               f = [k \in 0 .. n |-> IF k = 0 THEN <<>>
                                     ELSE IF Contains(f[k - 1], names[k]) THEN f[k - 1]
                                     ELSE Append(f[k - 1], names[k])]
             res == CHOOSE f : isResult(f)
  <1>1. n \in Nat /\ \A i \in 1 .. n : names[i] \in Names
    BY LenProperties, ElementOfSeq
  <1>2. <<>> \in A
    OBVIOUS
  <1>3. step \in [A \X (1 .. n) -> A]
    <2>1. ASSUME NEW r \in A, NEW k \in 1 .. n PROVE add(r, k) \in A
      BY <1>1, AppendProperties
    <2> HIDE DEF A, add
    <2> QED
      BY <2>1
  <1>4. PICK f \in [0 .. n -> A] :
          f[0] = <<>> /\ \A i \in 1 .. n : f[i] = step[<<f[i - 1], i>>]
    <2> HIDE DEF A, step, n
    <2>1. Recursion(A, <<>>, n, step) # {}
      BY <1>1, <1>2, <1>3, RecursionDefines
    <2> QED
      BY <2>1 DEF Recursion
  <1>5. \A i \in 1 .. n : f[i] = add(f[i - 1], i)
    <2>1. ASSUME NEW i \in 1 .. n PROVE step[<<f[i - 1], i>>] = add(f[i - 1], i)
      <3>1. i - 1 \in 0 .. n
        BY <1>1
      <3>2. f[i - 1] \in A
        BY <3>1
      <3> HIDE DEF A, add
      <3> QED
        BY <3>2
    <2> HIDE DEF step, add
    <2> QED
      BY <1>4, <2>1
  <1> HIDE DEF step, A, n
  <1>6. isResult(f)
    <2>1. \A k \in 0 .. n : f[k] = IF k = 0 THEN <<>>
                                   ELSE IF Contains(f[k - 1], names[k]) THEN f[k - 1]
                                   ELSE Append(f[k - 1], names[k])
      <3>1. \A k \in 0 .. n : k # 0 => k \in 1 .. n
        BY <1>1
      <3> QED
        BY <1>4, <1>5, <3>1
    <2> QED
      BY <2>1
  <1>7. isResult(res)
    <2> HIDE DEF isResult
    <2> QED
      BY <1>6
  <1>8. /\ res[0] = <<>>
        /\ \A k \in 1 .. n : res[k] = add(res[k - 1], k)
    <2> HIDE DEF res
    <2>1. 0 \in 0 .. n /\ \A k \in 1 .. n : k \in 0 .. n /\ k # 0
      BY <1>1
    <2> QED
      BY <1>7, <2>1
  <1>9. removeDuplicates(names) = res[n]
    BY DEF removeDuplicates, n
  <1> HIDE DEF res, isResult
  <1> DEFINE right(k) == /\ res[k] \in Seq(Names) /\ IsInjective(res[k])
                         /\ ToSet(res[k]) = {names[i] : i \in 1 .. k}
                         /\ k > 0 => Len(res[k]) > 0 /\ res[k][1] = names[1]
             S == {k \in 0 .. n : right(k)}
  <1>10. 0 \in S
    <2>1. <<>> \in Seq(Names) /\ IsInjective(<<>>) /\ ToSet(<<>>) = {}
      BY DEF IsInjective, ToSet
    <2>2. 0 \in 0 .. n /\ {names[i] : i \in 1 .. 0} = {}
      BY <1>1
    <2>3. res[0] = <<>> /\ ~(0 > 0)
      BY <1>8
    <2>4. right(0)
      BY <2>1, <2>2, <2>3
    <2> HIDE DEF right
    <2> QED
      BY <2>2, <2>4
  <1>11. ASSUME NEW k \in 1 .. n, k - 1 \in S PROVE k \in S
    <2>1. right(k - 1) /\ k \in 0 .. n /\ names[k] \in Names /\ k \in Nat
      BY <1>1, <1>11
    <2>2. {names[i] : i \in 1 .. k} = {names[i] : i \in 1 .. k - 1} \cup {names[k]}
      <3>1. \A i \in 1 .. k : i \in 1 .. k - 1 \/ i = k
        OBVIOUS
      <3>2. k \in 1 .. k /\ \A i \in 1 .. k - 1 : i \in 1 .. k
        OBVIOUS
      <3> QED
        BY <3>1, <3>2
    <2>3. k = 1 => res[k - 1] = <<>>
      BY <1>8
    <2>4. Len(res[k - 1]) \in Nat
      BY <2>1, LenProperties
    <2>5. CASE Contains(res[k - 1], names[k])
      <3>1. res[k] = res[k - 1]
        BY <1>8, <2>5
      <3>2. names[k] \in ToSet(res[k - 1])
        BY <2>1, <2>5, ContainsIs
      <3>3. k # 1
        BY <2>3, <3>2 DEF ToSet
      <3> QED
        BY <2>1, <2>2, <3>1, <3>2, <3>3
    <2>6. CASE ~Contains(res[k - 1], names[k])
      <3>1. res[k] = Append(res[k - 1], names[k])
        BY <1>8, <2>6
      <3>2. names[k] \notin ToSet(res[k - 1])
        BY <2>1, <2>6, ContainsIs
      <3>3. IsInjective(res[k])
        BY <2>1, <3>1, <3>2, Distinct, SMTT(20)
      <3>4. ToSet(res[k]) = ToSet(res[k - 1]) \cup {names[k]}
        BY <2>1, <3>1, ToSetAppend
      <3>5. /\ res[k] \in Seq(Names) /\ Len(res[k]) = Len(res[k - 1]) + 1
            /\ \A i \in 1 .. Len(res[k - 1]) : res[k][i] = res[k - 1][i]
            /\ res[k][Len(res[k - 1]) + 1] = names[k]
        BY <2>1, <3>1, AppendProperties
      <3>6. res[k][1] = names[1]
        <4>1. CASE k = 1
          BY <2>3, <3>5, <4>1
        <4>2. CASE k # 1
          BY <2>1, <2>4, <3>5, <4>2
        <4> QED
          BY <4>1, <4>2
      <3> QED
        BY <2>1, <2>2, <2>4, <3>3, <3>4, <3>5, <3>6
    <2> QED
      BY <2>5, <2>6
  <1>12. n \in S
    <2>1. n \in 0 .. n
      BY <1>1
    <2> HIDE DEF S
    <2> QED
      BY <1>1, <1>10, <1>11, <2>1, IntervalInductionSet
  <1>13. ToSet(names) = {names[i] : i \in 1 .. n}
    BY LenProperties DEF ToSet, n
  <1> QED
    BY <1>9, <1>12, <1>13 DEF n

CollectInv ==
  /\ collect.at \in {"off", "exit", "run"}
  /\ collect = [at |-> collect.at, given |-> collect.given, file |-> collect.file,
                names |-> collect.names]
  /\ SelectedOnce

LEMMA CollectBeginInv == CollectInv /\ CollectBegin => CollectInv'
  <1> SUFFICES ASSUME CollectInv, CollectBegin PROVE CollectInv'
    OBVIOUS
  <1>1. PICK given \in BoundedSeq(Given, MaxNames), file \in BOOLEAN :
          \/ collect' = [collect EXCEPT !.at = "exit"]
          \/ collect' = [at |-> IF ~file /\ ToSet(given) \cap {"Logs", "all"} # {}
                                THEN "exit" ELSE "run",
                         given |-> given, file |-> file, names |-> GetCollectorsToRun(given)]
    BY DEF CollectBegin
  <1>2. given \in Seq(Given)
    <2>1. PICK m \in 0 .. MaxNames : given \in [1 .. m -> Given]
      BY DEF BoundedSeq, SeqOf
    <2>2. m \in Nat
      BY NamesAssumption
    <2> QED
      BY <2>1, <2>2, IsASeq
  <1>3. CASE collect' = [collect EXCEPT !.at = "exit"]
    BY <1>3 DEF CollectInv, SelectedOnce, Runs, Asked
  <1>4. CASE collect' = [at |-> IF ~file /\ ToSet(given) \cap {"Logs", "all"} # {}
                                THEN "exit" ELSE "run",
                         given |-> given, file |-> file, names |-> GetCollectorsToRun(given)]
    <2> DEFINE names == GetCollectorsToRun(given)
               sel == Selected(given)
    <2>1. /\ sel \in Seq(Names) /\ Len(sel) > 0 /\ sel[1] = "DevInfo"
          /\ ToSet(sel) = Meant(given, Len(given))
      BY <1>2, SelectedIs
    <2>2. names = removeDuplicates(sel)
      BY DEF GetCollectorsToRun
    <2> HIDE DEF names, sel
    <2>3. /\ names \in Seq(Names) /\ Len(names) > 0 /\ names[1] = "DevInfo"
          /\ IsInjective(names) /\ ToSet(names) = Meant(given, Len(given))
      BY <2>1, <2>2, RemoveDuplicatesIs
    <2>4. IsPrefix(Required, names)
      <3>1. Len(names) \in Nat /\ Len(names) >= 1 /\ 1 \in 1 .. Len(names) + 1
        BY <2>3, LenProperties
      <3>2. Required = <<"DevInfo">> /\ Len(Required) = 1 /\ Required[1] = "DevInfo"
        BY DEF Required
      <3>3. Required \in Seq(Names)
        BY DEF Required, Names
      <3>4. /\ SubSeq(names, 1, 1) \in Seq(Names) /\ Len(SubSeq(names, 1, 1)) = 1
            /\ SubSeq(names, 1, 1)[1] = names[1]
        BY <2>3, <3>1, SubSeqProperties
      <3>5. SubSeq(Required, 1, 1) = Required
        BY <3>2, <3>3, EvaluatedIs DEF Evaluated
      <3>6. SubSeq(names, 1, 1) = Required
        <4>1. \A i \in 1 .. 1 : SubSeq(names, 1, 1)[i] = Required[i]
          BY <2>3, <3>2, <3>4
        <4> QED
          BY <3>2, <3>3, <3>4, <4>1, SeqEqual
      <3> QED
        BY <3>1, <3>2, <3>5, <3>6 DEF IsPrefix
    <2>5. /\ ToSet(given) = {given[i] : i \in 1 .. Len(given)} /\ ToSet(Required) = {"DevInfo"}
      BY <1>2, LenProperties DEF ToSet, Required
    <2>6. Meant(given, Len(given)) =
            ToSet(Required) \cup
            IF ToSet(given) \cap Group # {}
            THEN ToSet(Optional) ELSE ToSet(Optional) \cap ToSet(given)
      BY <2>5 DEF Meant
    <2>7. collect' = [at |-> collect'.at, given |-> collect'.given, file |-> collect'.file,
                      names |-> collect'.names]
          /\ collect'.at \in {"off", "exit", "run"}
      BY <1>4
    <2>8. collect'.given = given /\ collect'.names = names
      BY <1>4 DEF names
    <2>9. \A o \in ToSet(Optional) : o \in Spellings(o)
      BY DEF Spellings
    <2>10. SelectedOnce'
      <3> DEFINE run == ToSet(names)
                 gave == ToSet(given)
      <3>1. run = ToSet(Required) \cup IF gave \cap Group # {} THEN ToSet(Optional)
                                       ELSE ToSet(Optional) \cap gave
        BY <2>3, <2>6
      <3>2. ToSet(Required) \cap ToSet(Optional) = {}
        BY <2>5, OptionalIs DEF Names
      <3> HIDE DEF run, gave
      <3>3. /\ run \subseteq ToSet(Required) \cup ToSet(Optional)
            /\ \A o \in ToSet(Optional) : /\ o \in gave \/ gave \cap Group # {} => o \in run
                                         /\ o \in run => gave \cap (Group \cup Spellings(o)) # {}
        BY <2>9, <3>1, <3>2
      <3>4. Runs' = run /\ Asked' = gave
        BY <2>8 DEF run, gave, Runs, Asked
      <3>5. IsPrefix(Required, names) /\ IsInjective(names)
        BY <2>3, <2>4
      <3> QED
        BY <2>8, <3>3, <3>4, <3>5 DEF SelectedOnce
    <2> QED
      BY <2>7, <2>10 DEF CollectInv
  <1> QED
    BY <1>1, <1>3, <1>4

\* However many names are given, whichever and in whatever order: DevInfo runs first, no
\* collector twice, one that was named does, and none that was not (collector_selector.go:40).
THEOREM SelectsEachOnce == Spec => []SelectedOnce
  <1>1. Init => CollectInv
    BY DEF Init, CollectInit, CollectInv, SelectedOnce
  <1>2. CollectInv /\ [Next]_toolVars => CollectInv'
    <2>1. CollectInv /\ UNCHANGED collect => CollectInv'
      BY DEF CollectInv, SelectedOnce, Runs, Asked
    <2>2. [Next]_toolVars => CollectBegin \/ UNCHANGED collect
      BY DEF Next, toolVars
    <2> QED
      BY <2>1, <2>2, CollectBeginInv
  <1> QED
    BY <1>1, <1>2, PTL DEF Spec, CollectInv
-----------------------------------------------------------------------------
(***************************************************************************)
(* The detection of cards                                                  *)
(***************************************************************************)
Found == [name : Interfaces, primary : BOOLEAN, device : PTPDevices]

\* Before orders the interfaces of a node.
LEMMA BeforeOrders ==
  /\ \A i, j \in Found : Before(i, j) => ~Before(j, i)
  /\ \A i, j, k \in Found : Before(i, k) => Before(i, j) \/ Before(j, k)
  /\ \A i, j \in Found : i.name # j.name => Before(i, j) \/ Before(j, i)
  <1>1. ASSUME NEW i \in Found, NEW j \in Found
        PROVE  /\ i.primary # j.primary /\ i.primary = TRUE => Before(i, j)
               /\ i.primary # j.primary /\ i.primary = FALSE => ~Before(i, j)
               /\ i.primary = j.primary => (Before(i, j) <=> i.name < j.name)
    BY DEF Before
  <1>2. \A i \in Found : i.primary \in BOOLEAN /\ i.name \in Int
    <2>1. \A i \in Found : i.primary \in BOOLEAN
      BY DEF Found
    <2>2. \A i \in Found : i.name \in Interfaces
      BY DEF Found
    <2>3. Interfaces \subseteq Int
      BY InterfacesAssumption
    <2> QED
      BY <2>1, <2>2, <2>3
  <1>3. ASSUME NEW i \in Found, NEW j \in Found PROVE Before(i, j) => ~Before(j, i)
    <2>1. CASE i.primary = j.primary
      <3>1. Before(i, j) => i.name < j.name
        BY <1>1, <2>1
      <3>2. Before(j, i) => j.name < i.name
        BY <1>1, <2>1
      <3>3. ~(i.name < j.name /\ j.name < i.name)
        BY <1>2
      <3> QED
        BY <3>1, <3>2, <3>3
    <2>2. CASE i.primary # j.primary
      BY <1>1, <1>2, <2>2
    <2> QED
      BY <2>1, <2>2
  <1>4. ASSUME NEW i \in Found, NEW j \in Found, i.name # j.name
        PROVE  Before(i, j) \/ Before(j, i)
    <2>1. CASE i.primary = j.primary
      <3>1. i.name < j.name \/ j.name < i.name
        BY <1>2, <1>4
      <3> QED
        BY <1>1, <2>1, <3>1
    <2>2. CASE i.primary # j.primary
      BY <1>1, <1>2, <2>2
    <2> QED
      BY <2>1, <2>2
  <1>5. ASSUME NEW i \in Found, NEW j \in Found, NEW k \in Found, Before(i, k)
        PROVE  Before(i, j) \/ Before(j, k)
    <2>1. CASE i.primary = j.primary /\ j.primary = k.primary
      <3>1. i.name < k.name
        BY <1>1, <1>5, <2>1
      <3>2. i.name < j.name \/ j.name < k.name
        BY <1>2, <3>1
      <3> QED
        BY <1>1, <2>1, <3>2
    <2>2. CASE i.primary # k.primary
      BY <1>1, <1>2, <1>5, <2>2
    <2>3. CASE i.primary = k.primary /\ i.primary # j.primary
      BY <1>1, <1>2, <1>5, <2>3
    <2> QED
      BY <2>1, <2>2, <2>3
  <1> QED
    BY <1>3, <1>4, <1>5

\* Sorted, the interfaces are the same ones and each comes before those behind it.
LEMMA SortInterfacesIs ==
  ASSUME NEW found \in Seq(Found),
         \A j, k \in 1 .. Len(found) : j # k => found[j].name # found[k].name
  PROVE  /\ sortInterfaces(found) \in Seq(Found)
         /\ ToSet(sortInterfaces(found)) = ToSet(found)
         /\ \A j, k \in 1 .. Len(sortInterfaces(found)) :
              j < k => Before(sortInterfaces(found)[j], sortInterfaces(found)[k])
  <1> DEFINE n == Len(found)
             less == {p \in (1 .. n) \X (1 .. n) : Before(found[p[1]], found[p[2]])}
             t == Sorted(found, less)
  <1>1. n \in Nat /\ \A i \in 1 .. n : found[i] \in Found
    BY LenProperties, ElementOfSeq
  <1>2. \A x, y \in 1 .. n : <<x, y>> \in less <=> Before(found[x], found[y])
    OBVIOUS
  <1>3. IsLess(n, less)
    <2> HIDE DEF less, n
    <2> QED
      BY <1>1, <1>2, BeforeOrders DEF IsLess
  <1> HIDE DEF less
  <1>4. /\ t \in Seq(Found) /\ Len(t) = n
        /\ \E place \in [1 .. n -> 1 .. n] :
              /\ \A k \in 1 .. n : t[k] = found[place[k]]
              /\ \A k \in 1 .. n : \E j \in 1 .. n : place[j] = k
              /\ \A j, k \in 1 .. n :
                   j < k => place[j] # place[k] /\ <<place[k], place[j]>> \notin less
    BY <1>3, SortedIs
  <1>5. sortInterfaces(found) = t
    BY DEF sortInterfaces, less
  <1> HIDE DEF t
  <1>6. PICK place \in [1 .. n -> 1 .. n] :
              /\ \A k \in 1 .. n : t[k] = found[place[k]]
              /\ \A k \in 1 .. n : \E j \in 1 .. n : place[j] = k
              /\ \A j, k \in 1 .. n :
                   j < k => place[j] # place[k] /\ <<place[k], place[j]>> \notin less
    BY <1>4
  <1>7. ToSet(found) = {found[i] : i \in 1 .. n} /\ ToSet(t) = {t[i] : i \in 1 .. n}
    BY <1>4, LenProperties, ZenonT(30) DEF ToSet
  <1>8. ToSet(t) = ToSet(found)
    <2> HIDE DEF n
    <2>1. \A k \in 1 .. n : place[k] \in 1 .. n
      BY <1>6
    <2>2. ASSUME NEW k \in 1 .. n PROVE t[k] \in ToSet(found)
      <3>1. t[k] = found[place[k]] /\ place[k] \in 1 .. n
        BY <1>6, <2>1
      <3> QED
        BY <1>7, <3>1
    <2>3. ASSUME NEW k \in 1 .. n PROVE found[k] \in ToSet(t)
      <3>1. PICK j \in 1 .. n : place[j] = k
        BY <1>6
      <3>2. t[j] = found[k]
        BY <1>6, <3>1
      <3> QED
        BY <1>7, <3>2
    <2> QED
      BY <1>7, <2>2, <2>3
  <1>9. ASSUME NEW j \in 1 .. n, NEW k \in 1 .. n, j < k PROVE Before(t[j], t[k])
    <2>1. /\ place[j] \in 1 .. n /\ place[k] \in 1 .. n /\ place[j] # place[k]
          /\ ~Before(found[place[k]], found[place[j]])
      BY <1>2, <1>6, <1>9
    <2>2. found[place[j]].name # found[place[k]].name
      BY <2>1
    <2> QED
      BY <1>1, <1>6, <2>1, <2>2, BeforeOrders
  <1> QED
    BY <1>4, <1>5, <1>8, <1>9

\* What PrimaryKept says of one file.
KeptOf(read, kept) ==
  /\ \A i \in read : \E k \in DOMAIN kept :
       /\ kept[k].device = i.device
       /\ kept[k] = i \/ Before(kept[k], i)
  /\ \A k, l \in DOMAIN kept : k < l => /\ kept[k].device # kept[l].device
                                        /\ Before(kept[k], kept[l])
  /\ ToSet(kept) \subseteq read

LEMMA DeduplicateIs ==
  ASSUME NEW s \in Seq(Found),
         \A j, k \in 1 .. Len(s) : j < k => Before(s[j], s[k])
  PROVE  deduplicate(s) \in Seq(Found) /\ KeptOf(ToSet(s), deduplicate(s))
  <1> DEFINE n == Len(s)
             A == Seq(Found)
             isSeen(r, k) == \E i \in ToSet(r) : i.device = s[k].device
             add(r, k) == IF isSeen(r, k) THEN r ELSE Append(r, s[k])
             step == [p \in A \X (1 .. n) |-> add(p[1], p[2])]
             isResult(f) ==
               f = [k \in 0 .. n |->
                      IF k = 0 THEN <<>>
                      ELSE IF \E i \in ToSet(f[k - 1]) : i.device = s[k].device THEN f[k - 1]
                      ELSE Append(f[k - 1], s[k])]
             seen == CHOOSE f : isResult(f)
  <1>1. n \in Nat /\ \A i \in 1 .. n : s[i] \in Found
    BY LenProperties, ElementOfSeq
  <1>2. <<>> \in A
    OBVIOUS
  <1>3. step \in [A \X (1 .. n) -> A]
    <2>1. ASSUME NEW r \in A, NEW k \in 1 .. n PROVE add(r, k) \in A
      BY <1>1, AppendProperties
    <2> HIDE DEF A, add
    <2> QED
      BY <2>1
  <1>4. PICK f \in [0 .. n -> A] :
          f[0] = <<>> /\ \A i \in 1 .. n : f[i] = step[<<f[i - 1], i>>]
    <2> HIDE DEF A, step, n
    <2>1. Recursion(A, <<>>, n, step) # {}
      BY <1>1, <1>2, <1>3, RecursionDefines
    <2> QED
      BY <2>1 DEF Recursion
  <1>5. \A i \in 1 .. n : f[i] = add(f[i - 1], i)
    <2>1. ASSUME NEW i \in 1 .. n PROVE step[<<f[i - 1], i>>] = add(f[i - 1], i)
      <3>1. i - 1 \in 0 .. n
        BY <1>1
      <3>2. f[i - 1] \in A
        BY <3>1
      <3> HIDE DEF A, add
      <3> QED
        BY <3>2
    <2> HIDE DEF step, add
    <2> QED
      BY <1>4, <2>1
  <1> HIDE DEF step, A, n
  <1>6. isResult(f)
    <2>1. \A k \in 0 .. n : f[k] = IF k = 0 THEN <<>> ELSE add(f[k - 1], k)
      <3>1. \A k \in 0 .. n : k # 0 => k \in 1 .. n
        BY <1>1
      <3> HIDE DEF add
      <3> QED
        BY <1>4, <1>5, <3>1
    <2> QED
      BY <2>1
  <1>7. isResult(seen)
    <2> HIDE DEF isResult
    <2> QED
      BY <1>6
  <1>8. /\ seen[0] = <<>>
        /\ \A k \in 1 .. n : seen[k] = add(seen[k - 1], k)
    <2> HIDE DEF seen
    <2>1. 0 \in 0 .. n /\ \A k \in 1 .. n : k \in 0 .. n /\ k # 0
      BY <1>1
    <2> QED
      BY <1>7, <2>1
  <1>9. deduplicate(s) = seen[n]
    BY DEF deduplicate, n
  <1> HIDE DEF seen, isResult
  <1> DEFINE first(k) == {s[i] : i \in 1 .. k}
             right(k) == seen[k] \in Seq(Found) /\ KeptOf(first(k), seen[k])
             S == {k \in 0 .. n : right(k)}
  <1>10. 0 \in S
    <2>1. <<>> \in Seq(Found) /\ KeptOf({}, <<>>)
      BY DEF KeptOf, ToSet
    <2>2. 0 \in 0 .. n /\ first(0) = {}
      BY <1>1
    <2> HIDE DEF first
    <2> QED
      BY <1>8, <2>1, <2>2
  <1>11. ASSUME NEW k \in 1 .. n, k - 1 \in S PROVE k \in S
    <2> DEFINE r == seen[k - 1]
    <2>1. right(k - 1) /\ k \in 0 .. n /\ s[k] \in Found /\ k \in Nat
      BY <1>1, <1>11
    <2>2. first(k) = first(k - 1) \cup {s[k]}
      <3>1. \A i \in 1 .. k : i \in 1 .. k - 1 \/ i = k
        OBVIOUS
      <3>2. k \in 1 .. k /\ \A i \in 1 .. k - 1 : i \in 1 .. k
        OBVIOUS
      <3> QED
        BY <3>1, <3>2
    <2>3. \A i \in first(k - 1) : Before(i, s[k])
      <3>1. \A i \in 1 .. k - 1 : i \in 1 .. n /\ i < k
        BY <1>1
      <3> QED
        BY <3>1 DEF n
    <2>4. /\ r \in Seq(Found) /\ Len(r) \in Nat /\ DOMAIN r = 1 .. Len(r)
          /\ ToSet(r) = {r[j] : j \in 1 .. Len(r)}
      BY <2>1, LenProperties DEF ToSet
    <2>5. /\ \A i \in first(k - 1) : \E j \in DOMAIN r :
                 r[j].device = i.device /\ (r[j] = i \/ Before(r[j], i))
          /\ \A j, l \in DOMAIN r : j < l => r[j].device # r[l].device /\ Before(r[j], r[l])
          /\ ToSet(r) \subseteq first(k - 1)
      BY <2>1 DEF KeptOf
    <2>6. seen[k] = add(r, k)
      BY <1>8
    <2> HIDE DEF r, first
    <2>7. CASE isSeen(r, k)
      <3>1. seen[k] = r
        BY <2>6, <2>7
      <3>2. PICK j \in 1 .. Len(r) : r[j].device = s[k].device
        BY <2>4, <2>7
      <3>3. Before(r[j], s[k])
        <4>1. r[j] \in first(k - 1)
          BY <2>4, <2>5
        <4> QED
          BY <2>3, <4>1
      <3>4. KeptOf(first(k), r)
        BY <2>2, <2>4, <2>5, <3>2, <3>3 DEF KeptOf
      <3> QED
        BY <2>1, <2>4, <3>1, <3>4
    <2>8. CASE ~isSeen(r, k)
      <3> DEFINE t == Append(r, s[k])
      <3>1. seen[k] = t
        BY <2>6, <2>8
      <3>2. /\ t \in Seq(Found) /\ Len(t) = Len(r) + 1
            /\ \A i \in 1 .. Len(r) : t[i] = r[i]
            /\ t[Len(r) + 1] = s[k]
        BY <2>1, <2>4, AppendProperties
      <3>3. ToSet(t) = ToSet(r) \cup {s[k]}
        BY <2>1, <2>4, ToSetAppend
      <3> HIDE DEF t
      <3>4. DOMAIN t = 1 .. Len(r) + 1 /\ \A i \in DOMAIN t : i \in 1 .. Len(r) \/ i = Len(r) + 1
        BY <2>4, <3>2, LenProperties
      <3>5. ASSUME NEW i \in first(k)
            PROVE  \E j \in DOMAIN t : t[j].device = i.device /\ (t[j] = i \/ Before(t[j], i))
        <4>1. CASE i \in first(k - 1)
          <5>1. PICK j \in DOMAIN r : r[j].device = i.device /\ (r[j] = i \/ Before(r[j], i))
            BY <2>5, <4>1
          <5>2. j \in DOMAIN t /\ t[j] = r[j]
            BY <2>4, <3>2, <3>4, <5>1
          <5> QED
            BY <5>1, <5>2
        <4>2. CASE i = s[k]
          <5>1. Len(r) + 1 \in DOMAIN t
            BY <2>4, <3>4
          <5> QED
            BY <3>2, <4>2, <5>1
        <4> QED
          BY <2>2, <4>1, <4>2
      <3>6. ASSUME NEW j \in DOMAIN t, NEW l \in DOMAIN t, j < l
            PROVE  t[j].device # t[l].device /\ Before(t[j], t[l])
        <4>1. j \in 1 .. Len(r) /\ t[j] = r[j] /\ r[j] \in ToSet(r)
          BY <2>4, <3>2, <3>4, <3>6
        <4>2. CASE l \in 1 .. Len(r)
          BY <2>4, <2>5, <3>2, <3>6, <4>1, <4>2
        <4>3. CASE l = Len(r) + 1
          <5>1. t[l] = s[k]
            BY <3>2, <4>3
          <5>2. r[j].device # s[k].device
            BY <2>8, <4>1
          <5>3. Before(r[j], s[k])
            BY <2>3, <2>5, <4>1
          <5> QED
            BY <4>1, <5>1, <5>2, <5>3
        <4> QED
          BY <3>4, <4>2, <4>3
      <3>7. KeptOf(first(k), t)
        BY <2>2, <2>5, <3>3, <3>5, <3>6 DEF KeptOf
      <3> QED
        BY <2>1, <3>1, <3>2, <3>7
    <2> QED
      BY <2>7, <2>8
  <1>12. n \in S
    <2>1. n \in 0 .. n
      BY <1>1
    <2> HIDE DEF S
    <2> QED
      BY <1>1, <1>10, <1>11, <2>1, IntervalInductionSet
  <1>13. ToSet(s) = first(n)
    BY LenProperties DEF ToSet, n
  <1> QED
    BY <1>9, <1>12, <1>13 DEF n

\* Whatever the order in which a map yields the sections of a file.
LEMMA DetectedIs ==
  ASSUME NEW found \in Seq(Found),
         \A j, k \in 1 .. Len(found) : j # k => found[j].name # found[k].name,
         NEW kind
  PROVE  /\ Detected(kind, found) \in Seq(Found)
         /\ kind = "ptp4l" => KeptOf(ToSet(found), Detected(kind, found))
  <1> DEFINE t == sortInterfaces(found)
  <1>1. /\ t \in Seq(Found) /\ ToSet(t) = ToSet(found)
        /\ \A j, k \in 1 .. Len(t) : j < k => Before(t[j], t[k])
    BY SortInterfacesIs
  <1> HIDE DEF t
  <1>2. deduplicate(t) \in Seq(Found) /\ KeptOf(ToSet(t), deduplicate(t))
    BY <1>1, DeduplicateIs
  <1>3. sortAndDeduplicateInterfaces(found) = deduplicate(t)
    BY DEF sortAndDeduplicateInterfaces, t
  <1> QED
    BY <1>1, <1>2, <1>3 DEF Detected

Reads == Seq(SUBSET Found)
Keeps == Seq(Seq(Found))

DetectType ==
  [at : {"off", "list", "read", "done", "panic"}, clock : {"", "GM", "BC"},
   device : {<<>>} \cup [Interfaces -> PTPDevices], kind : {"", "ptp4l", "ts2phc"},
   files : Nat, errs : BOOLEAN, read : Reads, detected : Keeps]

\* PrimaryKept of what has been read so far.
DetectInv ==
  /\ detect \in DetectType
  /\ detect.at = "read" => detect.device \in [Interfaces -> PTPDevices]
  /\ detect.at = "list" => detect.device \in [Interfaces -> PTPDevices]
  /\ detect.at \in {"off", "list"} => detect.read = <<>> /\ detect.detected = <<>>
  /\ Len(detect.read) = Len(detect.detected)
  /\ detect.kind = "ptp4l" =>
       \A f \in DOMAIN detect.read : KeptOf(detect.read[f], detect.detected[f])

LEMMA DetectInvImplies == DetectInv => PrimaryKept
  BY DEF DetectInv, PrimaryKept, KeptOf

LEMMA NothingRead ==
  /\ <<>> \in Reads /\ <<>> \in Keeps /\ Len(<<>>) = 0 /\ DOMAIN <<>> = {}
  BY DEF Reads, Keeps

LEMMA DetectBeginInv == DetectInv /\ DetectBegin => DetectInv'
  <1> SUFFICES ASSUME DetectInv, DetectBegin PROVE DetectInv'
    OBVIOUS
  <1>1. PICK clock \in {"GM", "BC"}, device \in [Interfaces -> PTPDevices] :
          detect' = [detect EXCEPT !.at = "list", !.clock = clock, !.device = device,
                                   !.kind = IF clock = "BC" THEN "ptp4l" ELSE "ts2phc"]
    BY DEF DetectBegin
  <1>2. detect' \in DetectType
    BY <1>1 DEF DetectInv, DetectType
  <1>3. /\ detect'.at = "list" /\ detect'.device = device
        /\ detect'.read = <<>> /\ detect'.detected = <<>>
    BY <1>1 DEF DetectInv, DetectBegin, DetectType
  <1> QED
    BY <1>2, <1>3, NothingRead DEF DetectInv

LEMMA KindFailsInv ==
  DetectInv /\ detect.at \in {"list", "read"} /\ KindFails => DetectInv'
  <1> SUFFICES ASSUME DetectInv, detect.at \in {"list", "read"}, KindFails PROVE DetectInv'
    OBVIOUS
  <1> DEFINE at == IF detect.kind = First(detect.clock) THEN "list" ELSE "panic"
             kind == IF detect.kind = "ptp4l" THEN "ts2phc" ELSE "ptp4l"
  <1>1. detect' = [detect EXCEPT !.at = at, !.kind = kind, !.files = 0, !.errs = FALSE,
                                 !.read = <<>>, !.detected = <<>>]
    BY DEF KindFails
  <1>2. at \in {"list", "panic"} /\ kind \in {"ts2phc", "ptp4l"}
    OBVIOUS
  <1> HIDE DEF at, kind
  <1>3. detect' \in DetectType
    BY <1>1, <1>2, NothingRead DEF DetectInv, DetectType
  <1>4. /\ detect'.device = detect.device /\ detect'.read = <<>> /\ detect'.detected = <<>>
        /\ detect'.at \in {"list", "panic"}
    BY <1>1, <1>2 DEF DetectInv, DetectType
  <1>5. detect.device \in [Interfaces -> PTPDevices]
    BY DEF DetectInv
  <1> QED
    BY <1>3, <1>4, <1>5, NothingRead DEF DetectInv

LEMMA ListFilesInv == DetectInv /\ ListFiles => DetectInv'
  <1> SUFFICES ASSUME DetectInv, ListFiles PROVE DetectInv'
    OBVIOUS
  <1>1. CASE KindFails
    BY <1>1, KindFailsInv DEF ListFiles
  <1>2. ASSUME NEW n \in 1 .. MaxFiles,
               detect' = [detect EXCEPT !.at = "read", !.files = n]
        PROVE  DetectInv'
    <2>1. n \in Nat
      BY FilesAssumption
    <2> QED
      BY <1>2, <2>1 DEF DetectInv, DetectType, ListFiles
  <1> QED
    BY <1>1, <1>2 DEF ListFiles

\* The sections of a file, in any order, are interfaces of different names.
Sections(primary, order, device) ==
  [k \in DOMAIN order |-> [name |-> order[k], primary |-> primary[order[k]],
                           device |-> device[order[k]]]]

LEMMA FoundIs ==
  ASSUME NEW names \in SUBSET Interfaces, NEW primary \in [names -> BOOLEAN],
         NEW order \in SetToSeqs(names), NEW device \in [Interfaces -> PTPDevices]
  PROVE  /\ Sections(primary, order, device) \in Seq(Found)
         /\ \A j, k \in 1 .. Len(Sections(primary, order, device)) :
              j # k => Sections(primary, order, device)[j].name
                       # Sections(primary, order, device)[k].name
  <1> DEFINE D == 1 .. Cardinality(names)
             found == Sections(primary, order, device)
  <1>1. Cardinality(names) \in Nat
    BY InterfacesAssumption, FS_Subset, FS_CardinalityType
  <1>2. order \in [D -> names] /\ \A i, j \in D : i # j => order[i] # order[j]
    BY DEF SetToSeqs
  <1>3. DOMAIN order = D
    BY <1>2
  <1> HIDE DEF D
  <1>4. ASSUME NEW k \in D
        PROVE  [name |-> order[k], primary |-> primary[order[k]],
                device |-> device[order[k]]] \in Found
    BY <1>2 DEF Found
  <1>5. found \in [D -> Found] /\ \A k \in D : found[k].name = order[k]
    BY <1>3, <1>4 DEF Sections
  <1> HIDE DEF found
  <1>6. found \in Seq(Found)
    BY <1>1, <1>5, IsASeq DEF D
  <1>7. 1 .. Len(found) = D
    BY <1>5, <1>6, LenProperties
  <1> QED
    BY <1>2, <1>5, <1>6, <1>7 DEF found

LEMMA ReadFileInv == DetectInv /\ ReadFile => DetectInv'
  <1> SUFFICES ASSUME DetectInv, ReadFile PROVE DetectInv'
    OBVIOUS
  <1>1. /\ detect \in DetectType /\ detect.at = "read" /\ detect.files - 1 \in Nat
        /\ detect.device \in [Interfaces -> PTPDevices]
    <2>1. detect.at = "read" /\ detect.files > 0
      BY DEF ReadFile
    <2>2. detect \in DetectType
      BY DEF DetectInv
    <2>3. detect.files \in Nat
      BY <2>2 DEF DetectType
    <2> QED
      BY <2>1, <2>2, <2>3 DEF DetectInv
  <1>2. CASE detect' = [detect EXCEPT !.files = @ - 1, !.errs = TRUE]
    <2>1. /\ detect' \in DetectType /\ detect'.at = "read" /\ detect'.device = detect.device
          /\ detect'.kind = detect.kind /\ detect'.read = detect.read
          /\ detect'.detected = detect.detected
      BY <1>1, <1>2 DEF DetectType
    <2> QED
      BY <1>1, <2>1 DEF DetectInv
  <1> DEFINE reads(found) ==
               detect' = [detect EXCEPT
                            !.files = @ - 1, !.read = Append(@, ToSet(found)),
                            !.detected = Append(@, Detected(detect.kind, found))]
  <1>3. ASSUME NEW names \in SUBSET Interfaces, NEW primary \in [names -> BOOLEAN],
               NEW order \in SetToSeqs(names), reads(Sections(primary, order, detect.device))
        PROVE  DetectInv'
    <2> DEFINE found == Sections(primary, order, detect.device)
               kept == Detected(detect.kind, found)
               read == Append(detect.read, ToSet(found))
               detected == Append(detect.detected, kept)
    <2>1. /\ found \in Seq(Found)
          /\ \A j, k \in 1 .. Len(found) : j # k => found[j].name # found[k].name
      BY <1>1, FoundIs
    <2> HIDE DEF found
    <2>2. kept \in Seq(Found) /\ (detect.kind = "ptp4l" => KeptOf(ToSet(found), kept))
      BY <2>1, DetectedIs
    <2>3. ToSet(found) \in SUBSET Found
      BY <2>1, LenProperties, ElementOfSeq DEF ToSet
    <2>4. /\ detect.read \in Seq(SUBSET Found) /\ detect.detected \in Seq(Seq(Found))
          /\ Len(detect.read) = Len(detect.detected) /\ Len(detect.read) \in Nat
      BY <1>1, LenProperties DEF DetectInv, DetectType, Reads, Keeps
    <2> HIDE DEF kept
    <2>5. /\ read \in Seq(SUBSET Found) /\ Len(read) = Len(detect.read) + 1
          /\ \A f \in 1 .. Len(detect.read) : read[f] = detect.read[f]
          /\ read[Len(detect.read) + 1] = ToSet(found)
      BY <2>3, <2>4, AppendProperties
    <2>6. /\ detected \in Seq(Seq(Found)) /\ Len(detected) = Len(detect.detected) + 1
          /\ \A f \in 1 .. Len(detect.read) : detected[f] = detect.detected[f]
          /\ detected[Len(detect.read) + 1] = kept
      BY <2>2, <2>4, AppendProperties
    <2>7. detect' = [detect EXCEPT !.files = @ - 1, !.read = read, !.detected = detected]
      BY <1>3 DEF kept, found
    <2> HIDE DEF read, detected
    <2>8. detect' \in DetectType
      <3>1. read \in Reads /\ detected \in Keeps
        BY <2>5, <2>6 DEF Reads, Keeps
      <3> QED
        BY <1>1, <2>7, <3>1 DEF DetectType
    <2>9. /\ detect'.at = "read" /\ detect'.device = detect.device /\ detect'.kind = detect.kind
          /\ detect'.read = read /\ detect'.detected = detected
      BY <1>1, <2>7 DEF DetectType
    <2>10. DOMAIN read = 1 .. Len(detect.read) + 1 /\ DOMAIN detect.read = 1 .. Len(detect.read)
      BY <2>4, <2>5, LenProperties
    <2>11. ASSUME detect.kind = "ptp4l", NEW f \in DOMAIN read
           PROVE  KeptOf(read[f], detected[f])
      <3>1. CASE f \in 1 .. Len(detect.read)
        BY <2>5, <2>6, <2>10, <2>11, <3>1 DEF DetectInv
      <3>2. CASE f = Len(detect.read) + 1
        BY <2>2, <2>5, <2>6, <2>11, <3>2
      <3> QED
        BY <2>4, <2>10, <3>1, <3>2
    <2> QED
      BY <1>1, <2>4, <2>5, <2>6, <2>8, <2>9, <2>11 DEF DetectInv
  <1>4. \/ detect' = [detect EXCEPT !.files = @ - 1, !.errs = TRUE]
        \/ \E names \in SUBSET Interfaces : \E primary \in [names -> BOOLEAN] :
             \E order \in SetToSeqs(names) : reads(Sections(primary, order, detect.device))
    BY DEF ReadFile, Sections
  <1> HIDE DEF reads
  <1> QED
    BY <1>2, <1>3, <1>4

LEMMA EndKindInv == DetectInv /\ EndKind => DetectInv'
  <1> SUFFICES ASSUME DetectInv, EndKind PROVE DetectInv'
    OBVIOUS
  <1>1. CASE detect' = [detect EXCEPT !.at = "done"]
    BY <1>1 DEF DetectInv, DetectType
  <1> QED
    BY <1>1, KindFailsInv DEF EndKind

\* For any files, any interfaces in them and any order a map yields them in: a PTP
\* device is reported by its first primary interface, if it has one (detect.go:32-63).
THEOREM KeepsPrimary == Spec => []PrimaryKept
  <1>1. ASSUME Init PROVE DetectInv
    <2>1. detect = [at |-> "off", clock |-> "", device |-> <<>>, kind |-> "",
                    files |-> 0, errs |-> FALSE, read |-> <<>>, detected |-> <<>>]
      BY <1>1 DEF Init, DetectInit
    <2>2. detect \in DetectType
      BY <2>1, NothingRead DEF DetectType
    <2> QED
      BY <2>1, <2>2 DEF DetectInv
  <1>2. DetectInv /\ [Next]_toolVars => DetectInv'
    <2>1. DetectInv /\ UNCHANGED detect => DetectInv'
      BY DEF DetectInv
    <2>2. [Next]_toolVars => DetectBegin \/ DetectNext \/ UNCHANGED detect
      BY DEF Next, toolVars
    <2> QED
      BY <2>1, <2>2, DetectBeginInv, ListFilesInv, ReadFileInv, EndKindInv DEF DetectNext
  <1>3. DetectInv => PrimaryKept
    BY DetectInvImplies
  <1> QED
    BY <1>1, <1>2, <1>3, PTL DEF Spec
======================================================================================
