---------------------------------- MODULE Selection ----------------------------------
(***************************************************************************)
(* Which collectors a collection runs (cmd/collect.go,                     *)
(* runner/collector_selector.go, collectors/registry.go): the required     *)
(* ones, and of the optional ones those named by --collector.              *)
(***************************************************************************)
EXTENDS SequencesExt, FiniteSetsExt

CONSTANT MaxNames  \* bound: names given

ASSUME NamesAssumption == MaxNames \in Nat

VARIABLE collect  \* the command: where it is, its flags, and the names it runs

\* The registry, in the order in which the packages' init functions register.
Required == <<"DevInfo">>
Optional == <<"DPLL", "GNSS", "Logs", "PMC">>

\* What may be given as a name; the case of a letter tells the first two apart.
Given == {"all", "ALL", "defaults", "DPLL", "Logs", "logs", "DevInfo"}

\* Those that stand for all optional collectors.
Group == {"all", "ALL", "defaults"}

CollectInit == collect = [at |-> "off", given |-> <<>>, file |-> FALSE, names |-> <<>>]

\* Mutant of removeDuplicates: only neighbours are compared.
removeNeighbours(names) ==
  LET res[n \in 0 .. Len(names)] ==
        IF n = 0 THEN <<>>
        ELSE IF res[n - 1] # <<>> /\ Last(res[n - 1]) = names[n] THEN res[n - 1]
        ELSE Append(res[n - 1], names[n])
  IN  res[Len(names)]

removeDuplicates(names) ==
  LET res[n \in 0 .. Len(names)] ==
        IF n = 0 THEN <<>>
        ELSE IF Contains(res[n - 1], names[n]) THEN res[n - 1]
        ELSE Append(res[n - 1], names[n])
  IN  res[Len(names)]

\* One name of the loop of GetCollectorsToRun, and all of them.
Select(names, name) ==
  IF name \in Group THEN names \o Optional
  ELSE IF Contains(names, name) \/ ~Contains(Optional, name) THEN names
  ELSE Append(names, name)

Selected(given) ==
  LET names[n \in 0 .. Len(given)] ==
        IF n = 0 THEN Required ELSE Select(names[n - 1], given[n])
  IN  names[Len(given)]

GetCollectorsToRun(given) == removeDuplicates(Selected(given))

\* Run of collectCmd: a clock type or a duration that is not one ends it, and so does
\* a missing file for the logs, if the names are literally those.
CollectBegin ==
  /\ collect.at = "off"
  /\ \E given \in BoundedSeq(Given, MaxNames), file \in BOOLEAN :
       \/ collect' = [collect EXCEPT !.at = "exit"]
       \/ collect' = [at |-> IF ~file /\ ToSet(given) \cap {"Logs", "all"} # {}
                             THEN "exit" ELSE "run",
                      given |-> given, file |-> file, names |-> GetCollectorsToRun(given)]
-----------------------------------------------------------------------------
\* The ways a collector's name is given, in any case of its letters.
Spellings(name) == IF name = "Logs" THEN {"Logs", "logs"} ELSE {name}

\* The names given, and those of the collectors that run.
Asked == ToSet(collect.given)
Runs  == ToSet(collect.names)

\* Whatever is given, in whatever order and however often, the required collectors run
\* first, each collector runs once, an optional one that was named exactly or by its
\* group does run, and none runs that was not named in any way: a collector that ran
\* twice would be built and started twice and cleaned up once
\* (collector_selector.go:40-67, runner.go:93).
SelectedOnce ==
  collect.at = "run" =>
    /\ IsPrefix(Required, collect.names)
    /\ IsInjective(collect.names)
    /\ Runs \subseteq ToSet(Required) \cup ToSet(Optional)
    /\ \A o \in ToSet(Optional) : /\ o \in Asked \/ Asked \cap Group # {} => o \in Runs
                                 /\ o \in Runs => Asked \cap (Group \cup Spellings(o)) # {}

\* What the help of --collector says of the names: their case does not matter
\* (collect.go:157).
NamesAreCaseInsensitive ==
  collect.at = "run" =>
    \A o \in ToSet(Optional) :
      Asked \cap Spellings(o) # {} => o \in Runs
=======================================================================================
