---------------------------------- MODULE Detection ----------------------------------
(***************************************************************************)
(* The detect command (detect/detect.go): the interfaces that the          *)
(* configuration of ptp4l or of ts2phc names, each with its PTP device.    *)
(* Which of the two is preferred depends on the clock type; the other one  *)
(* is looked at when the first cannot be read.  A file may be missing, and *)
(* any command may fail.                                                   *)
(*                                                                         *)
(* Interfaces are numbers, in the order of their names.                    *)
(***************************************************************************)
EXTENDS SequencesExt, Integers, Ordering

CONSTANTS
  Interfaces,  \* the interfaces of the node
  PTPDevices,  \* PTP devices of the node
  MaxFiles     \* bound: files of a kind

ASSUME InterfacesAssumption == Interfaces \subseteq Nat /\ IsFiniteSet(Interfaces)
ASSUME FilesAssumption == MaxFiles \in Nat

VARIABLE detect  \* the command: where it is, the clock type, and what it has read and
                 \* detected, file by file

DetectInit == detect = [at |-> "off", clock |-> "", device |-> <<>>, kind |-> "",
                        files |-> 0, errs |-> FALSE, read |-> <<>>, detected |-> <<>>]

\* The command has been given a valid clock type and has found the daemon's pod.
DetectBegin ==
  /\ detect.at = "off"
  /\ \E clock \in {"GM", "BC"}, device \in [Interfaces -> PTPDevices] :
       detect' = [detect EXCEPT !.at = "list", !.clock = clock, !.device = device,
                                !.kind = IF clock = "BC" THEN "ptp4l" ELSE "ts2phc"]

\* checkPTPConfig: the first kind could not be read, so that the other one is; what was
\* detected is dropped.  When that fails too the command panics.
First(clock) == IF clock = "BC" THEN "ptp4l" ELSE "ts2phc"

KindFails ==
  detect' = [detect EXCEPT
    !.at = IF detect.kind = First(detect.clock) THEN "list" ELSE "panic",
    !.kind = IF @ = "ptp4l" THEN "ts2phc" ELSE "ptp4l",
    !.files = 0, !.errs = FALSE, !.read = <<>>, !.detected = <<>>]

\* The listing of /var/run, which fails or has no file of the kind, or some.
ListFiles ==
  /\ detect.at = "list"
  /\ \/ KindFails
     \/ \E n \in 1 .. MaxFiles : detect' = [detect EXCEPT !.at = "read", !.files = n]

\* Primary first, then by name.
Before(i, j) == IF i.primary # j.primary THEN i.primary ELSE i.name < j.name

\* The first interface of each device.
deduplicate(found) ==
  LET seen[n \in 0 .. Len(found)] ==
        IF n = 0 THEN <<>>
        ELSE IF \E i \in ToSet(seen[n - 1]) : i.device = found[n].device THEN seen[n - 1]
        ELSE Append(seen[n - 1], found[n])
  IN  seen[Len(found)]

sortInterfaces(found) ==
  Sorted(found, {p \in (1 .. Len(found)) \X (1 .. Len(found)) :
                   Before(found[p[1]], found[p[2]])})

\* Mutant of sortAndDeduplicateInterfaces: duplicates are removed first.
deduplicateAndSortInterfaces(found) == sortInterfaces(deduplicate(found))

sortAndDeduplicateInterfaces(found) == deduplicate(sortInterfaces(found))

\* getDetectedInterfaces and getDetectedInterfacesFromPtp4l, of the sections of a file
\* whose device could be looked up, in the order in which a map yields them.  An
\* interface is primary unless an option of its section says it is not.
Detected(kind, found) == IF kind = "ptp4l" THEN sortAndDeduplicateInterfaces(found) ELSE found

\* One file: it cannot be read, or has sections, each primary or not, the interface of
\* which has its device looked up or not (getPTPClockDevice, by ethtool or by sysfs).
ReadFile ==
  /\ detect.at = "read" /\ detect.files > 0
  /\ \/ detect' = [detect EXCEPT !.files = @ - 1, !.errs = TRUE]
     \/ \E names \in SUBSET Interfaces : \E primary \in [names -> BOOLEAN] :
          \E order \in SetToSeqs(names) :
            LET found == [k \in DOMAIN order |->
                            [name |-> order[k], primary |-> primary[order[k]],
                             device |-> detect.device[order[k]]]]
            IN detect' = [detect EXCEPT !.files = @ - 1, !.read = Append(@, ToSet(found)),
                                        !.detected = Append(@, Detected(detect.kind, found))]

\* All files are read: an error of one of them fails the kind.
EndKind ==
  /\ detect.at = "read" /\ detect.files = 0
  /\ IF detect.errs THEN KindFails ELSE detect' = [detect EXCEPT !.at = "done"]

DetectNext == ListFiles \/ ReadFile \/ EndKind
-----------------------------------------------------------------------------
\* Of each file of ptp4l that was read, a PTP device is reported once, by its first
\* primary interface if any of its interfaces is primary, and the primary ones come
\* first: whatever the order of a map, a secondary port of a card never hides the
\* primary one (detect.go:32-63).
PrimaryKept ==
  detect.at = "done" /\ detect.kind = "ptp4l" =>
    \A f \in DOMAIN detect.read :
      LET read == detect.read[f]  kept == detect.detected[f]
      IN /\ \A i \in read : \E k \in DOMAIN kept :
              /\ kept[k].device = i.device
              /\ kept[k] = i \/ Before(kept[k], i)
         /\ \A k, l \in DOMAIN kept : k < l => /\ kept[k].device # kept[l].device
                                               /\ Before(kept[k], kept[l])
         /\ ToSet(kept) \subseteq read
=======================================================================================
