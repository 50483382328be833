---------------------------------- MODULE DebugPod ----------------------------------
(***************************************************************************)
(* The debug pod of the DPLL-Netlink collector (clients/exec_command.go).  *)
(* Several programs share it by its name alone: a collection, which builds *)
(* the collector (and so starts it), starts it again, and cleans it up; a  *)
(* collection with --unmanaged-debug-pod; start-debug and stop-debug.      *)
(* Each has a context of its own, whose field pod is what it last saw, and *)
(* an image of its own: NETLINK_DEBUG_CONTAINER_IMAGE, or the default.     *)
(*                                                                         *)
(* A step is one request to the API server, which answers from its current *)
(* state.  A request may fail, and one that changes the cluster may take   *)
(* effect although its answer is lost.  A time-out may expire at any look. *)
(***************************************************************************)
EXTENDS Naturals

CONSTANTS
  Users,        \* the programs at work
  Configurable, \* those of them that NETLINK_DEBUG_CONTAINER_IMAGE may be set for
  Nobody,       \* the creator of a pod left over from earlier
  MaxPods       \* bound: pods created

Programs == {"collection", "unmanaged", "start-debug", "stop-debug"}

ASSUME NobodyAssumption == Nobody \notin Users

VARIABLES
  pod,     \* the pod of the debug pod's name in the cluster
  created, \* pods created so far
  user     \* of each: its program and image, the stage it is at, where its call is, its
           \* c.pod, and (for the properties) the pods created before it first looked

vars == <<pod, created, user>>

Images == {"default", "configured"}

Pods == [uid : Nat, by : Users \cup {Nobody}, image : Images \cup {""},
         phase : {"none", "", "Pending", "Running", "Ended"}, terminating : BOOLEAN]

Blank(phase) == [uid |-> 0, by |-> Nobody, image |-> "", phase |-> phase,
                 terminating |-> FALSE]
NoPod    == Blank("none")  \* in the cluster: no pod; in a context: nil
EmptyPod == Blank("")      \* the pod without a name a failed Create returns

\* Running, as isPodRunning has it: also while it is being terminated.
Running(p) == p.phase = "Running"

\* The image a program is run with.
ImagesOf(u) == IF u \in Configurable THEN Images ELSE {"default"}

Init ==
  /\ \E image \in Images, phase \in {"Pending", "Running", "Ended"} :
       pod \in {NoPod, [Blank(phase) EXCEPT !.image = image]}
  /\ created = 0
  /\ user \in [Users -> [program : Programs, image : Images, stage : {"new"}, at : {"ok"},
                        pod : {NoPod}, since : {0}]]
  /\ \A u \in Users : user[u].image \in ImagesOf(u)
-----------------------------------------------------------------------------
(***************************************************************************)
(* The cluster                                                             *)
(***************************************************************************)
ChangePod(p) == pod' = p /\ UNCHANGED <<created, user>>

PodStarts  == pod.phase = "Pending" /\ ChangePod([pod EXCEPT !.phase = "Running"])
PodEnds    == Running(pod) /\ ChangePod([pod EXCEPT !.phase = "Ended"])
PodEvicted == pod # NoPod /\ ~pod.terminating /\ ChangePod([pod EXCEPT !.terminating = TRUE])
PodGone    == pod.terminating /\ ChangePod(NoPod)

Cluster == PodStarts \/ PodEnds \/ PodEvicted \/ PodGone
-----------------------------------------------------------------------------
(***************************************************************************)
(* CreatePodAndWait and DeletePodAndWait                                   *)
(***************************************************************************)
Deleting(u)  == user[u].stage \in {"abandon", "cleanUp"}
Unmanaged(u) == user[u].program = "unmanaged"

Calling == {"check", "look", "create", "waitStart", "delete", "waitDelete"}

\* What a context keeps of a pod: nothing reads there whether it is being terminated.
Seen(p) == [p EXCEPT !.terminating = FALSE]

Goto(u, at, p) == user' = [user EXCEPT ![u].at = at, ![u].pod = Seen(p)]

\* What a call does when it finds no running pod.
IfNotRunning(u) == IF Deleting(u) THEN "ok" ELSE IF Unmanaged(u) THEN "error" ELSE "create"

\* After checkForLeftOverPod: the pod it has seen, if any, is looked up once more.
AfterCheck(u, seen) ==
  /\ user[u].at = "check"
  /\ user' = [user EXCEPT
       ![u].at    = IF seen = NoPod THEN IfNotRunning(u) ELSE "look",
       ![u].pod   = Seen(seen),
       ![u].since = IF user[u].pod = NoPod THEN created ELSE @]
  /\ UNCHANGED <<pod, created>>

\* Mutant of CheckLeftOver: a pod is taken whatever image it runs.
CheckLeftOverAnyImage(u) == AfterCheck(u, IF pod # NoPod THEN pod ELSE user[u].pod)

\* checkForLeftOverPod: a pod that runs the right image is remembered; a pod of an
\* earlier call is not forgotten.
CheckLeftOver(u) ==
  AfterCheck(u, IF pod.image = user[u].image THEN pod ELSE user[u].pod)

\* Mutant of Look: the first pod is taken of a list that may be empty.
LookUnchecked(u) ==
  /\ user[u].at = "look"
  /\ Goto(u, CASE pod = NoPod  -> "panic"
              [] ~Running(pod) -> IfNotRunning(u)
              [] Deleting(u)   -> "delete"
              [] OTHER         -> "waitStart", pod)
  /\ UNCHANGED <<pod, created>>

\* isPodRunning and refeshPod: the pod is looked up again by its name, with any image.
Look(u) ==
  /\ user[u].at = "look"
  /\ IF pod = NoPod
     THEN Goto(u, "error", user[u].pod)
     ELSE Goto(u, CASE ~Running(pod) -> IfNotRunning(u)
                    [] Deleting(u)   -> "delete"
                    [] OTHER         -> "waitStart", pod)
  /\ UNCHANGED <<pod, created>>

\* createPod.  A pod of that name may exist: any phase of it is in the way.
Create(u) ==
  /\ user[u].at = "create"
  /\ \/ /\ pod # NoPod
        /\ Goto(u, "error", EmptyPod)
        /\ UNCHANGED <<pod, created>>
     \/ /\ pod = NoPod
        /\ created < MaxPods
        /\ created' = created + 1
        /\ pod' = [uid |-> created', by |-> u, image |-> user[u].image,
                   phase |-> "Pending", terminating |-> FALSE]
        /\ \/ Goto(u, "waitStart", pod')
           \/ Goto(u, "error", EmptyPod)

\* waitForPodToStart
WaitStart(u) ==
  /\ user[u].at = "waitStart"
  /\ IF pod = NoPod
     THEN Goto(u, "error", user[u].pod)
     ELSE Goto(u, IF Running(pod) THEN "ok" ELSE "waitStart", pod)
  /\ UNCHANGED <<pod, created>>

\* Mutant of Delete: it does not wait for the end of the pod.
DeleteAndReturn(u) ==
  /\ user[u].at = "delete"
  /\ IF pod = NoPod
     THEN Goto(u, "error", user[u].pod)
     ELSE \E at \in {"ok", "error"} : Goto(u, at, user[u].pod)
  /\ pod' = IF pod = NoPod THEN NoPod ELSE [pod EXCEPT !.terminating = TRUE]
  /\ UNCHANGED created

\* deletePod: the pod of that name, be it the one that was looked at or another one.
Delete(u) ==
  /\ user[u].at = "delete"
  /\ IF pod = NoPod
     THEN Goto(u, "error", user[u].pod)
     ELSE \E at \in {"waitDelete", "error"} : Goto(u, at, user[u].pod)
  /\ pod' = IF pod = NoPod THEN NoPod ELSE [pod EXCEPT !.terminating = TRUE]
  /\ UNCHANGED created

\* waitForPodToDelete
WaitDelete(u) ==
  /\ user[u].at = "waitDelete"
  /\ pod = NoPod
  /\ Goto(u, "ok", user[u].pod)
  /\ UNCHANGED <<pod, created>>

\* Mutant of GiveUp: the wait for the end of the pod has no time-out.
GiveUpNotWaiting(u) ==
  /\ user[u].at \in Calling \ {"waitDelete"}
  /\ Goto(u, "error", IF user[u].at = "create" THEN EmptyPod ELSE user[u].pod)
  /\ UNCHANGED <<pod, created>>

\* A request fails, or one of the two waits has lasted its time-out.
GiveUp(u) ==
  /\ user[u].at \in Calling
  /\ Goto(u, "error", IF user[u].at = "create" THEN EmptyPod ELSE user[u].pod)
  /\ UNCHANGED <<pod, created>>

Request(u) == \/ CheckLeftOver(u) \/ Look(u) \/ Create(u) \/ WaitStart(u)
              \/ Delete(u) \/ WaitDelete(u) \/ GiveUp(u)
-----------------------------------------------------------------------------
(***************************************************************************)
(* The programs                                                            *)
(***************************************************************************)
Over == {"done", "failed"}

\* The stages that may follow the call of a stage.  A duration that is not one ends a
\* program before it begins (GetNetlinkContext).  After its pod has started, Start may
\* fail for the parameters; a collector that could not be built is cleaned up, and what
\* that returns is ignored; one that could not be started the second time is not.
Following(u) ==
  LET ok == user[u].at = "ok"
  IN CASE user[u].stage = "new" ->
            {"failed", CASE user[u].program = "start-debug" -> "debug"
                         [] user[u].program = "stop-debug"  -> "cleanUp"
                         [] OTHER                      -> "construct"}
       [] user[u].stage = "construct" -> IF ok THEN {"start", "abandon"} ELSE {"abandon"}
       [] user[u].stage = "start"     -> IF ok THEN {"poll", "failed"} ELSE {"failed"}
       [] user[u].stage = "poll"      -> {"cleanUp"}
       [] user[u].stage = "abandon"   -> {"failed"}
       [] OTHER                       -> IF ok THEN {"done"} ELSE {"failed"}

\* Mutant of Begins: an unmanaged collection deletes the pod as others do.
BeginsAll(u, stage) == IF stage \in Over \cup {"poll"} THEN "ok" ELSE "check"

\* Where a stage begins: with a call, or at once for DeletePodAndWait of an unmanaged pod.
Begins(u, stage) ==
  IF \/ stage \in Over \cup {"poll"}
     \/ Unmanaged(u) /\ stage \in {"abandon", "cleanUp"}
  THEN "ok" ELSE "check"

\* A call has returned and the program goes on: startDebug, stopDebug,
\* NewDPLLNetlinkCollector, Start, CleanUp.  What it knows ends with its process.
Proceed(u) ==
  /\ user[u].at \in {"ok", "error"} /\ user[u].stage \notin Over
  /\ \E stage \in Following(u) :
       user' = [user EXCEPT
         ![u].stage = stage,
         ![u].at    = Begins(u, stage),
         ![u].pod   = IF stage \in Over THEN NoPod ELSE @,
         ![u].since = IF stage \in Over THEN 0 ELSE @]
  /\ UNCHANGED <<pod, created>>

Next == Cluster \/ \E u \in Users : Request(u) \/ Proceed(u)

\* A program goes on with its call whatever the answers are; the cluster owes nothing.
Fairness == \A u \in Users : WF_vars(Request(u))

Spec == Init /\ [][Next]_vars /\ Fairness
-----------------------------------------------------------------------------
(***************************************************************************)
(* Properties                                                              *)
(***************************************************************************)
Stages == {"new", "construct", "start", "debug", "poll", "abandon", "cleanUp"} \cup Over

Contexts == [program : Programs, image : Images, stage : Stages,
             at : Calling \cup {"ok", "error"}, pod : Pods, since : Nat]

\* The variables have their types.
TypeOK ==
  /\ pod \in Pods
  /\ created \in Nat
  /\ user \in [Users -> Contexts]

\* A pod left over from earlier with another image is never taken for the program's own,
\* neither by the first look nor when it is in the way of Create.  The second look goes
\* by the name alone, so all that is promised of the pod a program goes on with is that
\* it runs, and that it has the program's image or was created by another program since
\* the first look (checkForLeftOverPod and refeshPod, exec_command.go:275-316).
TakesNoLeftOver ==
  \A u \in Users : user[u].at = "ok" /\ user[u].stage \in {"construct", "start", "debug"} =>
    /\ Running(user[u].pod)
    /\ \/ user[u].pod.image = user[u].image
       \/ user[u].pod.uid > user[u].since /\ user[u].pod.by # u

\* A program that has cleaned up, without an error, leaves running neither the pod it
\* last saw running nor one it has created, whoever else has created and deleted pods
\* of the name meanwhile (DeletePodAndWait, exec_command.go:418-448).
NothingLeftRunning ==
  \A u \in Users :
    /\ ~Unmanaged(u) /\ user[u].stage = "cleanUp" /\ user[u].at = "ok"
    /\ Running(pod)
    => pod.by # u /\ ~(Running(user[u].pod) /\ user[u].pod.uid = pod.uid)

\* With --unmanaged-debug-pod a collection neither creates nor deletes the pod, at any
\* of its stages, those of failure included (exec_command.go:362, 419).
UnmanagedUntouched ==
  [][\A u \in Users : Unmanaged(u) /\ user'[u] # user[u] => pod' = pod]_vars

\* Every call returns, also when the pod never starts or never ends (startTimeout,
\* deletionTimeout).
EveryCommandEnds ==
  \A u \in Users : user[u].at \in Calling ~> user[u].at \notin Calling
=============================================================================
