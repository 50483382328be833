-------------------------------- MODULE DebugPodProofs --------------------------------
(***************************************************************************)
(* Theorems about DebugPod, for any number of programs and of pods.  The   *)
(* inductive invariant IInv says of the pod in the cluster what it can be  *)
(* like (ClusterPod), of each program what it knows (Local), and how the   *)
(* two are tied: a pod the program created runs its image (Own); what the  *)
(* program can have done while the pod is one of another image and is      *)
(* older than its first look (Foreign), or is its own and still pending    *)
(* (Starting); and what the pod is after it has cleaned up (Cleaned).      *)
(***************************************************************************)
EXTENDS DebugPod, TLAPS

Starts == {"construct", "start", "debug"}

ClusterPod ==
  /\ pod # NoPod => /\ pod.image \in Images
                    /\ pod.phase \in {"Pending", "Running", "Ended"}
  /\ pod.uid <= created

\* A pod that u may go on with.
Accepted(u, p) ==
  /\ Running(p)
  /\ p.image = user[u].image \/ (p.uid > user[u].since /\ p.by # u)

Local(u) ==
  /\ user[u].stage = "new" => user[u].at = "ok" /\ user[u].pod = NoPod
  /\ user[u].at \in Calling => user[u].stage \in Starts \cup {"abandon", "cleanUp"}
  /\ user[u].at \in {"create", "waitStart"} => user[u].stage \in Starts
  /\ user[u].at \in {"delete", "waitDelete"} => user[u].stage \in {"abandon", "cleanUp"}
  /\ user[u].stage \in {"construct", "debug"} /\ user[u].at = "check" => user[u].pod = NoPod
  /\ Unmanaged(u) => /\ user[u].at \notin {"create", "delete", "waitDelete"}
                     /\ Deleting(u) => user[u].at = "ok"
  /\ user[u].stage \in {"start", "poll"} => user[u].pod.phase # "none"
  /\ user[u].pod.uid <= created
  /\ user[u].since <= created
  /\ user[u].at = "ok" /\ user[u].stage \in Starts => Accepted(u, user[u].pod)

Own(u) == pod.by = u => pod.image = user[u].image

Foreign(u) ==
  pod # NoPod /\ pod.image # user[u].image /\ pod.uid <= user[u].since =>
    /\ user[u].stage \notin {"start", "poll"}
    /\ user[u].stage \in {"construct", "debug"} => user[u].at \in {"check", "create", "error"}

Starting(u) ==
  pod.by = u /\ pod.phase = "Pending" =>
    \/ user[u].stage \in {"abandon", "failed"}
    \/ user[u].stage \in Starts /\ user[u].at \in {"waitStart", "error"}

Cleaned(u) ==
  user[u].stage = "cleanUp" /\ user[u].at = "ok" /\ ~Unmanaged(u) =>
    /\ pod.by = u => pod.phase = "Ended"
    /\ Running(user[u].pod) => pod = NoPod \/ pod.uid # user[u].pod.uid

UserInv(u) == Local(u) /\ Own(u) /\ Foreign(u) /\ Starting(u) /\ Cleaned(u)

IInv == TypeOK /\ ClusterPod /\ \A u \in Users : UserInv(u)
-----------------------------------------------------------------------------
LEMMA BlankPods ==
  /\ NoPod \in Pods /\ NoPod.uid = 0 /\ NoPod.by = Nobody
  /\ NoPod.image = "" /\ NoPod.phase = "none"
  /\ EmptyPod \in Pods /\ EmptyPod.uid = 0 /\ EmptyPod.phase = ""
  BY DEF NoPod, EmptyPod, Blank, Pods

\* A pod that has changed its phase, or is being terminated, is otherwise the same.
LEMMA ChangedPod ==
  ASSUME NEW p \in Pods, NEW phase \in {"Running", "Ended"}
  PROVE  LET q == [p EXCEPT !.phase = phase]
         IN q \in Pods /\ q.phase = phase /\ q.uid = p.uid /\ q.by = p.by /\ q.image = p.image
  BY DEF Pods

LEMMA TerminatingPod ==
  ASSUME NEW p \in Pods
  PROVE  LET q == [p EXCEPT !.terminating = TRUE]
         IN /\ q \in Pods /\ q.phase = p.phase /\ q.uid = p.uid
            /\ q.by = p.by /\ q.image = p.image
  BY DEF Pods

LEMMA InitIInv == Init => IInv
  <1> SUFFICES ASSUME Init PROVE IInv
    OBVIOUS
  <1>1. /\ pod \in Pods /\ pod.uid = 0 /\ pod.by = Nobody /\ created = 0
        /\ pod # NoPod => /\ pod.image \in Images
                          /\ pod.phase \in {"Pending", "Running", "Ended"}
    <2>1. PICK image \in Images, phase \in {"Pending", "Running", "Ended"} :
            pod \in {NoPod, [Blank(phase) EXCEPT !.image = image]}
      BY DEF Init
    <2>2. CASE pod = NoPod
      BY <2>2, BlankPods DEF Init, NoPod, Blank
    <2>3. CASE pod = [Blank(phase) EXCEPT !.image = image]
      BY <2>3 DEF Init, Pods, Blank
    <2> QED
      BY <2>1, <2>2, <2>3
  <1>2. TypeOK /\ ClusterPod
    <2>1. user \in [Users -> Contexts]
      <3>1. ASSUME NEW first \in [program : Programs, image : Images, stage : {"new"},
                                  at : {"ok"}, pod : {NoPod}, since : {0}]
            PROVE  first \in Contexts
        <4>1. NoPod \in Pods /\ "new" \in Stages /\ "ok" \in Calling \cup {"ok", "error"}
          BY BlankPods DEF Stages
        <4>2. {"new"} \subseteq Stages /\ {NoPod} \subseteq Pods /\ {0} \subseteq Nat
          BY <4>1
        <4> QED
          BY <4>1, <4>2 DEF Contexts
      <3> QED
        BY <3>1 DEF Init
    <2> QED
      BY <1>1, <2>1 DEF TypeOK, ClusterPod
  <1>3. ASSUME NEW u \in Users PROVE UserInv(u)
    <2>1. user[u].stage = "new" /\ user[u].at = "ok" /\ user[u].pod = NoPod
      BY DEF Init
    <2>2. pod.by = Nobody /\ created = 0
      BY <1>1
    <2>3. user[u].pod.uid = 0 /\ user[u].since = 0
      <3>1. user[u].pod.uid = 0
        BY <2>1, BlankPods
      <3>2. user[u].since = 0
        BY DEF Init
      <3> QED
        BY <3>1, <3>2
    <2>4. Local(u)
      BY <2>1, <2>2, <2>3 DEF Local, Starts, Calling, Deleting
    <2>5. Foreign(u) /\ Cleaned(u)
      BY <2>1 DEF Foreign, Cleaned
    <2>6. Starting(u) /\ Own(u)
      BY <2>2, NobodyAssumption DEF Starting, Own
    <2> QED
      BY <2>4, <2>5, <2>6 DEF UserInv
  <1> QED
    BY <1>2, <1>3 DEF IInv

\* What a context keeps of a pod.
AsSeen(q, p) == q.uid = p.uid /\ q.by = p.by /\ q.image = p.image /\ q.phase = p.phase

LEMMA SeenPod ==
  ASSUME NEW p \in Pods
  PROVE  Seen(p) \in Pods /\ AsSeen(Seen(p), p)
  BY DEF Seen, AsSeen, Pods

\* What one program's Goto does to all of them.
LEMMA GotoEffect ==
  ASSUME TypeOK, NEW u \in Users, NEW at \in Calling \cup {"ok", "error"},
         NEW p \in Pods, Goto(u, at, p)
  PROVE  /\ user' \in [Users -> Contexts]
         /\ user'[u].at = at /\ user'[u].pod \in Pods /\ AsSeen(user'[u].pod, p)
         /\ user'[u].stage = user[u].stage /\ user'[u].program = user[u].program
         /\ user'[u].image = user[u].image /\ user'[u].since = user[u].since
         /\ \A v \in Users : v # u => user'[v] = user[v]
  <1> DEFINE q == Seen(p)
  <1>1. q \in Pods /\ AsSeen(q, p)
    BY SeenPod
  <1>2. user' = [user EXCEPT ![u].at = at, ![u].pod = q]
    BY DEF Goto
  <1> HIDE DEF q
  <1>3. user \in [Users -> Contexts]
    BY DEF TypeOK
  <1> QED
    BY <1>1, <1>2, <1>3 DEF Contexts

\* A step that changes one program only keeps what is said of the others.
LEMMA OneProgram ==
  ASSUME IInv, NEW u \in Users, UNCHANGED <<pod, created>>, TypeOK', UserInv(u)',
         \A v \in Users : v # u => user'[v] = user[v]
  PROVE  IInv'
  <1>1. ClusterPod'
    BY DEF IInv, ClusterPod
  <1>2. ASSUME NEW v \in Users, v # u PROVE UserInv(v)'
    <2>1. user'[v] = user[v] /\ UserInv(v)
      BY <1>2 DEF IInv
    <2> QED
      BY <2>1 DEF UserInv, Local, Accepted, Own, Foreign, Starting, Cleaned, Unmanaged,
                  Deleting, Running
  <1> QED
    BY <1>1, <1>2 DEF IInv

LEMMA ClusterStep == IInv /\ Cluster => IInv'
  <1> SUFFICES ASSUME IInv, Cluster PROVE IInv'
    OBVIOUS
  <1>1. UNCHANGED <<created, user>>
    BY DEF Cluster, PodStarts, PodEnds, PodEvicted, PodGone, ChangePod
  <1>2. \/ pod' = NoPod
        \/ /\ pod # NoPod
           /\ pod'.uid = pod.uid /\ pod'.by = pod.by /\ pod'.image = pod.image
           /\ \/ pod'.phase = pod.phase
              \/ pod.phase = "Pending" /\ pod'.phase = "Running"
              \/ pod.phase = "Running" /\ pod'.phase = "Ended"
           /\ pod' \in Pods /\ pod' # NoPod
    <2>1. pod \in Pods /\ ClusterPod
      BY DEF IInv, TypeOK
    <2>2. CASE PodStarts
      BY <2>1, <2>2, ChangedPod, BlankPods DEF PodStarts, ChangePod
    <2>3. CASE PodEnds
      BY <2>1, <2>3, ChangedPod, BlankPods DEF PodEnds, ChangePod, Running
    <2>4. CASE PodEvicted
      BY <2>1, <2>4, TerminatingPod, BlankPods DEF PodEvicted, ChangePod, ClusterPod
    <2>5. CASE PodGone
      BY <2>5 DEF PodGone, ChangePod
    <2> QED
      BY <2>2, <2>3, <2>4, <2>5 DEF Cluster
  <1>3. TypeOK'
    BY <1>1, <1>2, BlankPods DEF IInv, TypeOK
  <1>4. ClusterPod'
    <2>1. created \in Nat /\ created' = created /\ ClusterPod
      BY <1>1 DEF IInv, TypeOK
    <2>2. CASE pod' = NoPod
      <3>1. pod'.uid = 0 /\ pod'.by = Nobody
        BY <2>2, BlankPods
      <3>2. created' \in Nat
        BY <2>1
      <3> QED
        BY <2>2, <3>1, <3>2 DEF ClusterPod
    <2>3. CASE pod' # NoPod
      BY <2>1, <2>3, <1>2 DEF ClusterPod
    <2> QED
      BY <2>2, <2>3
  <1>5. ASSUME NEW u \in Users PROVE UserInv(u)'
    <2>1. UserInv(u)
      BY DEF IInv
    <2>2. Local(u)'
      BY <2>1, <1>1 DEF UserInv, Local, Accepted, Unmanaged, Deleting, Running
    <2>3. Foreign(u)' /\ Own(u)'
      BY <2>1, <1>1, <1>2, BlankPods, NobodyAssumption DEF UserInv, Foreign, Own
    <2>4. Starting(u)'
      BY <2>1, <1>1, <1>2, BlankPods, NobodyAssumption DEF UserInv, Starting
    <2>5. Cleaned(u)'
      BY <2>1, <1>1, <1>2, BlankPods, NobodyAssumption
         DEF UserInv, Cleaned, Unmanaged, Running
    <2> QED
      BY <2>2, <2>3, <2>4, <2>5 DEF UserInv
  <1> QED
    BY <1>3, <1>4, <1>5 DEF IInv

-----------------------------------------------------------------------------
(***************************************************************************)
(* The requests, one lemma each                                            *)
(***************************************************************************)
\* What a step of u that leaves the cluster alone has to show.
LEMMA GotoKeepsIInv ==
  ASSUME IInv, NEW u \in Users, NEW at \in Calling \cup {"ok", "error"}, NEW p \in Pods,
         Goto(u, at, p), UNCHANGED <<pod, created>>, UserInv(u)'
  PROVE  IInv'
  <1>1. TypeOK
    BY DEF IInv
  <1>2. TypeOK' /\ \A v \in Users : v # u => user'[v] = user[v]
    BY <1>1, GotoEffect DEF TypeOK
  <1> QED
    BY <1>2, OneProgram

\* The pod in the cluster, and those the programs know, are pods.
LEMMA Known ==
  ASSUME IInv, NEW u \in Users
  PROVE  /\ pod \in Pods /\ user[u].pod \in Pods /\ created \in Nat
         /\ pod.uid \in Nat /\ user[u].pod.uid \in Nat
         /\ pod.uid <= created /\ user[u].pod.uid <= created
         /\ user[u].since \in Nat /\ user[u].since <= created /\ user[u].image \in Images
         /\ user[u].at \in Calling \cup {"ok", "error"}
         /\ ClusterPod /\ UserInv(u)
  <1>1. pod \in Pods /\ user[u].pod \in Pods /\ created \in Nat
        /\ user[u].at \in Calling \cup {"ok", "error"}
        /\ user[u].since \in Nat /\ user[u].image \in Images
    BY DEF IInv, TypeOK, Contexts
  <1>2. ClusterPod /\ UserInv(u)
    BY DEF IInv
  <1>3. pod.uid \in Nat /\ user[u].pod.uid \in Nat
    BY <1>1 DEF Pods
  <1> QED
    BY <1>1, <1>2, <1>3 DEF ClusterPod, UserInv, Local

LEMMA GiveUpKeepsIInv == ASSUME IInv, NEW u \in Users, GiveUp(u) PROVE IInv'
  <1> DEFINE p == IF user[u].at = "create" THEN EmptyPod ELSE user[u].pod
  <1>1. /\ Goto(u, "error", p) /\ UNCHANGED <<pod, created>> /\ user[u].at \in Calling
    BY DEF GiveUp
  <1>2. p \in Pods /\ p.uid <= created /\ (user[u].stage = "start" => p.phase # "none")
    <2>1. CASE user[u].at = "create"
      <3>1. p = EmptyPod
        BY <2>1
      <3>2. p \in Pods /\ p.uid = 0 /\ p.phase # "none"
        BY <3>1, BlankPods
      <3>3. created \in Nat
        BY Known
      <3> HIDE DEF p
      <3> QED
        BY <3>2, <3>3
    <2>2. CASE user[u].at # "create"
      BY <2>2, Known DEF UserInv, Local
    <2> QED
      BY <2>1, <2>2
  <1> HIDE DEF p
  <1>3. /\ user'[u].at = "error" /\ AsSeen(user'[u].pod, p)
        /\ user'[u].stage = user[u].stage /\ user'[u].program = user[u].program
        /\ user'[u].image = user[u].image /\ user'[u].since = user[u].since
    BY <1>1, <1>2, GotoEffect DEF IInv
  <1>4. UserInv(u)
    BY DEF IInv
  <1>5. user[u].stage \in Starts \cup {"abandon", "cleanUp"}
    BY <1>1, <1>4 DEF UserInv, Local
  <1>6. Local(u)'
    BY <1>1, <1>2, <1>3, <1>4, <1>5 DEF UserInv, Local, AsSeen, Unmanaged, Deleting,
                                        Calling, Starts
  <1>7. Own(u)' /\ Foreign(u)' /\ Starting(u)' /\ Cleaned(u)'
    BY <1>1, <1>3, <1>4, <1>5 DEF UserInv, Own, Foreign, Starting, Cleaned, Starts, Calling
  <1> QED
    BY <1>1, <1>2, <1>6, <1>7, GotoKeepsIInv DEF UserInv

LEMMA CheckLeftOverKeepsIInv == ASSUME IInv, NEW u \in Users, CheckLeftOver(u) PROVE IInv'
  <1> DEFINE p == IF pod.image = user[u].image THEN pod ELSE user[u].pod
             q == Seen(p)
             at == IF p = NoPod THEN IfNotRunning(u) ELSE "look"
             since == IF user[u].pod = NoPod THEN created ELSE user[u].since
  <1>1. /\ user' = [user EXCEPT ![u].at = at, ![u].pod = q, ![u].since = since]
        /\ UNCHANGED <<pod, created>> /\ user[u].at = "check"
    BY DEF CheckLeftOver, AfterCheck
  <1>2. p \in Pods /\ p.uid <= created
    BY Known
  <1>3. /\ pod.image = user[u].image => p = pod
        /\ pod.image # user[u].image => p = user[u].pod
        /\ user[u].pod = NoPod => since = created
        /\ user[u].pod # NoPod => since = user[u].since
        /\ since \in Nat /\ since <= created
    BY Known
  <1>4. /\ UserInv(u) /\ ClusterPod /\ TypeOK /\ pod \in Pods /\ pod.uid <= created
        /\ user[u].image \in Images
    BY Known DEF IInv
  <1>5. user[u].stage \in Starts \cup {"abandon", "cleanUp"}
    BY <1>1, <1>4 DEF UserInv, Local, Calling
  <1>6. /\ at \in {"ok", "error", "create", "look"}
        /\ at = "ok" => p = NoPod /\ Deleting(u)
        /\ at = "create" => user[u].stage \in Starts /\ ~Unmanaged(u)
        /\ p = NoPod /\ ~Deleting(u) => at \in {"create", "error"}
    BY <1>5 DEF IfNotRunning, Deleting
  <1>7. q \in Pods /\ AsSeen(q, p)
    BY <1>2, SeenPod
  <1> HIDE DEF p, q, at, since
  <1>8. at \in Calling \cup {"ok", "error"}
    BY <1>6 DEF Calling
  <1>9. /\ user'[u].at = at /\ user'[u].pod = q /\ user'[u].since = since
        /\ user'[u].stage = user[u].stage /\ user'[u].program = user[u].program
        /\ user'[u].image = user[u].image
        /\ user' \in [Users -> Contexts]
        /\ \A v \in Users : v # u => user'[v] = user[v]
    <2>1. user \in [Users -> Contexts]
      BY <1>4 DEF TypeOK
    <2> QED
      BY <1>1, <1>3, <1>7, <1>8, <2>1 DEF Contexts
  <1>10. NoPod.phase = "none" /\ NoPod.by = Nobody /\ NoPod.image \notin Images
    BY BlankPods DEF Images
  <1>11. Local(u)'
    <2>1. user[u].stage = "start" => q.phase # "none"
      <3>1. pod.image = user[u].image => pod.phase # "none"
        BY <1>4, <1>10 DEF ClusterPod
      <3> QED
        BY <1>3, <1>4, <1>7, <3>1 DEF UserInv, Local, AsSeen
    <2> QED
      BY <1>1, <1>2, <1>3, <1>4, <1>5, <1>6, <1>7, <1>9, <2>1
         DEF UserInv, Local, AsSeen, Unmanaged, Deleting, Starts, Calling
  <1>12. Foreign(u)'
    <2>1. user[u].stage = "start" => user[u].pod # NoPod
      BY <1>4, <1>10 DEF UserInv, Local
    <2>2. CASE user[u].stage = "start"
      BY <1>1, <1>3, <1>4, <1>9, <2>1, <2>2 DEF UserInv, Foreign
    <2>3. CASE user[u].stage # "start"
      <3>1. user[u].stage \in {"construct", "debug"} => user[u].pod = NoPod
        BY <1>1, <1>4 DEF UserInv, Local
      <3> QED
        BY <1>1, <1>3, <1>5, <1>6, <1>9, <2>3, <3>1 DEF Foreign, Starts, Deleting
    <2> QED
      BY <2>2, <2>3
  <1>13. Own(u)' /\ Starting(u)'
    BY <1>1, <1>4, <1>9 DEF UserInv, Own, Starting
  <1>14. Cleaned(u)'
    <2>1. p = NoPod => pod.by # u /\ ~Running(q)
      BY <1>3, <1>4, <1>7, <1>10, NobodyAssumption DEF UserInv, Own, Running, AsSeen
    <2> QED
      BY <1>1, <1>6, <1>9, <2>1 DEF Cleaned, Running
  <1>15. TypeOK' /\ UserInv(u)'
    BY <1>1, <1>4, <1>9, <1>11, <1>12, <1>13, <1>14 DEF TypeOK, UserInv
  <1> QED
    BY <1>1, <1>9, <1>15, OneProgram

LEMMA LookKeepsIInv == ASSUME IInv, NEW u \in Users, Look(u) PROVE IInv'
  <1>1. /\ UNCHANGED <<pod, created>> /\ user[u].at = "look"
        /\ UserInv(u) /\ ClusterPod /\ pod \in Pods /\ user[u].pod \in Pods
    BY Known DEF Look
  <1>2. user[u].stage \in Starts \cup {"abandon", "cleanUp"}
    BY <1>1 DEF UserInv, Local, Calling
  <1>3. CASE pod = NoPod
    <2>1. Goto(u, "error", user[u].pod)
      BY <1>3 DEF Look
    <2>2. /\ user'[u].at = "error" /\ AsSeen(user'[u].pod, user[u].pod)
          /\ user'[u].stage = user[u].stage /\ user'[u].program = user[u].program
          /\ user'[u].image = user[u].image /\ user'[u].since = user[u].since
      BY <1>1, <2>1, GotoEffect DEF IInv
    <2>3. UserInv(u)'
      BY <1>1, <1>2, <2>2
         DEF UserInv, Local, Own, Foreign, Starting, Cleaned, AsSeen, Unmanaged, Deleting,
             Calling, Starts
    <2> QED
      BY <1>1, <2>1, <2>3, GotoKeepsIInv
  <1>4. CASE pod # NoPod
    <2> DEFINE at == CASE ~Running(pod) -> IfNotRunning(u)
                       [] Deleting(u)   -> "delete"
                       [] OTHER         -> "waitStart"
    <2>1. Goto(u, at, pod)
      BY <1>4 DEF Look
    <2>2. /\ at \in {"ok", "error", "create", "delete", "waitStart"}
          /\ at = "ok" => Deleting(u) /\ ~Running(pod)
          /\ at = "delete" => Deleting(u)
          /\ at \in {"create", "waitStart"} => user[u].stage \in Starts
          /\ at = "create" => ~Unmanaged(u)
      <3>1. CASE ~Running(pod)
        BY <1>2, <3>1 DEF IfNotRunning, Deleting
      <3>2. CASE Running(pod)
        BY <1>2, <3>2 DEF Deleting
      <3> QED
        BY <3>1, <3>2
    <2> HIDE DEF at
    <2>3. at \in Calling \cup {"ok", "error"}
      BY <2>2 DEF Calling
    <2>4. /\ user'[u].at = at /\ AsSeen(user'[u].pod, pod)
          /\ user'[u].stage = user[u].stage /\ user'[u].program = user[u].program
          /\ user'[u].image = user[u].image /\ user'[u].since = user[u].since
      BY <1>1, <2>1, <2>3, GotoEffect DEF IInv
    <2>5. pod.uid <= created /\ pod.phase # "none"
      BY <1>1, <1>4, Known DEF ClusterPod
    <2>6. Local(u)'
      BY <1>1, <1>2, <2>2, <2>4, <2>5
         DEF UserInv, Local, AsSeen, Unmanaged, Deleting, Starts, Calling
    <2>7. Own(u)' /\ Foreign(u)' /\ Starting(u)'
      BY <1>1, <1>2, <2>4 DEF UserInv, Own, Foreign, Starting, Starts
    <2>8. Cleaned(u)'
      <3>1. ~Running(pod) => pod.phase \in {"Pending", "Ended"}
        BY <1>1, <1>4 DEF ClusterPod, Running
      <3> QED
        BY <1>1, <2>2, <2>4, <3>1 DEF UserInv, Starting, Cleaned, AsSeen, Running, Starts
    <2> QED
      BY <1>1, <2>1, <2>3, <2>6, <2>7, <2>8, GotoKeepsIInv DEF UserInv
  <1> QED
    BY <1>3, <1>4

LEMMA NewPod ==
  ASSUME NEW n \in Nat, NEW u \in Users, NEW image \in Images
  PROVE  LET q == [uid |-> n, by |-> u, image |-> image,
                   phase |-> "Pending", terminating |-> FALSE]
         IN q \in Pods /\ q.uid = n /\ q.by = u /\ q.image = image /\ q.phase = "Pending"
  BY DEF Pods

LEMMA CreateKeepsIInv == ASSUME IInv, NEW u \in Users, Create(u) PROVE IInv'
  <1>1. /\ user[u].at = "create" /\ UserInv(u) /\ ClusterPod
        /\ pod \in Pods /\ created \in Nat
    BY Known DEF Create
  <1>2. user[u].stage \in Starts /\ ~Unmanaged(u)
    BY <1>1 DEF UserInv, Local
  <1>3. CASE pod # NoPod
    <2>1. Goto(u, "error", EmptyPod) /\ UNCHANGED <<pod, created>>
      BY <1>3 DEF Create
    <2>2. /\ user'[u].at = "error" /\ AsSeen(user'[u].pod, EmptyPod)
          /\ user'[u].stage = user[u].stage /\ user'[u].program = user[u].program
          /\ user'[u].image = user[u].image /\ user'[u].since = user[u].since
      BY <2>1, BlankPods, GotoEffect DEF IInv
    <2>3. EmptyPod.uid <= created /\ EmptyPod.phase # "none"
      <3>1. EmptyPod.uid = 0 /\ EmptyPod.phase # "none"
        BY BlankPods
      <3>2. EmptyPod.uid <= created
        BY <1>1, <3>1
      <3> QED
        BY <3>1, <3>2
    <2>4. UserInv(u)'
      BY <1>1, <1>2, <2>1, <2>2, <2>3
         DEF UserInv, Local, Own, Foreign, Starting, Cleaned, AsSeen, Unmanaged, Deleting,
             Calling, Starts
    <2> QED
      BY <2>1, <2>4, BlankPods, GotoKeepsIInv
  <1>4. CASE pod = NoPod
    <2> DEFINE new == [uid |-> created + 1, by |-> u, image |-> user[u].image,
                       phase |-> "Pending", terminating |-> FALSE]
    <2>1. created' = created + 1 /\ pod' = new
      BY <1>4 DEF Create
    <2>2. /\ new \in Pods /\ new.uid = created + 1 /\ new.by = u
          /\ new.image = user[u].image /\ new.image \in Images /\ new.phase = "Pending"
      <3>1. created + 1 \in Nat /\ user[u].image \in Images
        BY <1>1, Known
      <3> QED
        BY <3>1, NewPod
    <2>3. PICK at \in {"waitStart", "error"}, p \in Pods :
            Goto(u, at, p) /\ p \in {new, EmptyPod}
      <3>1. \/ Goto(u, "waitStart", new)
            \/ Goto(u, "error", EmptyPod)
        BY <1>4, <2>1 DEF Create
      <3> QED
        BY <3>1, <2>2, BlankPods
    <2> HIDE DEF new
    <2>4. /\ user' \in [Users -> Contexts]
          /\ user'[u].at = at /\ AsSeen(user'[u].pod, p)
          /\ user'[u].stage = user[u].stage /\ user'[u].program = user[u].program
          /\ user'[u].image = user[u].image /\ user'[u].since = user[u].since
          /\ \A v \in Users : v # u => user'[v] = user[v]
      <3>1. at \in Calling \cup {"ok", "error"}
        BY DEF Calling
      <3> QED
        BY <2>3, <3>1, GotoEffect DEF IInv
    <2>5. TypeOK'
      BY <1>1, <2>1, <2>2, <2>4 DEF TypeOK
    <2>6. ClusterPod'
      <3>1. pod'.uid <= created'
        BY <1>1, <2>1, <2>2
      <3> QED
        BY <2>1, <2>2, <3>1 DEF ClusterPod
    <2>7. UserInv(u)'
      <3>1. p.uid <= created' /\ p.phase # "none"
        <4>1. EmptyPod.uid = 0 /\ EmptyPod.phase # "none"
          BY BlankPods
        <4>2. p.uid \in {0, created + 1}
          BY <2>2, <2>3, <4>1
        <4>3. p.phase # "none"
          BY <2>2, <2>3, <4>1
        <4>4. p.uid <= created'
          BY <1>1, <2>1, <4>2
        <4> QED
          BY <4>3, <4>4
      <3>2. user[u].since <= created'
        BY <1>1, <2>1, Known
      <3>3. Local(u)'
        BY <1>1, <1>2, <2>4, <3>1, <3>2
           DEF UserInv, Local, AsSeen, Unmanaged, Deleting, Starts, Calling
      <3>4. Own(u)' /\ Foreign(u)' /\ Starting(u)' /\ Cleaned(u)'
        BY <1>2, <2>1, <2>2, <2>4 DEF Own, Foreign, Starting, Cleaned, Starts
      <3> QED
        BY <3>3, <3>4 DEF UserInv
    <2>8. ASSUME NEW v \in Users, v # u PROVE UserInv(v)'
      <3>1. user'[v] = user[v] /\ UserInv(v)
        BY <2>4, <2>8 DEF IInv
      <3>2. /\ user[v].pod.uid \in Nat /\ user[v].pod.uid <= created
            /\ user[v].since \in Nat /\ user[v].since <= created
        BY Known
      <3>3. /\ user[v].pod.uid <= created' /\ created + 1 # user[v].pod.uid
            /\ user[v].since <= created' /\ ~(created + 1 <= user[v].since)
        BY <1>1, <2>1, <3>2
      <3>4. Local(v)'
        BY <3>1, <3>3 DEF UserInv, Local, Accepted, Unmanaged, Deleting, Running
      <3>5. Own(v)' /\ Foreign(v)' /\ Starting(v)' /\ Cleaned(v)'
        BY <2>1, <2>2, <2>8, <3>1, <3>3 DEF Own, Foreign, Starting, Cleaned
      <3> QED
        BY <3>4, <3>5 DEF UserInv
    <2> QED
      BY <2>5, <2>6, <2>7, <2>8 DEF IInv
  <1> QED
    BY <1>3, <1>4

LEMMA WaitStartKeepsIInv == ASSUME IInv, NEW u \in Users, WaitStart(u) PROVE IInv'
  <1>1. /\ UNCHANGED <<pod, created>> /\ user[u].at = "waitStart"
        /\ UserInv(u) /\ ClusterPod /\ pod \in Pods /\ user[u].pod \in Pods
    BY Known DEF WaitStart
  <1>2. user[u].stage \in Starts
    BY <1>1 DEF UserInv, Local
  <1>3. PICK p \in Pods, at \in {"ok", "error", "waitStart"} :
          /\ Goto(u, at, p)
          /\ at = "ok" => Running(pod) /\ p = pod
          /\ p \in {pod, user[u].pod} /\ (pod = NoPod => p = user[u].pod)
    <2>1. CASE pod = NoPod
      BY <1>1, <2>1 DEF WaitStart
    <2>2. CASE pod # NoPod /\ Running(pod)
      BY <1>1, <2>2 DEF WaitStart
    <2>3. CASE pod # NoPod /\ ~Running(pod)
      BY <1>1, <2>3 DEF WaitStart
    <2> QED
      BY <2>1, <2>2, <2>3
  <1>4. at \in Calling \cup {"ok", "error"}
    BY DEF Calling
  <1>5. /\ user'[u].at = at /\ AsSeen(user'[u].pod, p)
        /\ user'[u].stage = user[u].stage /\ user'[u].program = user[u].program
        /\ user'[u].image = user[u].image /\ user'[u].since = user[u].since
    BY <1>3, <1>4, GotoEffect DEF IInv
  <1>6. p.uid <= created /\ (user[u].stage = "start" => p.phase # "none")
    <2>1. pod # NoPod => pod.phase # "none"
      BY <1>1 DEF ClusterPod
    <2> QED
      BY <1>1, <1>3, <2>1, Known DEF UserInv, Local
  <1>7. Running(pod) => Accepted(u, pod)
    <2>1. Running(pod) => pod # NoPod
      BY BlankPods DEF Running
    <2>2. pod # NoPod => pod.image = user[u].image \/ ~(pod.uid <= user[u].since)
      BY <1>1, <1>2 DEF UserInv, Foreign, Starts
    <2>3. pod.uid \in Nat /\ user[u].since \in Nat
      BY Known
    <2> QED
      BY <1>1, <2>1, <2>2, <2>3 DEF UserInv, Own, Accepted
  <1>8. Local(u)'
    BY <1>1, <1>2, <1>3, <1>5, <1>6, <1>7
       DEF UserInv, Local, Accepted, AsSeen, Unmanaged, Deleting, Starts, Calling, Running
  <1>9. Own(u)' /\ Foreign(u)' /\ Cleaned(u)'
    BY <1>1, <1>2, <1>5 DEF UserInv, Own, Foreign, Cleaned, Starts
  <1>10. Starting(u)'
    BY <1>1, <1>2, <1>3, <1>5 DEF Starting, Running, AsSeen
  <1> QED
    BY <1>1, <1>3, <1>4, <1>8, <1>9, <1>10, GotoKeepsIInv DEF UserInv

LEMMA DeleteKeepsIInv == ASSUME IInv, NEW u \in Users, Delete(u) PROVE IInv'
  <1>1. /\ user[u].at = "delete" /\ created' = created
        /\ pod \in Pods /\ user[u].pod \in Pods /\ ClusterPod
    BY Known DEF Delete
  <1>2. /\ pod' \in Pods /\ pod'.phase = pod.phase /\ pod'.uid = pod.uid
        /\ pod'.by = pod.by /\ pod'.image = pod.image
        /\ pod = NoPod => pod' = NoPod
    <2>1. CASE pod = NoPod
      BY <1>1, <2>1 DEF Delete
    <2>2. CASE pod # NoPod
      <3>1. pod' = [pod EXCEPT !.terminating = TRUE]
        BY <2>2 DEF Delete
      <3> QED
        BY <1>1, <2>2, <3>1, TerminatingPod
    <2> QED
      BY <2>1, <2>2
  <1>3. PICK at \in {"waitDelete", "error"} : Goto(u, at, user[u].pod)
    BY DEF Delete
  <1>4. /\ user' \in [Users -> Contexts]
        /\ user'[u].at = at /\ AsSeen(user'[u].pod, user[u].pod)
        /\ user'[u].stage = user[u].stage /\ user'[u].program = user[u].program
        /\ user'[u].image = user[u].image /\ user'[u].since = user[u].since
        /\ \A v \in Users : v # u => user'[v] = user[v]
    <2>1. at \in Calling \cup {"ok", "error"}
      BY DEF Calling
    <2> QED
      BY <1>1, <1>3, <2>1, GotoEffect DEF IInv
  <1>5. TypeOK'
    BY <1>1, <1>2, <1>4 DEF IInv, TypeOK
  <1>6. ClusterPod'
    <2>1. pod' # NoPod => pod # NoPod
      BY <1>2
    <2> QED
      BY <1>1, <1>2, <2>1 DEF ClusterPod
  <1>7. UserInv(u)'
    <2>1. UserInv(u) /\ user[u].stage \in {"abandon", "cleanUp"} /\ ~Unmanaged(u)
      BY <1>1, Known DEF UserInv, Local
    <2> QED
      BY <1>1, <1>2, <1>4, <2>1
         DEF UserInv, Local, Own, Foreign, Starting, Cleaned, AsSeen, Unmanaged, Deleting,
             Starts, Calling
  <1>8. ASSUME NEW v \in Users, v # u PROVE UserInv(v)'
    <2>1. user'[v] = user[v] /\ UserInv(v)
      BY <1>4, <1>8 DEF IInv
    <2>2. Local(v)'
      BY <1>1, <2>1 DEF UserInv, Local, Accepted, Unmanaged, Deleting, Running
    <2>3. Own(v)' /\ Foreign(v)' /\ Starting(v)'
      BY <1>2, <2>1 DEF UserInv, Own, Foreign, Starting
    <2>4. Cleaned(v)'
      BY <1>2, <2>1 DEF UserInv, Cleaned, Unmanaged, Running
    <2> QED
      BY <2>2, <2>3, <2>4 DEF UserInv
  <1> QED
    BY <1>5, <1>6, <1>7, <1>8 DEF IInv

LEMMA WaitDeleteKeepsIInv == ASSUME IInv, NEW u \in Users, WaitDelete(u) PROVE IInv'
  <1>1. /\ UNCHANGED <<pod, created>> /\ user[u].at = "waitDelete" /\ pod = NoPod
        /\ Goto(u, "ok", user[u].pod) /\ user[u].pod \in Pods /\ UserInv(u)
    BY Known DEF WaitDelete
  <1>2. user[u].stage \in {"abandon", "cleanUp"}
    BY <1>1 DEF UserInv, Local
  <1>3. /\ user'[u].at = "ok" /\ AsSeen(user'[u].pod, user[u].pod)
        /\ user'[u].stage = user[u].stage /\ user'[u].program = user[u].program
        /\ user'[u].image = user[u].image /\ user'[u].since = user[u].since
    BY <1>1, GotoEffect DEF IInv
  <1>4. pod.by = Nobody /\ pod.image = "" /\ pod.phase = "none"
    BY <1>1, BlankPods
  <1>5. Local(u)'
    BY <1>1, <1>2, <1>3 DEF UserInv, Local, AsSeen, Unmanaged, Deleting, Starts, Calling
  <1>6. Own(u)' /\ Foreign(u)' /\ Starting(u)' /\ Cleaned(u)'
    BY <1>1, <1>4, NobodyAssumption DEF Own, Foreign, Starting, Cleaned
  <1> QED
    BY <1>1, <1>5, <1>6, GotoKeepsIInv DEF UserInv

LEMMA RequestKeepsIInv == ASSUME IInv, NEW u \in Users, Request(u) PROVE IInv'
  BY CheckLeftOverKeepsIInv, LookKeepsIInv, CreateKeepsIInv, WaitStartKeepsIInv,
     DeleteKeepsIInv, WaitDeleteKeepsIInv, GiveUpKeepsIInv DEF Request

-----------------------------------------------------------------------------
(***************************************************************************)
(* The programs                                                            *)
(***************************************************************************)
LEMMA ProceedKeepsIInv == ASSUME IInv, NEW u \in Users, Proceed(u) PROVE IInv'
  <1>1. /\ UNCHANGED <<pod, created>> /\ user[u].at \in {"ok", "error"}
        /\ UserInv(u) /\ TypeOK
        /\ user[u].stage \in Stages \ Over
    <2>1. user[u].stage \in Stages
      BY DEF IInv, TypeOK, Contexts
    <2> QED
      BY <2>1, Known DEF Proceed, IInv
  <1>2. PICK stage \in Following(u) :
          user' = [user EXCEPT ![u].stage = stage,
                               ![u].at    = Begins(u, stage),
                               ![u].pod   = IF stage \in Over THEN NoPod ELSE @,
                               ![u].since = IF stage \in Over THEN 0 ELSE @]
    BY DEF Proceed
  <1> DEFINE at == Begins(u, stage)
             p == IF stage \in Over THEN NoPod ELSE user[u].pod
             since == IF stage \in Over THEN 0 ELSE user[u].since
  <1>3. /\ stage \in Stages \ {"new"}
        /\ stage \in {"construct", "debug"} => user[u].stage = "new"
        /\ stage = "start" => user[u].stage = "construct" /\ user[u].at = "ok"
        /\ stage = "poll" => user[u].stage = "start"
        /\ user[u].stage = "abandon" => stage = "failed"
        /\ user[u].stage \in Starts /\ user[u].at = "error" => stage \in {"abandon", "failed"}
    <2>1. CASE user[u].stage = "new"
      BY <1>1, <1>2, <2>1 DEF Following, Stages, Over, Starts
    <2>2. CASE user[u].stage = "construct"
      BY <1>1, <1>2, <2>2 DEF Following, Stages, Over, Starts
    <2>3. CASE user[u].stage \in {"start", "poll", "abandon"}
      BY <1>1, <1>2, <2>3 DEF Following, Stages, Over, Starts
    <2>4. CASE user[u].stage \in {"debug", "cleanUp"}
      BY <1>1, <1>2, <2>4 DEF Following, Stages, Over, Starts
    <2> QED
      BY <1>1, <2>1, <2>2, <2>3, <2>4 DEF Stages, Over
  <1>4. /\ at \in {"ok", "check"}
        /\ at = "check" => stage \in Starts \cup {"abandon", "cleanUp"}
        /\ stage \in Starts => at = "check"
        /\ Unmanaged(u) /\ stage \in {"abandon", "cleanUp"} => at = "ok"
        /\ ~Unmanaged(u) /\ stage = "cleanUp" => at = "check"
    BY <1>3 DEF Begins, Stages, Over, Starts
  <1>5. /\ p \in Pods /\ p.uid <= created /\ since \in Nat /\ since <= created
        /\ stage \notin Over => p = user[u].pod /\ since = user[u].since
    <2>1. CASE stage \in Over
      <3>1. NoPod \in Pods /\ NoPod.uid = 0 /\ created \in Nat
        BY BlankPods, Known
      <3>2. p = NoPod /\ since = 0
        BY <2>1
      <3> HIDE DEF p, since
      <3> QED
        BY <2>1, <3>1, <3>2
    <2>2. CASE stage \notin Over
      BY <2>2, Known
    <2> QED
      BY <2>1, <2>2
  <1> HIDE DEF at, p, since
  <1>6. /\ user' \in [Users -> Contexts]
        /\ user'[u].stage = stage /\ user'[u].at = at /\ user'[u].pod = p
        /\ user'[u].since = since
        /\ user'[u].program = user[u].program /\ user'[u].image = user[u].image
        /\ \A v \in Users : v # u => user'[v] = user[v]
    <2>1. user' = [user EXCEPT ![u].stage = stage, ![u].at = at, ![u].pod = p,
                               ![u].since = since]
      BY <1>2 DEF at, p, since
    <2>2. at \in Calling \cup {"ok", "error"} /\ stage \in Stages
      BY <1>3, <1>4 DEF Calling
    <2>3. user \in [Users -> Contexts]
      BY <1>1 DEF TypeOK
    <2> QED
      BY <1>5, <2>1, <2>2, <2>3, ZenonT(30) DEF Contexts
  <1>7. TypeOK'
    BY <1>1, <1>6 DEF TypeOK
  <1>8. Local(u)'
    <2>1. stage \in {"start", "poll"} => p.phase # "none"
      <3>1. user[u].stage = "construct" /\ user[u].at = "ok" => user[u].pod.phase = "Running"
        BY <1>1 DEF UserInv, Local, Accepted, Running, Starts
      <3> QED
        BY <1>1, <1>3, <1>5, <3>1 DEF UserInv, Local, Over
    <2>2. stage \in {"construct", "debug"} => p = NoPod
      BY <1>1, <1>3, <1>5 DEF UserInv, Local, Over
    <2> QED
      BY <1>1, <1>3, <1>4, <1>6, <1>5, <2>1, <2>2
         DEF UserInv, Local, Unmanaged, Deleting, Starts, Calling
  <1>9. Foreign(u)' /\ Own(u)'
    BY <1>1, <1>3, <1>4, <1>6, <1>5 DEF UserInv, Own, Foreign, Starts, Over
  <1>10. Starting(u)'
    BY <1>1, <1>3, <1>6 DEF UserInv, Starting, Starts, Over
  <1>11. Cleaned(u)'
    BY <1>4, <1>6 DEF Cleaned, Unmanaged
  <1> QED
    BY <1>1, <1>6, <1>7, <1>8, <1>9, <1>10, <1>11, OneProgram DEF UserInv

LEMMA NextKeepsIInv == IInv /\ [Next]_vars => IInv'
  <1> SUFFICES ASSUME IInv, [Next]_vars PROVE IInv'
    OBVIOUS
  <1>1. CASE Cluster
    BY <1>1, ClusterStep
  <1>2. CASE \E u \in Users : Request(u) \/ Proceed(u)
    BY <1>2, RequestKeepsIInv, ProceedKeepsIInv
  <1>3. CASE UNCHANGED vars
    BY <1>3 DEF vars, IInv, TypeOK, ClusterPod, UserInv, Local, Accepted, Own, Foreign,
                Starting, Cleaned, Unmanaged, Deleting, Running
  <1> QED
    BY <1>1, <1>2, <1>3 DEF Next

LEMMA Inductive == Spec => []IInv
  BY InitIInv, NextKeepsIInv, PTL DEF Spec
-----------------------------------------------------------------------------
(***************************************************************************)
(* The theorems                                                            *)
(***************************************************************************)
\* The variables have their types, with any number of programs.
THEOREM TypeCorrect == Spec => []TypeOK
  <1>1. IInv => TypeOK
    BY DEF IInv
  <1> QED
    BY <1>1, Inductive, PTL

\* No program takes a pod of another image that was there when it first looked
\* (checkForLeftOverPod and waitForPodToStart), whatever the others do meanwhile and
\* whichever images they are run with.
THEOREM LeftOverIsNotTaken == Spec => []TakesNoLeftOver
  <1>1. IInv => TakesNoLeftOver
    BY DEF IInv, UserInv, Local, Accepted, TakesNoLeftOver, Starts
  <1> QED
    BY <1>1, Inductive, PTL

\* What a program that has cleaned up without an error (DeletePodAndWait) leaves
\* running is neither a pod it created nor the pod it last saw running.
THEOREM CleanUpLeavesNone == Spec => []NothingLeftRunning
  <1>1. IInv => NothingLeftRunning
    <2> SUFFICES ASSUME IInv, NEW u \in Users, ~Unmanaged(u), user[u].stage = "cleanUp",
                        user[u].at = "ok", Running(pod)
                 PROVE  pod.by # u /\ ~(Running(user[u].pod) /\ user[u].pod.uid = pod.uid)
      BY DEF NothingLeftRunning
    <2>1. Cleaned(u)
      BY DEF IInv, UserInv
    <2>2. pod # NoPod
      BY BlankPods DEF Running
    <2> QED
      BY <2>1, <2>2 DEF Cleaned, Running
  <1> QED
    BY <1>1, Inductive, PTL

\* With --unmanaged-debug-pod no step of a collection creates or deletes the pod
\* (CreatePodAndWait, DeletePodAndWait), the steps after a failure included.
THEOREM UnmanagedLeavesThePod == Spec => UnmanagedUntouched
  <1> DEFINE Untouched == \A u \in Users : Unmanaged(u) /\ user'[u] # user[u] => pod' = pod
  <1>1. IInv /\ [Next]_vars => [Untouched]_vars
    <2> SUFFICES ASSUME IInv, Next, NEW u \in Users, Unmanaged(u), user'[u] # user[u]
                 PROVE  pod' = pod
      BY DEF Untouched
    <2>1. CASE Cluster
      BY <2>1 DEF Cluster, PodStarts, PodEnds, PodEvicted, PodGone, ChangePod
    <2>2. ASSUME NEW v \in Users, Proceed(v) PROVE pod' = pod
      BY <2>2 DEF Proceed
    <2>3. ASSUME NEW v \in Users, Request(v) PROVE pod' = pod
      <3>1. CASE v = u
        <4>1. user[u].at \notin {"create", "delete"}
          BY DEF IInv, UserInv, Local
        <4> QED
          BY <2>3, <3>1, <4>1
             DEF Request, CheckLeftOver, AfterCheck, Look, Create, WaitStart, Delete,
                 WaitDelete, GiveUp
      <3>2. CASE v # u
        <4>1. \E w : user' = [user EXCEPT ![v] = w]
          BY <2>3 DEF Request, CheckLeftOver, AfterCheck, Look, Create, WaitStart, Delete,
                      WaitDelete, GiveUp, Goto
        <4>2. user \in [Users -> Contexts]
          BY DEF IInv, TypeOK
        <4> QED
          BY <3>2, <4>1, <4>2
      <3> QED
        BY <3>1, <3>2
    <2> QED
      BY <2>1, <2>2, <2>3 DEF Next
  <1> QED
    BY <1>1, Inductive, PTL DEF Spec, UnmanagedUntouched
=======================================================================================
