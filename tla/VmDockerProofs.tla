---------------------------- MODULE VmDockerProofs ----------------------------
(***************************************************************************)
(* The properties of VmDocker for every set of releases, every policy and  *)
(* any number of deaths, lost answers and disturbances.                    *)
(***************************************************************************)
EXTENDS VmDockerInv, TLAPS

(***************************************************************************)
(* Lists of calls.                                                         *)
(***************************************************************************)

LEMMA JoinTasks ==
  ASSUME NEW a \in Seq(TaskType), NEW b \in Seq(TaskType)
  PROVE  /\ a \o b \in Seq(TaskType)
         /\ Tasks(a \o b) = Tasks(a) \cup Tasks(b)
<1>1. /\ a \o b \in Seq(TaskType) /\ Len(a \o b) = Len(a) + Len(b)
      /\ DOMAIN (a \o b) = 1 .. Len(a) + Len(b)
      /\ DOMAIN a = 1 .. Len(a) /\ DOMAIN b = 1 .. Len(b) /\ Len(a) \in Nat /\ Len(b) \in Nat
  OBVIOUS
<1>2. \A i \in DOMAIN a : (a \o b)[i] = a[i]
  OBVIOUS
<1>3. \A i \in DOMAIN b : (a \o b)[Len(a) + i] = b[i]
  OBVIOUS
<1>4. Tasks(a) \subseteq Tasks(a \o b)
  BY <1>1, <1>2 DEF Tasks
<1>5. Tasks(b) \subseteq Tasks(a \o b)
  <2>1. \A i \in DOMAIN b : Len(a) + i \in DOMAIN (a \o b)
    BY <1>1
  <2> QED
    BY <1>3, <2>1 DEF Tasks
<1>6. Tasks(a \o b) \subseteq Tasks(a) \cup Tasks(b)
  <2> SUFFICES ASSUME NEW i \in DOMAIN (a \o b)
               PROVE  (a \o b)[i] \in Tasks(a) \cup Tasks(b)
    BY DEF Tasks
  <2>1. CASE i <= Len(a)
    BY <1>1, <1>2, <2>1 DEF Tasks
  <2>2. CASE i > Len(a)
    <3>1. i - Len(a) \in DOMAIN b /\ i = Len(a) + (i - Len(a))
      BY <1>1, <2>2
    <3> QED
      BY <1>3, <3>1 DEF Tasks
  <2> QED
    BY <1>1, <2>1, <2>2
<1> QED
  BY <1>1, <1>4, <1>5, <1>6

(* Two lists one after the other are in order when each is and every call  *)
(* of the first may come before every call of the second.                  *)
LEMMA JoinOrdered ==
  ASSUME NEW a \in Seq(TaskType), NEW b \in Seq(TaskType),
         Ordered(a), Ordered(b),
         \A s \in Tasks(a), t \in Tasks(b) : Precedes(s.do, t.do)
  PROVE  Ordered(a \o b)
<1>1. /\ DOMAIN (a \o b) = 1 .. Len(a) + Len(b)
      /\ DOMAIN a = 1 .. Len(a) /\ DOMAIN b = 1 .. Len(b) /\ Len(a) \in Nat /\ Len(b) \in Nat
  OBVIOUS
<1>2. \A i \in DOMAIN a : (a \o b)[i] = a[i]
  OBVIOUS
<1>3. \A i \in DOMAIN (a \o b) : i > Len(a) =>
        i - Len(a) \in DOMAIN b /\ (a \o b)[i] = b[i - Len(a)]
  OBVIOUS
<1> SUFFICES ASSUME NEW i \in DOMAIN (a \o b), NEW j \in DOMAIN (a \o b), i < j
             PROVE  Precedes((a \o b)[i].do, (a \o b)[j].do)
  BY DEF Ordered
<1>4. CASE j <= Len(a)
  <2>1. i \in DOMAIN a /\ j \in DOMAIN a
    BY <1>1, <1>4
  <2> QED
    BY <1>2, <2>1 DEF Ordered
<1>5. CASE i > Len(a)
  <2>1. /\ i - Len(a) \in DOMAIN b /\ j - Len(a) \in DOMAIN b /\ i - Len(a) < j - Len(a)
        /\ (a \o b)[i] = b[i - Len(a)] /\ (a \o b)[j] = b[j - Len(a)]
    BY <1>1, <1>3, <1>5
  <2> QED
    BY <2>1 DEF Ordered
<1>6. CASE i <= Len(a) /\ j > Len(a)
  <2>1. (a \o b)[i] \in Tasks(a) /\ (a \o b)[j] \in Tasks(b)
    BY <1>1, <1>2, <1>3, <1>6 DEF Tasks
  <2> QED
    BY <2>1
<1> QED
  BY <1>1, <1>4, <1>5, <1>6

(* The next call and the rest of a list.                                   *)
LEMMA NextTask ==
  ASSUME NEW a \in Seq(TaskType), a # <<>>, Ordered(a)
  PROVE  /\ Head(a) \in Tasks(a) /\ Head(a) \in TaskType
         /\ Tail(a) \in Seq(TaskType) /\ Ordered(Tail(a))
         /\ Tasks(a) = {Head(a)} \cup Tasks(Tail(a))
         /\ \A t \in Tasks(Tail(a)) : Precedes(Head(a).do, t.do)
         /\ Len(a) = 1 => Tasks(Tail(a)) = {}
<1>1. /\ DOMAIN a = 1 .. Len(a) /\ Len(a) \in Nat \ {0}
      /\ Tail(a) \in Seq(TaskType) /\ Len(Tail(a)) = Len(a) - 1
      /\ DOMAIN Tail(a) = 1 .. Len(a) - 1
      /\ Head(a) = a[1] /\ a[1] \in TaskType
  OBVIOUS
<1>2. \A i \in DOMAIN Tail(a) : Tail(a)[i] = a[i + 1] /\ i + 1 \in DOMAIN a
  OBVIOUS
<1>3. Tasks(a) = {Head(a)} \cup Tasks(Tail(a))
  <2>1. \A i \in DOMAIN a : i = 1 \/ (i - 1 \in DOMAIN Tail(a) /\ a[i] = Tail(a)[i - 1])
    BY <1>1, <1>2
  <2>2. 1 \in DOMAIN a
    BY <1>1
  <2>3. Tasks(a) \subseteq {Head(a)} \cup Tasks(Tail(a))
    <3> SUFFICES ASSUME NEW i \in DOMAIN a, i # 1
                 PROVE  a[i] \in Tasks(Tail(a))
      BY <1>1 DEF Tasks
    <3> QED
      BY <2>1 DEF Tasks
  <2>4. Head(a) \in Tasks(a)
    BY <1>1, <2>2 DEF Tasks
  <2>5. Tasks(Tail(a)) \subseteq Tasks(a)
    BY <1>2 DEF Tasks
  <2> QED
    BY <2>3, <2>4, <2>5
<1>4. Ordered(Tail(a))
  BY <1>1, <1>2 DEF Ordered
<1>5. \A t \in Tasks(Tail(a)) : Precedes(Head(a).do, t.do)
  BY <1>1, <1>2 DEF Tasks, Ordered
<1>6. ASSUME Len(a) = 1 PROVE Tasks(Tail(a)) = {}
  <2>1. DOMAIN Tail(a) = {}
    BY <1>1, <1>6
  <2> QED
    BY <2>1 DEF Tasks
<1>7. Head(a) \in Tasks(a)
  BY <1>3
<1> QED
  BY <1>1, <1>3, <1>4, <1>5, <1>6, <1>7

(* A list of calls in order, of the phases from lo to hi.                  *)
Within(a, lo, hi) ==
  /\ a \in Seq(TaskType) /\ Ordered(a)
  /\ \A t \in Tasks(a) : lo <= Phase(t.do) /\ Phase(t.do) <= hi

(* Every call has its phase.                                               *)
LEMMA PhaseIsNatural == \A do : Phase(do) \in 0 .. 10
  BY DEF Phase

(* Two lists whose phases do not overlap make one ordered list.            *)
LEMMA JoinWithin ==
  ASSUME NEW a, NEW b, NEW l \in Nat, NEW h \in Nat, NEW m \in Nat, NEW n \in Nat,
         Within(a, l, h), Within(b, m, n), l <= h, h < m, m <= n
  PROVE  Within(a \o b, l, n) /\ Tasks(a \o b) = Tasks(a) \cup Tasks(b)
<1>1. a \in Seq(TaskType) /\ b \in Seq(TaskType) /\ Ordered(a) /\ Ordered(b)
  BY DEF Within
<1>2. \A s \in Tasks(a), t \in Tasks(b) : Precedes(s.do, t.do)
  BY PhaseIsNatural DEF Within, Precedes
<1>3. a \o b \in Seq(TaskType) /\ Tasks(a \o b) = Tasks(a) \cup Tasks(b) /\ Ordered(a \o b)
  BY <1>1, <1>2, JoinTasks, JoinOrdered
<1>4. \A t \in Tasks(a \o b) : l <= Phase(t.do) /\ Phase(t.do) <= n
  BY <1>3, PhaseIsNatural DEF Within
<1> QED
  BY <1>3, <1>4 DEF Within

(* The calls to Docker are one phase, in any order.                        *)
LEMMA DockingWithin ==
  ASSUME NEW a \in Seq(TaskType), \A t \in Tasks(a) : t.do \in Docking
  PROVE  Within(a, 6, 6)
<1>1. \A do \in Docking : Phase(do) = 6
  BY DEF Phase, Docking, Moving
<1>2. Ordered(a)
  BY DEF Ordered, Precedes, Tasks
<1> QED
  BY <1>1, <1>2 DEF Within

(* More calls to Docker may follow calls to Docker.                        *)
LEMMA JoinDocking ==
  ASSUME NEW a, NEW b, NEW l \in Nat, l <= 6, Within(a, l, 6), Within(b, 6, 6)
  PROVE  Within(a \o b, l, 6) /\ Tasks(a \o b) = Tasks(a) \cup Tasks(b)
<1>1. a \in Seq(TaskType) /\ b \in Seq(TaskType) /\ Ordered(a) /\ Ordered(b)
  BY DEF Within
<1>2. \A do : Phase(do) = 6 => do \in Docking
  BY DEF Phase
<1>3. \A s \in Tasks(a), t \in Tasks(b) : Precedes(s.do, t.do)
  BY <1>2, PhaseIsNatural DEF Within, Precedes
<1>4. a \o b \in Seq(TaskType) /\ Tasks(a \o b) = Tasks(a) \cup Tasks(b) /\ Ordered(a \o b)
  BY <1>1, <1>3, JoinTasks, JoinOrdered
<1>5. \A t \in Tasks(a \o b) : l <= Phase(t.do) /\ Phase(t.do) <= 6
  BY <1>4, PhaseIsNatural DEF Within
<1> QED
  BY <1>4, <1>5 DEF Within

(* The empty list is typed, ordered and within any phases.                 *)
LEMMA NoTask ==
  /\ <<>> \in Seq(TaskType) /\ Tasks(<<>>) = {} /\ Ordered(<<>>)
  /\ \A l, h : Within(<<>>, l, h)
<1>1. <<>> \in Seq(TaskType) /\ Tasks(<<>>) = {} /\ Ordered(<<>>)
  BY DEF Tasks, Ordered
<1> QED
  BY <1>1 DEF Within

(* One call is a list of one phase.                                        *)
LEMMA OneTask ==
  ASSUME NEW x \in TaskType
  PROVE  /\ <<x>> \in Seq(TaskType) /\ Tasks(<<x>>) = {x}
         /\ Within(<<x>>, Phase(x.do), Phase(x.do))
<1>1. <<x>> \in Seq(TaskType) /\ DOMAIN <<x>> = {1} /\ <<x>>[1] = x
  OBVIOUS
<1>2. Tasks(<<x>>) = {x} /\ Ordered(<<x>>)
  BY <1>1 DEF Tasks, Ordered
<1> QED
  BY <1>1, <1>2, PhaseIsNatural DEF Within

(* Two calls are ordered when their phases are.                            *)
LEMMA TwoTasks ==
  ASSUME NEW x \in TaskType, NEW y \in TaskType
  PROVE  /\ <<x, y>> \in Seq(TaskType) /\ Tasks(<<x, y>>) = {x, y}
         /\ Phase(x.do) < Phase(y.do) => Within(<<x, y>>, Phase(x.do), Phase(y.do))
<1>1. <<x, y>> \in Seq(TaskType) /\ DOMAIN <<x, y>> = {1, 2} /\ <<x, y>>[1] = x /\ <<x, y>>[2] = y
  OBVIOUS
<1>2. Tasks(<<x, y>>) = {x, y}
  BY <1>1 DEF Tasks
<1>3. ASSUME Phase(x.do) < Phase(y.do) PROVE Ordered(<<x, y>>)
  BY <1>1, <1>3 DEF Ordered, Precedes
<1> QED
  BY <1>1, <1>2, <1>3, PhaseIsNatural DEF Within

(* The calls made for each of a set of services are among the calls made   *)
(* for one of them.                                                        *)
LEMMA EachTasks ==
  ASSUME NEW order, order[1] \in Services, order[2] \in Services, order[3] \in Services,
         NEW S, NEW calls \in [Services -> Seq(TaskType)], NEW T,
         \A s \in Services : s \in S => Tasks(calls[s]) \subseteq T
  PROVE  /\ ForEach(order, S, calls) \in Seq(TaskType)
         /\ Tasks(ForEach(order, S, calls)) \subseteq T
<1> DEFINE Of(s) == IF s \in S THEN calls[s] ELSE <<>>
<1>1. \A s \in Services : Of(s) \in Seq(TaskType) /\ Tasks(Of(s)) \subseteq T
  BY NoTask
<1>2. ForEach(order, S, calls) = Of(order[1]) \o Of(order[2]) \o Of(order[3])
  BY DEF ForEach
<1> HIDE DEF Of
<1>3. /\ Of(order[1]) \o Of(order[2]) \in Seq(TaskType)
      /\ Tasks(Of(order[1]) \o Of(order[2])) \subseteq T
  BY <1>1, JoinTasks
<1> QED
  BY <1>1, <1>2, <1>3, JoinTasks

(* Well-formed calls of the given kinds on the given services.             *)
On(S, kinds) == {t \in TaskType : WellFormed(t) /\ t.do \in kinds /\ t.s \in S}

(* A call without an object is well formed.                                *)
LEMMA PlainTask ==
  ASSUME NEW do \in Calls \ (Docking \cup {"stageTemplate", "commitTemplate", "render"}),
         NEW v \in {None, "wired"}
  PROVE  /\ Task(do, None, v) \in TaskType /\ WellFormed(Task(do, None, v))
         /\ Task(do, None, v).do = do
         /\ Plain(do) \in TaskType /\ WellFormed(Plain(do)) /\ Plain(do).do = do
  BY DEF Task, Plain, TaskType, WellFormed, Docking, Moving, Calls

(* A call on a container that is there is well formed.                     *)
LEMMA ServiceTask ==
  ASSUME NEW do \in Docking \ {"create"}, NEW s \in Services, NEW v \in {"seen", "made", "any"},
         do \in Moving => v # "any"
  PROVE  Task(do, s, v) \in On({s}, {do}) /\ Task(do, s, v).do = do /\ Task(do, s, v).s = s
  BY DEF Task, TaskType, On, WellFormed, Docking, Moving, Calls

(* A creation is well formed with the image it is given.                   *)
LEMMA CreateTask ==
  ASSUME NEW s \in Services, NEW image \in Images \cup {None}
  PROVE  Task("create", s, image) \in On({s}, {"create"})
  BY DEF Task, TaskType, On, WellFormed, Docking, Moving, Calls

(* Calls on fewer services and of fewer kinds are among those on more.     *)
LEMMA OnMonotone ==
  ASSUME NEW S, NEW S2, S \subseteq S2, NEW kinds, NEW kinds2, kinds \subseteq kinds2
  PROVE  On(S, kinds) \subseteq On(S2, kinds2)
  BY DEF On

(* native_create_vm_container_once creates and starts one service.         *)
LEMMA CreationTasks ==
  ASSUME NEW s \in Services, NEW image \in Images \cup {None}
  PROVE  /\ Creation(s, image) \in Seq(TaskType)
         /\ Tasks(Creation(s, image)) \subseteq On({s}, {"create", "start"})
<1> DEFINE x == Task("create", s, image)
           y == Task("start", s, "made")
<1>1. x \in On({s}, {"create"}) /\ y \in On({s}, {"start"})
  BY CreateTask, ServiceTask DEF Docking, Moving
<1>2. x \in TaskType /\ y \in TaskType /\ {x, y} \subseteq On({s}, {"create", "start"})
  BY <1>1 DEF On
<1>3. Creation(s, image) = <<x, y>>
  BY DEF Creation
<1> HIDE DEF x, y
<1> QED
  BY <1>2, <1>3, TwoTasks

(* recreate_native_vm_container_once also stops and removes it.            *)
LEMMA RecreationTasks ==
  ASSUME NEW s \in Services, NEW image \in Images \cup {None}
  PROVE  /\ Recreation(s, image) \in Seq(TaskType)
         /\ Tasks(Recreation(s, image)) \subseteq On({s}, {"halt", "remove", "create", "start"})
         /\ \E t \in Tasks(Recreation(s, image)) : t.do = "remove"
<1> DEFINE x == Task("halt", s, "seen")
           y == Task("remove", s, "seen")
<1>1. x \in On({s}, {"halt"}) /\ y \in On({s}, {"remove"}) /\ y.do = "remove"
  BY ServiceTask DEF Docking, Moving
<1>2. /\ x \in TaskType /\ y \in TaskType
      /\ {x, y} \subseteq On({s}, {"halt", "remove", "create", "start"})
  BY <1>1 DEF On
<1>3. On({s}, {"create", "start"}) \subseteq On({s}, {"halt", "remove", "create", "start"})
  BY OnMonotone
<1>4. Recreation(s, image) = <<x, y>> \o Creation(s, image)
  BY DEF Recreation
<1> HIDE DEF x, y
<1>5. <<x, y>> \in Seq(TaskType) /\ Tasks(<<x, y>>) = {x, y}
  BY <1>2, TwoTasks
<1>6. /\ Recreation(s, image) \in Seq(TaskType)
      /\ Tasks(Recreation(s, image)) = {x, y} \cup Tasks(Creation(s, image))
  BY <1>4, <1>5, JoinTasks, CreationTasks
<1> QED
  BY <1>1, <1>2, <1>3, <1>6, CreationTasks

(* apply_owned_vm_service_aliases_once reconnects one service.             *)
LEMMA RealiasingTasks ==
  ASSUME NEW s \in Services
  PROVE  /\ Realiasing(s) \in Seq(TaskType) /\ RealiasingAny(s) \in Seq(TaskType)
         /\ Tasks(Realiasing(s)) \subseteq On({s}, {"disconnect", "connect"})
         /\ Tasks(RealiasingAny(s)) \subseteq On({s}, {"disconnect", "connect"})
<1>1. \A v \in {"seen", "any"} :
        LET x == Task("disconnect", s, v)
            y == Task("connect", s, v) IN
        /\ <<x, y>> \in Seq(TaskType)
        /\ Tasks(<<x, y>>) \subseteq On({s}, {"disconnect", "connect"})
  <2> SUFFICES ASSUME NEW v \in {"seen", "any"}
               PROVE  LET x == Task("disconnect", s, v)
                          y == Task("connect", s, v) IN
                      /\ <<x, y>> \in Seq(TaskType)
                      /\ Tasks(<<x, y>>) \subseteq On({s}, {"disconnect", "connect"})
    OBVIOUS
  <2> DEFINE x == Task("disconnect", s, v)
             y == Task("connect", s, v)
  <2>1. x \in On({s}, {"disconnect"}) /\ y \in On({s}, {"connect"})
    BY ServiceTask DEF Docking, Moving
  <2>2. x \in TaskType /\ y \in TaskType /\ {x, y} \subseteq On({s}, {"disconnect", "connect"})
    BY <2>1 DEF On
  <2> HIDE DEF x, y
  <2>3. <<x, y>> \in Seq(TaskType) /\ Tasks(<<x, y>>) \subseteq On({s}, {"disconnect", "connect"})
    BY <2>2, TwoTasks
  <2> QED
    BY <2>3 DEF x, y
<1> QED
  BY <1>1 DEF Realiasing, RealiasingAny

(* The three orders name services only.                                    *)
LEMMA Orders ==
  /\ StartOrder[1] \in Services /\ StartOrder[2] \in Services /\ StartOrder[3] \in Services
  /\ StopOrder[1] \in Services /\ StopOrder[2] \in Services /\ StopOrder[3] \in Services
  /\ ReplaceOrder[1] \in Services /\ ReplaceOrder[2] \in Services /\ ReplaceOrder[3] \in Services
  BY DEF StartOrder, StopOrder, ReplaceOrder, Services, Gateways, Warp

(* Calls to Docker for each of a set of services are one phase.            *)
LEMMA EachDocking ==
  ASSUME NEW order \in {StartOrder, StopOrder, ReplaceOrder}, NEW S,
         NEW calls \in [Services -> Seq(TaskType)], NEW kinds, kinds \subseteq Docking,
         \A s \in Services : s \in S => Tasks(calls[s]) \subseteq On({s}, kinds)
  PROVE  /\ Within(ForEach(order, S, calls), 6, 6)
         /\ ForEach(order, S, calls) \in Seq(TaskType)
         /\ Tasks(ForEach(order, S, calls)) \subseteq On(S, kinds)
<1>1. \A s \in Services : s \in S => Tasks(calls[s]) \subseteq On(S, kinds)
  <2> SUFFICES ASSUME NEW s \in Services, s \in S
               PROVE  Tasks(calls[s]) \subseteq On(S, kinds)
    OBVIOUS
  <2>1. {s} \subseteq S
    OBVIOUS
  <2> QED
    BY <2>1, OnMonotone
<1>2. order[1] \in Services /\ order[2] \in Services /\ order[3] \in Services
  BY Orders
<1>3. /\ ForEach(order, S, calls) \in Seq(TaskType)
      /\ Tasks(ForEach(order, S, calls)) \subseteq On(S, kinds)
  BY <1>1, <1>2, EachTasks
<1> QED
  BY <1>3, DockingWithin DEF On

(* The list of calls of an effector: in order, and within its plan.        *)
Fits(a, step, scope) ==
  /\ a \in Seq(TaskType) /\ Ordered(a)
  /\ \A t \in Tasks(a) : /\ WellFormed(t) /\ t.do \in Repertoire(step)
                         /\ t.do \in Moving => t.s \in scope

Holds(a, do) == \E t \in Tasks(a) : t.do = do

(* One call without an object, as a list.                                  *)
LEMMA PlainWithin ==
  ASSUME NEW do \in Calls \ (Docking \cup {"stageTemplate", "commitTemplate", "render"})
  PROVE  /\ Within(<<Plain(do)>>, Phase(do), Phase(do)) /\ Tasks(<<Plain(do)>>) = {Plain(do)}
         /\ Plain(do).do = do /\ WellFormed(Plain(do)) /\ Plain(do) \in TaskType
  BY PlainTask, OneTask

(* Two calls without an object, the first before the second.               *)
LEMMA PlainTwo ==
  ASSUME NEW d \in Calls \ (Docking \cup {"stageTemplate", "commitTemplate", "render"}),
         NEW e \in Calls \ (Docking \cup {"stageTemplate", "commitTemplate", "render"}),
         Phase(d) < Phase(e)
  PROVE  /\ Within(<<Plain(d), Plain(e)>>, Phase(d), Phase(e))
         /\ Tasks(<<Plain(d), Plain(e)>>) = {Plain(d), Plain(e)}
  BY PlainTask, TwoTasks

(* The calls of apply_native_vm_install_once: a fresh install has a        *)
(* credential to promote.                                                  *)
LEMMA InstallList ==
  ASSUME NEW r \in Releases, NEW fresh \in BOOLEAN
  PROVE  /\ Fits(InstallTasks(r, fresh), "Install", Services)
         /\ fresh => Holds(InstallTasks(r, fresh), "promote")
<1> DEFINE calls == [s \in Services |-> Creation(s, Policy[r].image[s])]
           a == <<Plain("recheck")>>
           b == IF fresh THEN <<Plain("candidate"), Plain("promote")>> ELSE <<>>
           c == <<Plain("stageBundle"), Plain("activateBundle"), Plain("network")>>
           d == ForEach(StartOrder, Services, calls)
           e == <<Plain("verify")>>
<1>1. InstallTasks(r, fresh) = a \o b \o c \o d \o e
  BY DEF InstallTasks
<1>2. /\ Within(a, 0, 0) /\ Tasks(a) = {Plain("recheck")}
      /\ Within(e, 7, 7) /\ Tasks(e) = {Plain("verify")}
  BY PlainWithin DEF Phase, Calls, Docking, Moving, FileTasks
<1>3. Within(b, 1, 2) /\ Tasks(b) = IF fresh THEN {Plain("candidate"), Plain("promote")} ELSE {}
  <2>1. Phase("candidate") = 1 /\ Phase("promote") = 2
    BY DEF Phase
  <2>2. /\ Within(<<Plain("candidate"), Plain("promote")>>, 1, 2)
        /\ Tasks(<<Plain("candidate"), Plain("promote")>>) = {Plain("candidate"), Plain("promote")}
    BY <2>1, PlainTwo DEF Calls, Docking, Moving, FileTasks
  <2> QED
    BY <2>2, NoTask
<1>4. Within(c, 3, 5) /\ Tasks(c) = {Plain("stageBundle"), Plain("activateBundle"), Plain("network")}
  <2>1. c = <<Plain("stageBundle"), Plain("activateBundle")>> \o <<Plain("network")>>
    OBVIOUS
  <2>2. Phase("stageBundle") = 3 /\ Phase("activateBundle") = 4 /\ Phase("network") = 5
    BY DEF Phase, Docking, Moving
  <2>3. /\ Within(<<Plain("stageBundle"), Plain("activateBundle")>>, 3, 4)
        /\ Tasks(<<Plain("stageBundle"), Plain("activateBundle")>>)
             = {Plain("stageBundle"), Plain("activateBundle")}
    BY <2>2, PlainTwo DEF Calls, Docking, Moving, FileTasks
  <2>4. Within(<<Plain("network")>>, 5, 5) /\ Tasks(<<Plain("network")>>) = {Plain("network")}
    BY <2>2, PlainWithin DEF Calls, Docking, Moving, FileTasks
  <2> HIDE DEF c
  <2> QED
    BY <2>1, <2>3, <2>4, JoinWithin
<1>5. Within(d, 6, 6) /\ Tasks(d) \subseteq On(Services, {"create", "start"})
  <2>1. \A s \in Services : Policy[r].image[s] \in Images \cup {None}
    BY PolicyAssumption
  <2>2. calls \in [Services -> Seq(TaskType)]
    BY <2>1, CreationTasks
  <2>3. \A s \in Services : Tasks(calls[s]) \subseteq On({s}, {"create", "start"})
    BY <2>1, CreationTasks
  <2>4. {"create", "start"} \subseteq Docking
    BY DEF Docking, Moving
  <2> HIDE DEF calls
  <2> QED
    BY <2>2, <2>3, <2>4, EachDocking
<1> HIDE DEF a, b, c, d, e
<1>6. Within(a \o b, 0, 2) /\ Tasks(a \o b) = Tasks(a) \cup Tasks(b)
  BY <1>2, <1>3, JoinWithin
<1>7. Within(a \o b \o c, 0, 5) /\ Tasks(a \o b \o c) = Tasks(a) \cup Tasks(b) \cup Tasks(c)
  BY <1>4, <1>6, JoinWithin
<1>8. /\ Within(a \o b \o c \o d, 0, 6)
      /\ Tasks(a \o b \o c \o d) = Tasks(a) \cup Tasks(b) \cup Tasks(c) \cup Tasks(d)
  BY <1>5, <1>7, JoinWithin
<1>9. /\ Within(InstallTasks(r, fresh), 0, 7)
      /\ Tasks(InstallTasks(r, fresh))
           = Tasks(a) \cup Tasks(b) \cup Tasks(c) \cup Tasks(d) \cup Tasks(e)
  BY <1>1, <1>2, <1>8, JoinWithin
<1>10. \A k \in {"recheck", "verify", "candidate", "promote", "stageBundle", "activateBundle",
                 "network"} : Plain(k).do = k /\ WellFormed(Plain(k)) /\ k \notin Moving
  BY PlainWithin DEF Calls, Docking, Moving, FileTasks
<1>11. \A t \in Tasks(InstallTasks(r, fresh)) :
         /\ WellFormed(t) /\ t.do \in Repertoire("Install")
         /\ t.do \in Moving => t.s \in Services
  BY <1>2, <1>3, <1>4, <1>5, <1>9, <1>10 DEF Repertoire, On
<1>12. fresh => Holds(InstallTasks(r, fresh), "promote")
  BY <1>3, <1>9, <1>10 DEF Holds
<1> QED
  BY <1>9, <1>11, <1>12 DEF Fits, Within

(* The calls of apply_native_vm_run_once for START.                        *)
LEMMA StartList ==
  ASSUME Typed, NEW aliases, NEW missing, NEW stopped
  PROVE  Fits(StartTasks(aliases, missing, stopped), "Start", missing \cup stopped \cup aliases)
<1> DEFINE scope == missing \cup stopped \cup aliases
           alias == [s \in Services |-> Realiasing(s)]
           create == [s \in Services |-> Creation(s, stack.pins[s])]
           start == [s \in Services |-> <<Task("start", s, "seen")>>]
           w == IF aliases \cup missing = {} THEN None ELSE "wired"
           a == <<Plain("recheck")>>
           b == ForEach(StartOrder, aliases, alias)
           c == ForEach(StartOrder, missing, create)
           d == ForEach(StartOrder, stopped, start)
           e == <<Task("verify", None, w)>>
           all == StartTasks(aliases, missing, stopped)
<1>1. all = a \o b \o c \o d \o e
  BY DEF StartTasks
<1>2. /\ Within(a, 0, 0) /\ Tasks(a) = {Plain("recheck")}
      /\ Plain("recheck").do = "recheck" /\ WellFormed(Plain("recheck"))
  BY PlainWithin DEF Phase, Calls, Docking, Moving, FileTasks
<1>3. Within(b, 6, 6) /\ Tasks(b) \subseteq On(aliases, {"disconnect", "connect"})
  <2>1. alias \in [Services -> Seq(TaskType)]
    BY RealiasingTasks
  <2>2. \A s \in Services : Tasks(alias[s]) \subseteq On({s}, {"disconnect", "connect"})
    BY RealiasingTasks
  <2>3. {"disconnect", "connect"} \subseteq Docking
    BY DEF Docking
  <2> HIDE DEF alias
  <2> QED
    BY <2>1, <2>2, <2>3, EachDocking
<1>4. Within(c, 6, 6) /\ Tasks(c) \subseteq On(missing, {"create", "start"})
  <2>1. \A s \in Services : stack.pins[s] \in Images \cup {None}
    BY DEF Typed, StackType
  <2>2. create \in [Services -> Seq(TaskType)]
    BY <2>1, CreationTasks
  <2>3. \A s \in Services : Tasks(create[s]) \subseteq On({s}, {"create", "start"})
    BY <2>1, CreationTasks
  <2>4. {"create", "start"} \subseteq Docking
    BY DEF Docking, Moving
  <2> HIDE DEF create
  <2> QED
    BY <2>2, <2>3, <2>4, EachDocking
<1>5. Within(d, 6, 6) /\ Tasks(d) \subseteq On(stopped, {"start"})
  <2>1. \A s \in Services : Task("start", s, "seen") \in On({s}, {"start"})
    BY ServiceTask DEF Docking, Moving
  <2>2. \A s \in Services : /\ <<Task("start", s, "seen")>> \in Seq(TaskType)
                            /\ Tasks(<<Task("start", s, "seen")>>) \subseteq On({s}, {"start"})
    BY <2>1, OneTask DEF On
  <2>3. start \in [Services -> Seq(TaskType)]
    BY <2>2
  <2>4. \A s \in Services : Tasks(start[s]) \subseteq On({s}, {"start"})
    BY <2>2
  <2>5. {"start"} \subseteq Docking
    BY DEF Docking, Moving
  <2> HIDE DEF start
  <2> QED
    BY <2>3, <2>4, <2>5, EachDocking
<1>6. /\ Within(e, 7, 7) /\ Tasks(e) = {Task("verify", None, w)}
      /\ Task("verify", None, w).do = "verify" /\ WellFormed(Task("verify", None, w))
  <2>1. w \in {None, "wired"}
    OBVIOUS
  <2>2. Phase("verify") = 7
    BY DEF Phase, Docking, Moving
  <2> HIDE DEF w
  <2> QED
    BY <2>1, <2>2, PlainTask, OneTask DEF Calls, Docking, Moving, FileTasks
<1> HIDE DEF a, b, c, d, e, w, all
<1>7. Within(a \o b, 0, 6) /\ Tasks(a \o b) = Tasks(a) \cup Tasks(b)
  BY <1>2, <1>3, JoinWithin
<1>8. Within(a \o b \o c, 0, 6) /\ Tasks(a \o b \o c) = Tasks(a) \cup Tasks(b) \cup Tasks(c)
  BY <1>4, <1>7, JoinDocking
<1>9. /\ Within(a \o b \o c \o d, 0, 6)
      /\ Tasks(a \o b \o c \o d) = Tasks(a) \cup Tasks(b) \cup Tasks(c) \cup Tasks(d)
  BY <1>5, <1>8, JoinDocking
<1>10. /\ Within(all, 0, 7)
       /\ Tasks(all) = Tasks(a) \cup Tasks(b) \cup Tasks(c) \cup Tasks(d) \cup Tasks(e)
  BY <1>1, <1>6, <1>9, JoinWithin
<1>11. \A t \in Tasks(all) : /\ WellFormed(t) /\ t.do \in Repertoire("Start")
                             /\ t.do \in Moving => t.s \in scope
  BY <1>2, <1>3, <1>4, <1>5, <1>6, <1>10 DEF Repertoire, On, Moving
<1> QED
  BY <1>10, <1>11 DEF Fits, Within, all

(* A START that restores the lost route calls no container.                *)
LEMMA RepairList == Fits(RepairTasks, "Start", {})
<1> DEFINE b == <<Plain("recheck"), Plain("addRoute")>>
           c == <<Plain("verify")>>
<1>1. RepairTasks = b \o c
  BY DEF RepairTasks
<1>2. Phase("recheck") = 0 /\ Phase("addRoute") = 5 /\ Phase("verify") = 7
  BY DEF Phase, Docking, Moving
<1>3. Within(b, 0, 5) /\ Tasks(b) = {Plain("recheck"), Plain("addRoute")}
  BY <1>2, PlainTwo DEF Calls, Docking, Moving, FileTasks
<1>4. Within(c, 7, 7) /\ Tasks(c) = {Plain("verify")}
  BY <1>2, PlainWithin DEF Calls, Docking, Moving, FileTasks
<1> HIDE DEF b, c
<1>5. Within(RepairTasks, 0, 7) /\ Tasks(RepairTasks) = Tasks(b) \cup Tasks(c)
  BY <1>1, <1>3, <1>4, JoinWithin
<1>6. \A k \in {"recheck", "addRoute", "verify"} :
        Plain(k).do = k /\ WellFormed(Plain(k)) /\ k \notin Moving /\ k \in Repertoire("Start")
  BY PlainWithin DEF Calls, Docking, Moving, FileTasks, Repertoire
<1> QED
  BY <1>3, <1>4, <1>5, <1>6 DEF Fits, Within

(* The calls of apply_native_vm_run_once for STOP.                         *)
LEMMA StopList ==
  ASSUME NEW running
  PROVE  Fits(StopTasks(running), "Stop", running)
<1> DEFINE stop == [s \in Services |-> <<Task("stop", s, "seen")>>]
           a == <<Plain("recheck")>>
           b == ForEach(StopOrder, running, stop)
           c == <<Plain("verify")>>
<1>1. StopTasks(running) = a \o b \o c
  BY DEF StopTasks
<1>2. /\ Within(a, 0, 0) /\ Tasks(a) = {Plain("recheck")}
      /\ Within(c, 7, 7) /\ Tasks(c) = {Plain("verify")}
  BY PlainWithin DEF Phase, Calls, Docking, Moving, FileTasks
<1>3. Within(b, 6, 6) /\ Tasks(b) \subseteq On(running, {"stop"})
  <2>1. \A s \in Services : Task("stop", s, "seen") \in On({s}, {"stop"})
    BY ServiceTask DEF Docking, Moving
  <2>2. \A s \in Services : /\ <<Task("stop", s, "seen")>> \in Seq(TaskType)
                            /\ Tasks(<<Task("stop", s, "seen")>>) \subseteq On({s}, {"stop"})
    BY <2>1, OneTask DEF On
  <2>3. stop \in [Services -> Seq(TaskType)]
    BY <2>2
  <2>4. \A s \in Services : Tasks(stop[s]) \subseteq On({s}, {"stop"})
    BY <2>2
  <2>5. {"stop"} \subseteq Docking
    BY DEF Docking, Moving
  <2> HIDE DEF stop
  <2> QED
    BY <2>3, <2>4, <2>5, EachDocking
<1> HIDE DEF a, b, c
<1>4. Within(a \o b, 0, 6) /\ Tasks(a \o b) = Tasks(a) \cup Tasks(b)
  BY <1>2, <1>3, JoinWithin
<1>5. /\ Within(StopTasks(running), 0, 7)
      /\ Tasks(StopTasks(running)) = Tasks(a) \cup Tasks(b) \cup Tasks(c)
  BY <1>1, <1>2, <1>4, JoinWithin
<1>6. \A k \in {"recheck", "verify"} :
        Plain(k).do = k /\ WellFormed(Plain(k)) /\ k \notin Moving /\ k \in Repertoire("Stop")
  BY PlainWithin DEF Calls, Docking, Moving, FileTasks, Repertoire
<1>7. "stop" \in Repertoire("Stop")
  BY DEF Repertoire
<1> QED
  BY <1>2, <1>3, <1>5, <1>6, <1>7 DEF Fits, Within, On

(* The calls of apply_gateway_image_replace_once: the containers are read  *)
(* back, and pins that are staged are committed.                           *)
LEMMA ImageList ==
  ASSUME NEW target \in [Services -> Images], NEW drift, NEW aliases, NEW commit \in BOOLEAN
  PROVE  LET all == ImageTasks(target, drift, aliases, commit) IN
         /\ Fits(all, "ReplaceImages", drift \cup aliases)
         /\ Holds(all, "verify") /\ (commit => Holds(all, "commitPins"))
         /\ Holds(all, "stagePins") => Holds(all, "commitPins")
<1> DEFINE all == ImageTasks(target, drift, aliases, commit)
           recreate == [s \in Services |-> Recreation(s, target[s])]
           alias == [s \in Services |-> RealiasingAny(s)]
           pins == {Plain("stagePins"), Plain("commitPins")}
           a == <<Plain("recheck")>>
           b == ForEach(ReplaceOrder, drift, recreate)
           c == ForEach(StartOrder, aliases \ drift, alias)
           d == <<Plain("verify")>>
           e == IF commit THEN <<Plain("stagePins"), Plain("commitPins")>> ELSE <<>>
           f == <<Plain("marker")>>
<1>1. all = a \o b \o c \o d \o e \o f
  BY DEF ImageTasks
<1>2. /\ Within(a, 0, 0) /\ Tasks(a) = {Plain("recheck")}
      /\ Within(d, 7, 7) /\ Tasks(d) = {Plain("verify")}
      /\ Within(f, 10, 10) /\ Tasks(f) = {Plain("marker")}
  BY PlainWithin DEF Phase, Calls, Docking, Moving, FileTasks
<1>3. Within(b, 6, 6) /\ Tasks(b) \subseteq On(drift, {"halt", "remove", "create", "start"})
  <2>1. recreate \in [Services -> Seq(TaskType)]
    BY RecreationTasks
  <2>2. \A s \in Services :
          Tasks(recreate[s]) \subseteq On({s}, {"halt", "remove", "create", "start"})
    BY RecreationTasks
  <2>3. {"halt", "remove", "create", "start"} \subseteq Docking
    BY DEF Docking, Moving
  <2> HIDE DEF recreate
  <2> QED
    BY <2>1, <2>2, <2>3, EachDocking
<1>4. Within(c, 6, 6) /\ Tasks(c) \subseteq On(aliases \ drift, {"disconnect", "connect"})
  <2>1. alias \in [Services -> Seq(TaskType)]
    BY RealiasingTasks
  <2>2. \A s \in Services : Tasks(alias[s]) \subseteq On({s}, {"disconnect", "connect"})
    BY RealiasingTasks
  <2>3. {"disconnect", "connect"} \subseteq Docking
    BY DEF Docking
  <2> HIDE DEF alias
  <2> QED
    BY <2>1, <2>2, <2>3, EachDocking
<1>5. Within(e, 8, 9) /\ Tasks(e) = IF commit THEN pins ELSE {}
  <2>1. Phase("stagePins") = 8 /\ Phase("commitPins") = 9
    BY DEF Phase, Docking, Moving
  <2>2. /\ Within(<<Plain("stagePins"), Plain("commitPins")>>, 8, 9)
        /\ Tasks(<<Plain("stagePins"), Plain("commitPins")>>) = pins
    BY <2>1, PlainTwo DEF Calls, Docking, Moving, FileTasks
  <2> QED
    BY <2>2, NoTask
<1> HIDE DEF a, b, c, d, e, f, all
<1>6. Within(a \o b, 0, 6) /\ Tasks(a \o b) = Tasks(a) \cup Tasks(b)
  BY <1>2, <1>3, JoinWithin
<1>7. Within(a \o b \o c, 0, 6) /\ Tasks(a \o b \o c) = Tasks(a) \cup Tasks(b) \cup Tasks(c)
  BY <1>4, <1>6, JoinDocking
<1>8. /\ Within(a \o b \o c \o d, 0, 7)
      /\ Tasks(a \o b \o c \o d) = Tasks(a) \cup Tasks(b) \cup Tasks(c) \cup Tasks(d)
  BY <1>2, <1>7, JoinWithin
<1>9. /\ Within(a \o b \o c \o d \o e, 0, 9)
      /\ Tasks(a \o b \o c \o d \o e)
           = Tasks(a) \cup Tasks(b) \cup Tasks(c) \cup Tasks(d) \cup Tasks(e)
  BY <1>5, <1>8, JoinWithin
<1>10. /\ Within(all, 0, 10)
       /\ Tasks(all)
            = Tasks(a) \cup Tasks(b) \cup Tasks(c) \cup Tasks(d) \cup Tasks(e) \cup Tasks(f)
  BY <1>1, <1>2, <1>9, JoinWithin
<1>11. \A k \in {"recheck", "verify", "stagePins", "commitPins", "marker"} :
         /\ Plain(k).do = k /\ WellFormed(Plain(k)) /\ k \notin Moving
         /\ k \in Repertoire("ReplaceImages")
  BY PlainWithin DEF Calls, Docking, Moving, FileTasks, Repertoire
<1>12. Docking \subseteq Repertoire("ReplaceImages")
  BY DEF Repertoire
<1>13. \A t \in Tasks(b) \cup Tasks(c) :
         /\ WellFormed(t) /\ t.do \in Docking /\ t.s \in drift \cup aliases
         /\ t.do \notin {"stagePins", "commitPins"}
  BY <1>3, <1>4 DEF On, Docking, Moving
<1>14. \A t \in Tasks(all) : /\ WellFormed(t) /\ t.do \in Repertoire("ReplaceImages")
                             /\ t.do \in Moving => t.s \in drift \cup aliases
  BY <1>2, <1>5, <1>10, <1>11, <1>12, <1>13
<1>15. Holds(all, "verify")
  BY <1>2, <1>10, <1>11 DEF Holds
<1>16. ASSUME commit PROVE Holds(all, "commitPins")
  BY <1>5, <1>10, <1>11, <1>16 DEF Holds
<1>17. ASSUME ~commit PROVE ~Holds(all, "stagePins")
  BY <1>2, <1>5, <1>10, <1>11, <1>13, <1>17 DEF Holds
<1> QED
  BY <1>10, <1>14, <1>15, <1>16, <1>17 DEF Fits, Within, all

(* The calls of apply_native_vm_scoped_replace_once, all on the one        *)
(* gateway.                                                                *)
LEMMA ConfigList ==
  ASSUME NEW g \in Gateways, NEW image \in Images \cup {None}
  PROVE  LET all == ConfigTasks(g, image) IN
         /\ Fits(all, "ReplaceConfig", {g})
         /\ Holds(all, "commitTemplate") /\ Holds(all, "render") /\ Holds(all, "remove")
         /\ \A t \in Tasks(all) : t.do \in {"commitTemplate", "render", "remove"} => t.s = g
<1> DEFINE all == ConfigTasks(g, image)
           x == Task("stageTemplate", g, None)
           y == Task("commitTemplate", g, None)
           z == Task("render", g, None)
           a == <<Plain("recheck"), x>>
           b == <<y, z>>
           c == Recreation(g, image)
           d == <<Plain("verify"), Plain("marker")>>
<1>1. all = a \o b \o c \o d
  <2>1. <<Plain("recheck"), x, y, z>> = a \o b
    OBVIOUS
  <2> QED
    BY <2>1 DEF ConfigTasks
<1>2. \A t \in {x, y, z} : t \in TaskType /\ WellFormed(t) /\ t.s = g
  BY DEF Task, TaskType, WellFormed, Docking, Moving, Calls, FileTasks, Services
<1>3. /\ x.do = "stageTemplate" /\ y.do = "commitTemplate" /\ z.do = "render"
      /\ Phase("stageTemplate") = 1 /\ Phase("commitTemplate") = 2 /\ Phase("render") = 3
      /\ Phase("recheck") = 0 /\ Phase("verify") = 7 /\ Phase("marker") = 10
  BY DEF Task, Phase, Docking, Moving
<1>4. \A k \in {"recheck", "verify", "marker"} :
        /\ Plain(k) \in TaskType /\ Plain(k).do = k /\ WellFormed(Plain(k)) /\ k \notin Moving
        /\ k \in Repertoire("ReplaceConfig")
  BY PlainWithin DEF Calls, Docking, Moving, FileTasks, Repertoire
<1> HIDE DEF x, y, z
<1>5. /\ Within(a, 0, 1) /\ Tasks(a) = {Plain("recheck"), x}
      /\ Within(b, 2, 3) /\ Tasks(b) = {y, z}
      /\ Within(d, 7, 10) /\ Tasks(d) = {Plain("verify"), Plain("marker")}
  <2>1. Within(a, 0, 1) /\ Tasks(a) = {Plain("recheck"), x}
    BY <1>2, <1>3, <1>4, TwoTasks
  <2>2. Within(b, 2, 3) /\ Tasks(b) = {y, z}
    BY <1>2, <1>3, TwoTasks
  <2>3. Within(d, 7, 10) /\ Tasks(d) = {Plain("verify"), Plain("marker")}
    BY <1>3, <1>4, TwoTasks
  <2> QED
    BY <2>1, <2>2, <2>3
<1>6. /\ Within(c, 6, 6) /\ Tasks(c) \subseteq On({g}, {"halt", "remove", "create", "start"})
      /\ \E t \in Tasks(c) : t.do = "remove"
  <2>1. g \in Services
    BY DEF Services
  <2>2. {"halt", "remove", "create", "start"} \subseteq Docking
    BY DEF Docking, Moving
  <2> QED
    BY <2>1, <2>2, RecreationTasks, DockingWithin DEF On
<1> HIDE DEF a, b, c, d, all
<1>7. Within(a \o b, 0, 3) /\ Tasks(a \o b) = Tasks(a) \cup Tasks(b)
  BY <1>5, JoinWithin
<1>8. Within(a \o b \o c, 0, 6) /\ Tasks(a \o b \o c) = Tasks(a) \cup Tasks(b) \cup Tasks(c)
  BY <1>6, <1>7, JoinWithin
<1>9. Within(all, 0, 10) /\ Tasks(all) = Tasks(a) \cup Tasks(b) \cup Tasks(c) \cup Tasks(d)
  BY <1>1, <1>5, <1>8, JoinWithin
<1>10. \A k \in {"stageTemplate", "commitTemplate", "render"} :
         k \in Repertoire("ReplaceConfig") /\ k \notin Moving
  BY DEF Repertoire, Moving
<1>11. {"halt", "remove", "create", "start"} \subseteq Repertoire("ReplaceConfig")
  BY DEF Repertoire, Moving
<1>12. \A t \in Tasks(all) : /\ WellFormed(t) /\ t.do \in Repertoire("ReplaceConfig")
                             /\ t.do \in Moving => t.s \in {g}
  BY <1>2, <1>3, <1>4, <1>5, <1>6, <1>9, <1>10, <1>11 DEF On
<1>13. Holds(all, "commitTemplate") /\ Holds(all, "render") /\ Holds(all, "remove")
  BY <1>3, <1>5, <1>6, <1>9 DEF Holds
<1>14. \A t \in Tasks(all) : t.do \in {"commitTemplate", "render", "remove"} => t.s = g
  BY <1>2, <1>4, <1>5, <1>6, <1>9 DEF On
<1> QED
  BY <1>9, <1>12, <1>13, <1>14 DEF Fits, Within, all

(* The calls of apply_native_vm_managed_file_once: a manifest is committed *)
(* for a route the release has and removed for one it has not.             *)
LEMMA ManagedList ==
  ASSUME NEW create \in BOOLEAN, NEW repair \in BOOLEAN
  PROVE  LET all == ManagedTasks(create, repair) IN
         /\ Fits(all, "ReplaceManaged", {})
         /\ Holds(all, "stageManifest") => Holds(all, "commitManifest")
         /\ Holds(all, "commitManifest") => create
         /\ Holds(all, "removeManifest") => ~create
         /\ repair \/ Holds(all, "commitManifest") \/ Holds(all, "removeManifest")
         /\ Holds(all, "removeManifest") => ~Holds(all, "stageManifest")
<1> DEFINE all == ManagedTasks(create, repair)
           r == IF create THEN "addRoute" ELSE "delRoute"
           M == IF repair THEN {"verify"}
                ELSE IF create THEN {"stageManifest", "commitManifest"} ELSE {"removeManifest"}
           a == <<Plain("recheck"), Plain(r)>>
           b == IF repair THEN <<Plain("verify")>>
                ELSE IF create THEN <<Plain("stageManifest"), Plain("commitManifest")>>
                ELSE <<Plain("removeManifest")>>
           c == <<Plain("marker")>>
<1>1. all = a \o b \o c
  BY DEF ManagedTasks
<1>2. /\ Phase("recheck") = 0 /\ Phase(r) = 5 /\ Phase("verify") = 7 /\ Phase("marker") = 10
      /\ Phase("stageManifest") = 8 /\ Phase("commitManifest") = 9 /\ Phase("removeManifest") = 9
      /\ r \in {"addRoute", "delRoute"}
  BY DEF Phase, Docking, Moving
<1>3. \A k \in {"recheck", "addRoute", "delRoute", "verify", "stageManifest", "commitManifest",
               "removeManifest", "marker"} :
        /\ k \in Calls \ (Docking \cup {"stageTemplate", "commitTemplate", "render"})
        /\ Plain(k) \in TaskType /\ Plain(k).do = k /\ WellFormed(Plain(k)) /\ k \notin Moving
        /\ k \in Repertoire("ReplaceManaged")
  BY PlainWithin DEF Calls, Docking, Moving, FileTasks, Repertoire
<1> HIDE DEF r
<1>4. /\ Within(a, 0, 5) /\ Tasks(a) = {Plain("recheck"), Plain(r)}
      /\ Within(c, 10, 10) /\ Tasks(c) = {Plain("marker")}
  BY <1>2, <1>3, PlainTwo, PlainWithin
<1>5. Within(b, 7, 9) /\ Tasks(b) = {Plain(k) : k \in M}
  <2>1. CASE repair
    <3>1. Within(b, 7, 7) /\ Tasks(b) = {Plain("verify")} /\ M = {"verify"}
      BY <1>2, <1>3, <2>1, PlainWithin
    <3> QED
      BY <3>1, PhaseIsNatural DEF Within
  <2>2. CASE ~repair /\ create
    <3>1. /\ Within(b, 8, 9) /\ Tasks(b) = {Plain("stageManifest"), Plain("commitManifest")}
          /\ M = {"stageManifest", "commitManifest"}
      BY <1>2, <1>3, <2>2, PlainTwo
    <3> QED
      BY <3>1, PhaseIsNatural DEF Within
  <2>3. CASE ~repair /\ ~create
    <3>1. Within(b, 9, 9) /\ Tasks(b) = {Plain("removeManifest")} /\ M = {"removeManifest"}
      BY <1>2, <1>3, <2>3, PlainWithin
    <3> QED
      BY <3>1, PhaseIsNatural DEF Within
  <2> QED
    BY <2>1, <2>2, <2>3
<1> HIDE DEF a, b, c, all
<1>6. Within(a \o b, 0, 9) /\ Tasks(a \o b) = Tasks(a) \cup Tasks(b)
  BY <1>4, <1>5, JoinWithin
<1>7. Within(all, 0, 10) /\ Tasks(all) = Tasks(a) \cup Tasks(b) \cup Tasks(c)
  BY <1>1, <1>4, <1>6, JoinWithin
<1>8. /\ M \subseteq {"verify", "stageManifest", "commitManifest", "removeManifest"}
      /\ Tasks(all) = {Plain(k) : k \in M \cup {"recheck", r, "marker"}}
  BY <1>4, <1>5, <1>7
<1>9. \A t \in Tasks(all) : /\ WellFormed(t) /\ t.do \in Repertoire("ReplaceManaged")
                            /\ t.do \in Moving => t.s \in {}
  BY <1>2, <1>3, <1>8
<1>10. \A k \in {"stageManifest", "commitManifest", "removeManifest"} : Holds(all, k) <=> k \in M
  BY <1>2, <1>3, <1>8 DEF Holds
<1> QED
  BY <1>7, <1>9, <1>10 DEF Fits, Within, all

(***************************************************************************)
(* The operation under way.                                                *)
(***************************************************************************)

(* The call that is next is one of the effector's, and no call that is     *)
(* left should have come before it.                                        *)
LEMMA Ahead ==
  ASSUME Typed, Planned, op.todo # <<>>, NEW t, t = Head(op.todo)
  PROVE  /\ t \in TaskType /\ WellFormed(t) /\ t \in Left
         /\ t.do \in Repertoire(op.step) /\ op.step # "Noop" /\ op # NoOp
         /\ t.do \in Moving => t.s \in op.scope
         /\ \A u \in Left : u = t \/ Precedes(t.do, u.do)
<1>1. op.todo \in Seq(TaskType) /\ Ordered(op.todo)
  BY DEF Typed, OpType, Planned
<1>2. t \in TaskType /\ t \in Left /\ \A u \in Left : u = t \/ Precedes(t.do, u.do)
  BY <1>1, NextTask DEF Left
<1>3. WellFormed(t) /\ t.do \in Repertoire(op.step) /\ (t.do \in Moving => t.s \in op.scope)
  BY <1>2 DEF Typed, Planned
<1>4. op.step # "Noop"
  BY <1>3 DEF Repertoire
<1> QED
  BY <1>2, <1>3, <1>4 DEF NoOp

(* What is left after a call is the same operation's, and comes after it.  *)
LEMMA GoesOn ==
  ASSUME Typed, Planned, op.todo # <<>>, NEW t, t = Head(op.todo), op' = Rest, op' # NoOp
  PROVE  /\ op' \in OpType /\ Ordered(op'.todo)
         /\ op'.step = op.step /\ op'.rel = op.rel /\ op'.scope = op.scope
         /\ op'.seen = op.seen
         /\ Left = {t} \cup Left' /\ \A u \in Left' : Precedes(t.do, u.do)
<1>1. op.todo \in Seq(TaskType) /\ Ordered(op.todo)
  BY DEF Typed, OpType, Planned
<1>2. /\ Tail(op.todo) \in Seq(TaskType) /\ Ordered(Tail(op.todo))
      /\ Left = {t} \cup Tasks(Tail(op.todo))
      /\ \A u \in Tasks(Tail(op.todo)) : Precedes(t.do, u.do)
  BY <1>1, NextTask DEF Left
<1>3. op' = [op EXCEPT !.todo = Tail(@)]
  BY DEF Rest
<1>4. /\ op'.todo = Tail(op.todo) /\ op' \in OpType
      /\ op'.step = op.step /\ op'.rel = op.rel /\ op'.scope = op.scope /\ op'.seen = op.seen
  BY <1>2, <1>3 DEF Typed, OpType
<1> QED
  BY <1>2, <1>4 DEF Left

(* A call that was due has just been made or is still due.                 *)
LEMMA DueNext ==
  ASSUME NEW t, Left = {t} \cup Left', \A u \in Left' : Precedes(t.do, u.do)
  PROVE  \A k : /\ Due(k) => t.do = k \/ Due(k)'
                /\ Due(k)' => Due(k) /\ Precedes(t.do, k)
  BY DEF Due

(* An operation that has ended leaves nothing to be said of it.            *)
LEMMA Ended ==
  ASSUME op' = NoOp
  PROVE  /\ op' \in OpType /\ Left' = {} /\ (\A t \in Left : WellFormed(t))'
         /\ Planned' /\ ImagesReplaced' /\ ConfigReplaced' /\ ManagedReplaced'
         /\ ContainersHaveCredential' => Credentialed'
<1>1. op'.todo = <<>> /\ op'.step = "Noop"
  BY DEF NoOp
<1>2. op' \in OpType
  BY NoTask DEF NoOp, OpType
<1>3. Left' = {}
  BY <1>1, NoTask DEF Left
<1>4. Ordered(op'.todo)
  BY <1>1, NoTask
<1> QED
  BY <1>1, <1>2, <1>3, <1>4 DEF Planned, ImagesReplaced, ConfigReplaced, ManagedReplaced, Credentialed

(* The orders of calls the invariant rests on.                             *)
LEMMA OrderFacts ==
  /\ ~Precedes("create", "promote") /\ ~Precedes("activateBundle", "promote")
  /\ ~Precedes("activateBundle", "activateBundle")
  /\ ~Precedes("commitPins", "stagePins") /\ ~Precedes("commitPins", "verify")
  /\ ~Precedes("marker", "commitPins")
  /\ \A d \in Docking : ~Precedes("verify", d)
  /\ ~Precedes("commitTemplate", "stageTemplate") /\ ~Precedes("render", "commitTemplate")
  /\ ~Precedes("remove", "render") /\ ~Precedes("marker", "commitTemplate")
  /\ ~Precedes("marker", "render") /\ ~Precedes("marker", "remove")
  /\ ~Precedes("commitManifest", "stageManifest")
  /\ ~Precedes("marker", "commitManifest") /\ ~Precedes("marker", "removeManifest")
<1>1. /\ Phase("create") = 6 /\ Phase("remove") = 6 /\ Phase("promote") = 2
      /\ Phase("activateBundle") = 4 /\ Phase("verify") = 7 /\ Phase("marker") = 10
      /\ Phase("stagePins") = 8 /\ Phase("commitPins") = 9
      /\ Phase("stageTemplate") = 1 /\ Phase("commitTemplate") = 2 /\ Phase("render") = 3
      /\ Phase("stageManifest") = 8 /\ Phase("commitManifest") = 9 /\ Phase("removeManifest") = 9
      /\ \A d \in Docking : Phase(d) = 6
  BY DEF Phase, Docking, Moving
<1>2. \A k \in {"promote", "activateBundle", "verify", "marker", "stagePins", "commitPins",
                "stageTemplate", "commitTemplate", "render", "stageManifest", "commitManifest",
                "removeManifest"} : k \notin Docking
  BY DEF Docking, Moving
<1> QED
  BY <1>1, <1>2 DEF Precedes

(* The step of the world that is taken.                                    *)
LEMMA StepKinds ==
  ASSUME Typed, [Next]_vars
  PROVE  \/ Admission
         \/ /\ op.todo # <<>> /\ Call(Head(op.todo)) /\ op' = Rest /\ faults' = faults
         \/ /\ op.todo # <<>> /\ Effect(Head(op.todo)) /\ op' = NoOp
            /\ faults < MaxFaults /\ faults' = faults + 1
         \/ /\ op.todo # <<>> /\ op' = NoOp /\ UNCHANGED <<con, staging, store, net, route>>
            /\ \/ stack' = stack
               \/ Head(op.todo).do = "marker" /\ stack' = [stack EXCEPT !.marker = Torn]
            /\ faults' = faults \/ (faults < MaxFaults /\ faults' = faults + 1)
         \/ Disturbance
         \/ UNCHANGED vars
<1>1. ASSUME AnswerLost PROVE op.todo # <<>>
  BY <1>1 DEF AnswerLost
<1> QED
  BY <1>1 DEF Next, Proceeds, AnswerLost, Dies, Refuses, Files, Outside

(***************************************************************************)
(* What one call does.                                                     *)
(***************************************************************************)

(* A container is what a call to Docker changes, and at most the one it    *)
(* names: what starts reads the rendered file, nothing but a creation adds *)
(* a container.                                                            *)
ContainerMove(t) ==
  /\ t.s \in Services /\ UNCHANGED <<stack, staging, store, net, route>>
  /\ \E c \in ContainerType :
       /\ con' = [con EXCEPT ![t.s] = c]
       /\ \/ c = Absent /\ t.do = "remove"
          \/ /\ c.id = "made" /\ ~c.run /\ t.do = "create" /\ con[t.s].id = None
          \/ /\ t.do \notin {"remove", "create"}
             /\ c.id = con[t.s].id /\ c.id # None /\ c.image = con[t.s].image
             /\ c.run => c.cfg = (IF con[t.s].run THEN con[t.s].cfg ELSE Loaded(t.s))
             /\ \/ c.run = con[t.s].run
                \/ t.do \in {"stop", "halt", "start"}
       /\ t.do \in Moving \ {"create"} => con[t.s].id \in {"seen", "made"}

(* A process reads a rendered template or none.                            *)
LEMMA LoadedTyped ==
  ASSUME Typed, NEW s \in Services
  PROVE  Loaded(s) \in Templates \cup {None}
  BY DEF Loaded, Typed, StackType, Services

(* A call to Docker on a container moves that container as ContainerMove   *)
(* says.                                                                   *)
LEMMA DockingMoves ==
  ASSUME Typed, NEW t, WellFormed(t), Effect(t), t.do \in Docking
  PROVE  ContainerMove(t)
<1>1. t.s \in Services /\ con[t.s] \in ContainerType
  BY DEF WellFormed, Typed
<1>2. Absent \in ContainerType
  BY DEF Absent, ContainerType
<1>3. ASSUME t.do \in Moving \ {"create"}, Names(t) PROVE con[t.s].id \in {"seen", "made"}
  BY <1>3 DEF WellFormed, Names
<1>4. CASE StopContainer(t)
  <2> DEFINE c == [con[t.s] EXCEPT !.run = FALSE]
  <2>1. /\ c \in ContainerType /\ ~c.run /\ c.id = con[t.s].id /\ c.image = con[t.s].image
        /\ c.id # None
    BY <1>1, <1>4 DEF ContainerType, StopContainer, Names, Present
  <2>2. con' = [con EXCEPT ![t.s] = c] /\ UNCHANGED <<stack, staging, store, net, route>>
    BY <1>4 DEF StopContainer, Becomes, Files, Outside
  <2>3. t.do \in {"stop", "halt"} /\ con[t.s].id \in {"seen", "made"}
    BY <1>3, <1>4 DEF StopContainer, Moving
  <2> HIDE DEF c
  <2> QED
    BY <1>1, <2>1, <2>2, <2>3 DEF ContainerMove
<1>5. CASE RemoveContainer(t)
  <2>1. /\ con' = [con EXCEPT ![t.s] = Absent] /\ UNCHANGED <<stack, staging, store, net, route>>
        /\ t.do = "remove"
    BY <1>5 DEF RemoveContainer, Becomes, Files, Outside
  <2>2. con[t.s].id \in {"seen", "made"}
    BY <1>3, <1>5 DEF RemoveContainer, Moving
  <2> QED
    BY <1>1, <1>2, <2>1, <2>2 DEF ContainerMove
<1>6. CASE CreateContainer(t)
  <2> DEFINE c == [id |-> "made", run |-> FALSE, image |-> t.v, cfg |-> None, net |-> "alias"]
  <2>1. c \in ContainerType /\ c.id = "made" /\ ~c.run
    BY <1>6 DEF ContainerType, CreateContainer, WellFormed
  <2>2. /\ con' = [con EXCEPT ![t.s] = c] /\ UNCHANGED <<stack, staging, store, net, route>>
        /\ t.do = "create" /\ con[t.s].id = None
    BY <1>6 DEF CreateContainer, Becomes, Files, Outside, Present
  <2> HIDE DEF c
  <2> QED
    BY <1>1, <2>1, <2>2 DEF ContainerMove
<1>7. CASE StartContainer(t)
  <2> DEFINE x == IF con[t.s].run THEN con[t.s].cfg ELSE Loaded(t.s)
             c == [con[t.s] EXCEPT !.run = TRUE, !.cfg = x]
  <2>1. x \in Templates \cup {None}
    BY <1>1, LoadedTyped DEF ContainerType
  <2>2. con' = [con EXCEPT ![t.s] = c] /\ UNCHANGED <<stack, staging, store, net, route>>
    BY <1>7 DEF StartContainer, Becomes, Files, Outside
  <2>3. t.do = "start" /\ con[t.s].id \in {"seen", "made"} /\ con[t.s].id # None
    BY <1>3, <1>7 DEF StartContainer, Moving, Names, Present
  <2> HIDE DEF x
  <2>4. /\ c \in ContainerType /\ c.run /\ c.id = con[t.s].id /\ c.image = con[t.s].image
        /\ c.cfg = x
    BY <1>1, <2>1 DEF ContainerType
  <2> HIDE DEF c
  <2> QED
    BY <1>1, <2>2, <2>3, <2>4 DEF ContainerMove, x
<1>8. CASE DisconnectNetwork(t) \/ ConnectNetwork(t)
  <2>1. PICK n \in {None, "alias", "noalias", "detached"} :
          con' = [con EXCEPT ![t.s] = [con[t.s] EXCEPT !.net = n]]
    BY <1>1, <1>8 DEF DisconnectNetwork, ConnectNetwork, Becomes, ContainerType
  <2> DEFINE c == [con[t.s] EXCEPT !.net = n]
  <2>2. /\ t.do \notin Moving /\ t.do \notin {"remove", "create"} /\ con[t.s].id # None
        /\ UNCHANGED <<stack, staging, store, net, route>>
    BY <1>8 DEF DisconnectNetwork, ConnectNetwork, Becomes, Files, Outside, Moving, Names, Present
  <2>3. /\ c \in ContainerType /\ c.id = con[t.s].id /\ c.image = con[t.s].image
        /\ c.run = con[t.s].run /\ c.cfg = con[t.s].cfg
    BY <1>1 DEF ContainerType
  <2>4. con' = [con EXCEPT ![t.s] = c]
    BY <2>1
  <2> HIDE DEF c
  <2> QED
    BY <1>1, <2>2, <2>3, <2>4 DEF ContainerMove
<1>9. ~(CreateNetwork(t) \/ ChangeRoute(t) \/ ActivateCredential(t) \/ InstallBundle(t)
        \/ t.do \in FileTasks)
  BY DEF CreateNetwork, ChangeRoute, ActivateCredential, InstallBundle, FileTasks, Docking, Moving
<1> QED
  BY <1>4, <1>5, <1>6, <1>7, <1>8, <1>9 DEF Effect

(* Every other call leaves the containers, and each changes one thing.     *)
LEMMA OtherMoves ==
  ASSUME Typed, NEW t, Effect(t), t.do \notin Docking
  PROVE  /\ con' = con
         /\ \/ /\ net' \in BOOLEAN /\ route' \in {"absent", "present", "foreign"}
               /\ UNCHANGED <<stack, staging, store>>
               /\ t.do \in {"network", "addRoute", "delRoute"}
            \/ ActivateCredential(t)
            \/ InstallBundle(t)
            \/ t.do \in FileTasks /\ WriteFile(t)
<1>1. /\ ~StopContainer(t) /\ ~RemoveContainer(t) /\ ~CreateContainer(t) /\ ~StartContainer(t)
      /\ ~DisconnectNetwork(t) /\ ~ConnectNetwork(t)
  BY DEF StopContainer, RemoveContainer, CreateContainer, StartContainer, DisconnectNetwork,
     ConnectNetwork, Docking, Moving
<1>2. CASE CreateNetwork(t)
  BY <1>2 DEF CreateNetwork, Files, Typed
<1>3. CASE ChangeRoute(t)
  BY <1>3 DEF ChangeRoute, Files, Typed
<1>4. CASE ActivateCredential(t)
  BY <1>4 DEF ActivateCredential
<1>5. CASE InstallBundle(t)
  BY <1>5 DEF InstallBundle
<1>6. CASE t.do \in FileTasks /\ WriteFile(t)
  BY <1>6 DEF WriteFile
<1> QED
  BY <1>1, <1>2, <1>3, <1>4, <1>5, <1>6 DEF Effect

(* What each file call leaves of the stack.                                *)
LEMMA FileWrites ==
  ASSUME Typed, NEW t, WellFormed(t), t.do \in FileTasks, WriteFile(t), op.rel \in Releases
  PROVE  /\ UNCHANGED <<con, staging, store, net, route>>
         /\ stack' \in StackType /\ stack'.there = stack.there
         /\ t.do # "marker" => stack'.marker = stack.marker
         /\ t.do # "commitPins" => stack'.pins = stack.pins
         /\ t.do # "commitTemplate" => stack'.tmpl = stack.tmpl
         /\ t.do # "render" => stack'.rendered = stack.rendered
         /\ t.do \notin {"commitManifest", "removeManifest"} => stack'.route = stack.route
         /\ t.do \in {"render", "removeManifest", "marker"} => stack'.next = stack.next
         /\ t.do \in {"commitPins", "commitTemplate", "commitManifest"} => ~stack'.next
         /\ t.do = "marker" => stack'.marker = op.rel
         /\ t.do = "commitPins" => stack'.pins = Policy[op.rel].image
         /\ t.do = "commitManifest" => stack'.route
         /\ t.do = "removeManifest" => ~stack'.route
         /\ t.do = "commitTemplate" =>
              stack'.tmpl = [stack.tmpl EXCEPT ![t.s] = Policy[op.rel].tmpl[t.s]]
         /\ t.do = "render" =>
              stack'.rendered = [stack.rendered EXCEPT ![t.s] = stack.tmpl[t.s]]
<1> DEFINE new == Policy[op.rel]
<1>1. new \in [image : [Services -> Images], tmpl : [Gateways -> Templates], route : BOOLEAN]
  BY PolicyAssumption
<1>2. UNCHANGED <<con, staging, store, net, route>>
  BY DEF WriteFile, Outside
<1>3. stack \in StackType
  BY DEF Typed
<1>4. CASE t.do \in {"stagePins", "stageTemplate", "stageManifest"}
  <2>1. stack' = [stack EXCEPT !.next = TRUE]
    BY <1>4 DEF WriteFile
  <2> QED
    BY <1>2, <1>3, <1>4, <2>1 DEF StackType
<1>5. CASE t.do = "commitPins"
  <2>1. stack' = [stack EXCEPT !.pins = new.image, !.next = FALSE]
    BY <1>5 DEF WriteFile
  <2>2. new.image \in [Services -> Images \cup {None}]
    BY <1>1
  <2> HIDE DEF new
  <2> QED
    BY <1>2, <1>3, <1>5, <2>1, <2>2 DEF StackType, new
<1>6. CASE t.do = "commitTemplate"
  <2> DEFINE f == [stack.tmpl EXCEPT ![t.s] = new.tmpl[t.s]]
  <2>1. t.s \in Gateways
    BY <1>6 DEF WellFormed
  <2>2. f \in [Gateways -> Templates \cup {None}]
    BY <1>1, <1>3, <2>1 DEF StackType
  <2>3. stack' = [stack EXCEPT !.tmpl = f, !.next = FALSE]
    BY <1>6 DEF WriteFile
  <2> HIDE DEF f
  <2>4. /\ stack' \in StackType /\ stack'.tmpl = f /\ ~stack'.next /\ stack'.there = stack.there
        /\ stack'.marker = stack.marker /\ stack'.pins = stack.pins
        /\ stack'.rendered = stack.rendered /\ stack'.route = stack.route
    BY <1>3, <2>2, <2>3 DEF StackType
  <2> QED
    BY <1>2, <1>6, <2>4 DEF f
<1>7. CASE t.do = "render"
  <2> DEFINE f == [stack.rendered EXCEPT ![t.s] = stack.tmpl[t.s]]
  <2>1. t.s \in Gateways
    BY <1>7 DEF WellFormed
  <2>2. f \in [Gateways -> Templates \cup {None}]
    BY <1>3, <2>1 DEF StackType
  <2>3. stack' = [stack EXCEPT !.rendered = f]
    BY <1>7 DEF WriteFile
  <2> HIDE DEF f
  <2>4. /\ stack' \in StackType /\ stack'.rendered = f /\ stack'.next = stack.next
        /\ stack'.there = stack.there
        /\ stack'.marker = stack.marker /\ stack'.pins = stack.pins
        /\ stack'.tmpl = stack.tmpl /\ stack'.route = stack.route
    BY <1>3, <2>2, <2>3 DEF StackType
  <2> QED
    BY <1>2, <1>7, <2>4 DEF f
<1>8. CASE t.do = "commitManifest"
  <2>1. stack' = [stack EXCEPT !.route = TRUE, !.next = FALSE]
    BY <1>8 DEF WriteFile
  <2> QED
    BY <1>2, <1>3, <1>8, <2>1 DEF StackType
<1>9. CASE t.do = "removeManifest"
  <2>1. stack' = [stack EXCEPT !.route = FALSE]
    BY <1>9 DEF WriteFile
  <2> QED
    BY <1>2, <1>3, <1>9, <2>1 DEF StackType
<1>10. CASE t.do = "marker"
  <2>1. stack' = [stack EXCEPT !.marker = op.rel]
    BY <1>10 DEF WriteFile
  <2> QED
    BY <1>2, <1>3, <1>10, <2>1 DEF StackType
<1> QED
  BY <1>4, <1>5, <1>6, <1>7, <1>8, <1>9, <1>10 DEF FileTasks

(* The effectors that write files or install have a release.               *)
LEMMA ReleaseNamed ==
  ASSUME Planned, NEW t, t.do \in Repertoire(op.step),
         t.do \in FileTasks \cup {"activateBundle", "stageBundle"}
  PROVE  op.rel \in Releases
<1>1. op.step \notin {"Noop", "Stop"}
  BY DEF Repertoire, FileTasks
<1> QED
  BY <1>1 DEF Planned

(* A release's bundle is an installed stack.                               *)
LEMMA BundleTyped ==
  ASSUME NEW r \in Releases
  PROVE  Bundle(r) \in StackType /\ Bundle(r).there
<1>1. Policy[r] \in [image : [Services -> Images], tmpl : [Gateways -> Templates], route : BOOLEAN]
  BY PolicyAssumption
<1>2. /\ Policy[r].image \in [Services -> Images \cup {None}]
      /\ Policy[r].tmpl \in [Gateways -> Templates \cup {None}] /\ Policy[r].route \in BOOLEAN
  BY <1>1
<1> QED
  BY <1>2 DEF Bundle, StackType

(* A call that is carried out keeps the types.                             *)
LEMMA EffectTyped ==
  ASSUME Typed, Planned, NEW t, WellFormed(t), t.do \in Repertoire(op.step), Effect(t)
  PROVE  /\ con' \in [Services -> ContainerType] /\ stack' \in StackType
         /\ staging' \in BOOLEAN /\ net' \in BOOLEAN
         /\ store' \in {"absent", "candidate", "active"}
         /\ route' \in {"absent", "present", "foreign"}
<1>1. CASE t.do \in Docking
  <2>1. ContainerMove(t)
    BY <1>1, DockingMoves
  <2> QED
    BY <2>1 DEF ContainerMove, Typed
<1>2. CASE t.do \notin Docking
  <2>1. con' = con
    BY <1>2, OtherMoves
  <2>2. CASE ActivateCredential(t)
    BY <2>1, <2>2 DEF ActivateCredential, Outside, Typed
  <2>3. CASE InstallBundle(t)
    <3>1. t.do \in {"stageBundle", "activateBundle"}
      BY <2>3 DEF InstallBundle
    <3>2. op.rel \in Releases
      BY <3>1, ReleaseNamed
    <3>3. Bundle(op.rel) \in StackType
      BY <3>2, BundleTyped
    <3> QED
      BY <2>1, <2>3, <3>3 DEF InstallBundle, Outside, Typed
  <2>4. CASE t.do \in FileTasks /\ WriteFile(t)
    <3>1. op.rel \in Releases
      BY <2>4, ReleaseNamed
    <3> QED
      BY <2>1, <2>4, <3>1, FileWrites DEF Typed
  <2> QED
    BY <1>2, <2>1, <2>2, <2>3, <2>4, OtherMoves DEF Typed
<1> QED
  BY <1>1, <1>2

(***************************************************************************)
(* Admission.                                                              *)
(***************************************************************************)
LEMMA BeginEnters ==
  ASSUME Typed, NEW step, NEW r \in Releases \cup {NoRelease}, NEW scope \in SUBSET Services,
         NEW todo, Begin(step, r, scope, todo), Fits(todo, step, scope),
         step \in {"Install", "Start", "Stop", "ReplaceImages", "ReplaceConfig", "ReplaceManaged"},
         step # "Stop" => r \in Releases
  PROVE  /\ Typed' /\ Planned' /\ op = NoOp
         /\ op'.step = step /\ op'.rel = r /\ op'.scope = scope /\ Left' = Tasks(todo)
         /\ \A k : Due(k)' <=> Holds(todo, k)
         /\ UNCHANGED <<stack, staging, store, net, route, faults>>
         /\ \A s \in Services : con'[s].id # None <=> con[s].id # None
<1> DEFINE seen == {<<s, con[s].run, con[s].image>> : s \in {t \in Services : Present(t)}}
<1>1. /\ op = NoOp /\ UNCHANGED <<stack, staging, store, net, route, faults>>
      /\ op' = [step |-> step, rel |-> r, scope |-> scope, todo |-> todo, seen |-> seen]
      /\ con' = [s \in Services |->
                   IF Present(s) THEN [con[s] EXCEPT !.id = "seen"] ELSE Absent]
  BY DEF Begin
<1>2. seen \in SUBSET (Services \X BOOLEAN \X (Images \cup {None}))
  BY DEF Typed, ContainerType
<1>3. todo \in Seq(TaskType)
  BY DEF Fits
<1> HIDE DEF seen
<1>4. /\ op' \in OpType /\ op'.step = step /\ op'.rel = r /\ op'.scope = scope
      /\ op'.todo = todo
  BY <1>1, <1>2, <1>3 DEF OpType
<1>5. \A s \in Services :
        /\ con'[s] \in ContainerType
        /\ con'[s].id # None <=> con[s].id # None
  BY <1>1 DEF Typed, ContainerType, Present, Absent, None
<1>6. con' \in [Services -> ContainerType]
  BY <1>1, <1>5
<1>7. Left' = Tasks(todo)
  BY <1>4 DEF Left
<1>8. Typed'
  <2>1. \A t \in Left' : WellFormed(t)
    BY <1>7 DEF Fits
  <2>2. /\ stack' \in StackType /\ staging' \in BOOLEAN /\ net' \in BOOLEAN
        /\ store' \in {"absent", "candidate", "active"}
        /\ route' \in {"absent", "present", "foreign"} /\ faults' \in 0 .. MaxFaults
    BY <1>1 DEF Typed
  <2> QED
    BY <1>4, <1>6, <2>1, <2>2 DEF Typed
<1>9. Planned'
  <2>1. /\ \A t \in Left' : t.do \in Repertoire(op'.step)
        /\ \A t \in Left' : t.do \in Moving => t.s \in op'.scope
        /\ Ordered(op'.todo)
    BY <1>4, <1>7 DEF Fits
  <2>2. op'.step \notin {"Noop", "Stop"} => op'.rel \in Releases
    BY <1>4
  <2> QED
    BY <2>1, <2>2 DEF Planned
<1> QED
  BY <1>1, <1>4, <1>5, <1>7, <1>8, <1>9 DEF Due, Holds

(* The bundle of a release, field by field.                                *)
LEMMA PolicyTyped ==
  ASSUME NEW r \in Releases
  PROVE  /\ Policy[r].image \in [Services -> Images] /\ Policy[r].tmpl \in [Gateways -> Templates]
         /\ Policy[r].route \in BOOLEAN
<1>1. Policy[r] \in [image : [Services -> Images], tmpl : [Gateways -> Templates], route : BOOLEAN]
  BY PolicyAssumption
<1> QED
  BY <1>1

(* No image and no template differs: they are the release's.               *)
LEMMA NothingChanged ==
  ASSUME Typed, NEW r \in Releases
  PROVE  /\ ChangedImages(r) = {} => stack.pins = Policy[r].image
         /\ ChangedConfigs(r) = {} => stack.tmpl = Policy[r].tmpl
<1>1. stack.pins \in [Services -> Images \cup {None}] /\ stack.tmpl \in [Gateways -> Templates \cup {None}]
  BY DEF Typed, StackType
<1> QED
  BY <1>1, PolicyTyped DEF ChangedImages, ChangedConfigs

(* Without a new container or another store, no container loses its        *)
(* credential.                                                             *)
LEMMA ContainersKept ==
  ASSUME ContainersHaveCredential, stack' = stack, store' = store,
         \A s \in Services : con'[s].id # None => con[s].id # None
  PROVE  ContainersHaveCredential'
  BY DEF ContainersHaveCredential, Present

(* An admitted INSTALL enters the invariant.                               *)
LEMMA InstallEnters ==
  ASSUME Typed, SafeInv, NEW r \in Releases, Install(r)
  PROVE  Typed' /\ SafeInv'
<1> DEFINE fresh == store = "absent"
           todo == InstallTasks(r, fresh)
<1>1. Begin("Install", r, Services, todo) /\ InstallAdmitted
  BY DEF Install
<1>2. fresh \in BOOLEAN
  OBVIOUS
<1> HIDE DEF fresh
<1>3. Fits(todo, "Install", Services) /\ (fresh => Holds(todo, "promote"))
  BY <1>2, InstallList
<1> HIDE DEF todo
<1>4. /\ Typed' /\ Planned' /\ op'.step = "Install" /\ (\A k : Due(k)' <=> Holds(todo, k))
      /\ stack' = stack /\ store' = store
      /\ \A s \in Services : con'[s].id # None => con[s].id # None
  BY <1>1, <1>3, BeginEnters
<1>5. ContainersHaveCredential'
  BY <1>4, ContainersKept DEF SafeInv, Credentialed
<1>6. Credentialed'
  BY <1>1, <1>3, <1>4, <1>5 DEF Credentialed, InstallAdmitted, fresh
<1> QED
  BY <1>4, <1>6 DEF SafeInv, ImagesReplaced, ConfigReplaced, ManagedReplaced

(* An admitted START or STOP enters the invariant.                         *)
LEMMA RunEnters ==
  ASSUME Typed, SafeInv, StopRun \/ \E r \in Releases : StartRun(r)
  PROVE  Typed' /\ SafeInv'
<1>1. ASSUME NEW step \in {"Stop", "Start"}, NEW r \in Releases \cup {NoRelease},
             NEW scope \in SUBSET Services, NEW todo, Begin(step, r, scope, todo),
             Fits(todo, step, scope), step = "Start" => r \in Releases /\ stack.there
      PROVE  Typed' /\ SafeInv'
  <2>1. /\ Typed' /\ Planned' /\ op'.step = step /\ stack' = stack /\ store' = store
        /\ \A s \in Services : con'[s].id # None => con[s].id # None
    BY <1>1, BeginEnters
  <2>2. ContainersHaveCredential'
    BY <2>1, ContainersKept DEF SafeInv, Credentialed
  <2>3. Credentialed'
    BY <1>1, <2>1, <2>2 DEF Credentialed
  <2> QED
    BY <1>1, <2>1, <2>3 DEF SafeInv, ImagesReplaced, ConfigReplaced, ManagedReplaced
<1>2. CASE StopRun
  <2> DEFINE running == {s \in Services : con[s].run}
  <2>1. Begin("Stop", NoRelease, running, StopTasks(running))
    BY <1>2 DEF StopRun
  <2>2. running \in SUBSET Services /\ Fits(StopTasks(running), "Stop", running)
    BY StopList
  <2> HIDE DEF running
  <2> QED
    BY <1>1, <2>1, <2>2
<1>3. ASSUME NEW r \in Releases, StartRun(r) PROVE Typed' /\ SafeInv'
  <2> DEFINE missing == {s \in Services : ~Present(s)}
             stopped == {s \in Services : Present(s) /\ ~con[s].run}
             aliases == IF missing = {} THEN MissingAliases ELSE {}
             scope == missing \cup stopped \cup aliases
  <2>1. /\ stack.there
        /\ \/ Begin("Start", r, scope, StartTasks(aliases, missing, stopped))
           \/ Begin("Start", r, {}, RepairTasks)
    BY <1>3 DEF StartRun
  <2>2. scope \in SUBSET Services
    BY DEF MissingAliases
  <2> HIDE DEF missing, stopped, aliases
  <2>3. Fits(StartTasks(aliases, missing, stopped), "Start", scope) /\ Fits(RepairTasks, "Start", {})
    BY StartList, RepairList
  <2> HIDE DEF scope
  <2> QED
    BY <1>1, <2>1, <2>2, <2>3
<1> QED
  BY <1>2, <1>3

(* An admitted image replacement enters the invariant.                     *)
LEMMA ImagesEnters ==
  ASSUME Typed, SafeInv, NEW r \in Releases, ReplaceImages(r)
  PROVE  Typed' /\ SafeInv'
<1> DEFINE target == Policy[r].image
           commit == stack.pins # target
           drift == ImageDrift(target)
           todo == ImageTasks(target, drift, MissingAliases, commit)
           scope == drift \cup MissingAliases
<1>1. Begin("ReplaceImages", r, scope, todo) /\ ImageAdmitted(r)
  BY DEF ReplaceImages
<1>2. target \in [Services -> Images] /\ commit \in BOOLEAN
  BY PolicyTyped
<1>3. scope \in SUBSET Services
  BY DEF ImageDrift, MissingAliases
<1>4. SameFiles(r) /\ ~stack.next /\ stack.there
  <2>1. ASSUME ImageChange(r) PROVE SameFiles(r) /\ ~stack.next
    BY <2>1 DEF ImageChange
  <2>2. ASSUME StagedDrift(r) PROVE SameFiles(r) /\ ~stack.next
    BY <2>2 DEF StagedDrift, SameStatic
  <2> QED
    BY <1>1, <2>1, <2>2 DEF ImageAdmitted, Replaceable
<1>5. commit \/ stack.pins = Policy[r].image
  OBVIOUS
<1> HIDE DEF commit, drift
<1>6. /\ Fits(todo, "ReplaceImages", scope) /\ Holds(todo, "verify")
      /\ commit => Holds(todo, "commitPins")
      /\ Holds(todo, "stagePins") => Holds(todo, "commitPins")
  BY <1>2, ImageList
<1> HIDE DEF todo, scope
<1>7. /\ Typed' /\ Planned' /\ op'.step = "ReplaceImages" /\ op'.rel = r
      /\ (\A k : Due(k)' <=> Holds(todo, k))
      /\ stack' = stack /\ store' = store
      /\ \A s \in Services : con'[s].id # None => con[s].id # None
  BY <1>1, <1>3, <1>6, BeginEnters
<1>8. ContainersHaveCredential'
  BY <1>7, ContainersKept DEF SafeInv, Credentialed
<1>9. Credentialed'
  BY <1>4, <1>7, <1>8 DEF Credentialed
<1>10. ImagesReplaced'
  BY <1>4, <1>5, <1>6, <1>7 DEF ImagesReplaced, SameFiles, SameStatic
<1> QED
  BY <1>7, <1>9, <1>10 DEF SafeInv, ConfigReplaced, ManagedReplaced

(* An admitted template replacement enters the invariant.                  *)
LEMMA ConfigEnters ==
  ASSUME Typed, SafeInv, NEW r \in Releases, ReplaceConfig(r)
  PROVE  Typed' /\ SafeInv'
<1>1. PICK g \in Gateways :
        /\ Replaceable(r) /\ ChangedImages(r) = {} /\ ChangedConfigs(r) = {g}
        /\ stack.route = Policy[r].route /\ ~stack.next
        /\ Begin("ReplaceConfig", r, {g}, ConfigTasks(g, stack.pins[g]))
  BY DEF ReplaceConfig
<1> DEFINE todo == ConfigTasks(g, stack.pins[g])
<1>2. g \in Services /\ stack.pins[g] \in Images \cup {None} /\ {g} \in SUBSET Services
  BY DEF Typed, StackType, Services
<1>3. /\ Fits(todo, "ReplaceConfig", {g})
      /\ Holds(todo, "commitTemplate") /\ Holds(todo, "render") /\ Holds(todo, "remove")
      /\ \A t \in Tasks(todo) : t.do \in {"commitTemplate", "render", "remove"} => t.s = g
  BY <1>2, ConfigList
<1>4. Begin("ReplaceConfig", r, {g}, todo)
  BY <1>1
<1> HIDE DEF todo
<1>5. /\ Typed' /\ Planned' /\ op'.step = "ReplaceConfig" /\ op'.rel = r /\ op'.scope = {g}
      /\ Left' = Tasks(todo) /\ (\A k : Due(k)' <=> Holds(todo, k))
      /\ stack' = stack /\ store' = store
      /\ \A s \in Services : con'[s].id # None => con[s].id # None
  BY <1>2, <1>3, <1>4, BeginEnters
<1>6. ContainersHaveCredential'
  BY <1>5, ContainersKept DEF SafeInv, Credentialed
<1>7. Credentialed'
  BY <1>1, <1>5, <1>6 DEF Credentialed, Replaceable
<1>8. stack.pins = Policy[r].image /\ \A h \in Gateways \ {g} : stack.tmpl[h] = Policy[r].tmpl[h]
  BY <1>1, NothingChanged DEF ChangedConfigs
<1>9. ConfigReplaced'
  BY <1>1, <1>3, <1>5, <1>8 DEF ConfigReplaced
<1> QED
  BY <1>5, <1>7, <1>9 DEF SafeInv, ImagesReplaced, ManagedReplaced

(* An admitted managed file replacement enters the invariant.              *)
LEMMA ManagedEnters ==
  ASSUME Typed, SafeInv, NEW r \in Releases, ReplaceManaged(r)
  PROVE  Typed' /\ SafeInv'
<1> DEFINE repair == stack.route = Policy[r].route
           create == Policy[r].route
           todo == ManagedTasks(create, repair)
<1>1. /\ Begin("ReplaceManaged", r, {}, todo) /\ Replaceable(r)
      /\ ChangedImages(r) = {} /\ ChangedConfigs(r) = {} /\ ~stack.next
  BY DEF ReplaceManaged
<1>2. create \in BOOLEAN /\ repair \in BOOLEAN
  BY PolicyTyped
<1>3. repair <=> stack.route = Policy[r].route
  OBVIOUS
<1> HIDE DEF repair
<1>4. /\ Fits(todo, "ReplaceManaged", {})
      /\ Holds(todo, "stageManifest") => Holds(todo, "commitManifest")
      /\ Holds(todo, "commitManifest") => create
      /\ Holds(todo, "removeManifest") => ~create
      /\ repair \/ Holds(todo, "commitManifest") \/ Holds(todo, "removeManifest")
  BY <1>2, ManagedList
<1> HIDE DEF todo
<1>5. /\ Typed' /\ Planned' /\ op'.step = "ReplaceManaged" /\ op'.rel = r
      /\ (\A k : Due(k)' <=> Holds(todo, k))
      /\ stack' = stack /\ store' = store
      /\ \A s \in Services : con'[s].id # None => con[s].id # None
  BY <1>1, <1>4, BeginEnters
<1>6. ContainersHaveCredential'
  BY <1>5, ContainersKept DEF SafeInv, Credentialed
<1>7. Credentialed'
  BY <1>1, <1>5, <1>6 DEF Credentialed, Replaceable
<1>8. stack.pins = Policy[r].image /\ stack.tmpl = Policy[r].tmpl
  BY <1>1, NothingChanged
<1>9. ManagedReplaced'
  BY <1>1, <1>3, <1>4, <1>5, <1>8 DEF ManagedReplaced
<1> QED
  BY <1>5, <1>7, <1>9 DEF SafeInv, ImagesReplaced, ConfigReplaced

(***************************************************************************)
(* One call of the operation under way.                                    *)
(***************************************************************************)
LEMMA CheckKeeps ==
  ASSUME NEW t, Check(t)
  PROVE  UNCHANGED <<con, stack, staging, store, net, route>> /\ t.do \in {"recheck", "verify"}
  BY DEF Check, Files, Outside

(* A call, check or effect, keeps the types.                               *)
LEMMA CallTyped ==
  ASSUME Typed, Planned, op.todo # <<>>, Call(Head(op.todo))
  PROVE  /\ con' \in [Services -> ContainerType] /\ stack' \in StackType
         /\ staging' \in BOOLEAN /\ net' \in BOOLEAN
         /\ store' \in {"absent", "candidate", "active"}
         /\ route' \in {"absent", "present", "foreign"}
<1>1. PICK t : t = Head(op.todo)
  OBVIOUS
<1>2. WellFormed(t) /\ t.do \in Repertoire(op.step)
  BY <1>1, Ahead
<1>3. CASE Check(t)
  BY <1>3, CheckKeeps DEF Typed
<1>4. CASE Effect(t)
  BY <1>2, <1>4, EffectTyped
<1> QED
  BY <1>1, <1>3, <1>4 DEF Call

(* A call for which the credential is not there adds neither a container   *)
(* nor a stack: by the order of a first install it comes first.            *)
LEMMA CallCredential ==
  ASSUME Typed, SafeInv, op.todo # <<>>, Call(Head(op.todo))
  PROVE  /\ ContainersHaveCredential'
         /\ store = "active" => store' = "active"
         /\ Head(op.todo).do = "promote" => store' = "active"
         /\ stack.there => stack'.there
         /\ Head(op.todo).do # "activateBundle" => stack'.there = stack.there
<1>1. PICK t : t = Head(op.todo)
  OBVIOUS
<1>2. /\ WellFormed(t) /\ t.do \in Repertoire(op.step) /\ op.step # "Noop"
      /\ \A u \in Left : u = t \/ Precedes(t.do, u.do)
  BY <1>1, Ahead DEF SafeInv
<1>3. CASE Check(t)
  <2>1. UNCHANGED <<con, stack, store>> /\ t.do \in {"recheck", "verify"}
    BY <1>3, CheckKeeps
  <2>2. ContainersHaveCredential'
    BY <2>1 DEF SafeInv, Credentialed, ContainersHaveCredential, Present
  <2> QED
    BY <1>1, <2>1, <2>2
<1>4. ASSUME t.do \in {"create", "activateBundle"} PROVE store = "active"
  <2>1. CASE op.step = "Install"
    <3>1. \A u \in Left : u.do # "promote"
      BY <1>2, <1>4, OrderFacts
    <3> QED
      BY <2>1, <3>1 DEF SafeInv, Credentialed, Due
  <2>2. CASE op.step # "Install"
    <3>1. op.step # "Stop"
      BY <1>2, <1>4 DEF Repertoire
    <3> QED
      BY <1>2, <2>2, <3>1 DEF SafeInv, Credentialed, ContainersHaveCredential
  <2> QED
    BY <2>1, <2>2
<1>5. CASE Effect(t) /\ t.do \in Docking
  <2>1. ContainerMove(t)
    BY <1>2, <1>5, DockingMoves
  <2>2. stack' = stack /\ store' = store /\ t.do \notin {"promote", "activateBundle"}
    BY <1>5, <2>1 DEF ContainerMove, Docking, Moving
  <2>3. ContainersHaveCredential'
    <3>1. CASE t.do = "create"
      BY <1>4, <2>2, <3>1 DEF ContainersHaveCredential
    <3>2. CASE t.do # "create"
      <4>1. \A s \in Services : con'[s].id # None => con[s].id # None
        BY <2>1, <3>2 DEF ContainerMove, Absent, Typed
      <4> QED
        BY <2>2, <4>1, ContainersKept DEF SafeInv, Credentialed
    <3> QED
      BY <3>1, <3>2
  <2> QED
    BY <1>1, <2>2, <2>3
<1>6. CASE Effect(t) /\ t.do \notin Docking
  <2>1. con' = con
    BY <1>6, OtherMoves
  <2>2. CASE UNCHANGED <<stack, staging, store>> /\ t.do \in {"network", "addRoute", "delRoute"}
    BY <1>1, <2>1, <2>2, ContainersKept DEF SafeInv, Credentialed
  <2>3. CASE ActivateCredential(t)
    <3>1. stack' = stack /\ t.do \in {"candidate", "promote"}
      BY <2>3 DEF ActivateCredential
    <3>2. store # "active" /\ (t.do = "promote" => store' = "active")
      BY <2>3 DEF ActivateCredential
    <3>3. ContainersHaveCredential'
      BY <2>1, <3>1, <3>2 DEF SafeInv, Credentialed, ContainersHaveCredential, Present
    <3> QED
      BY <1>1, <3>1, <3>2, <3>3
  <2>4. CASE InstallBundle(t)
    <3>1. store' = store /\ t.do \in {"stageBundle", "activateBundle"}
      BY <2>4 DEF InstallBundle
    <3>2. CASE t.do = "stageBundle"
      <4>1. stack' = stack
        BY <2>4, <3>2 DEF InstallBundle
      <4>2. ContainersHaveCredential'
        BY <2>1, <3>1, <4>1, ContainersKept DEF SafeInv, Credentialed
      <4> QED
        BY <1>1, <3>1, <3>2, <4>1, <4>2
    <3>3. CASE t.do = "activateBundle"
      <4>1. stack' = Bundle(op.rel) /\ op.rel \in Releases
        BY <1>2, <2>4, <3>3, ReleaseNamed DEF InstallBundle, SafeInv
      <4>2. stack'.there
        BY <4>1, BundleTyped
      <4>3. ContainersHaveCredential'
        BY <1>4, <3>1, <3>3 DEF ContainersHaveCredential
      <4> QED
        BY <1>1, <3>1, <3>3, <4>2, <4>3
    <3> QED
      BY <3>1, <3>2, <3>3
  <2>5. CASE t.do \in FileTasks /\ WriteFile(t)
    <3>1. op.rel \in Releases
      BY <1>2, <2>5, ReleaseNamed DEF SafeInv
    <3>2. stack'.there = stack.there /\ store' = store
      BY <1>2, <2>5, <3>1, FileWrites
    <3>3. ContainersHaveCredential'
      BY <2>1, <3>2 DEF SafeInv, Credentialed, ContainersHaveCredential, Present
    <3>4. t.do # "promote"
      BY <2>5 DEF FileTasks
    <3> QED
      BY <1>1, <3>2, <3>3, <3>4
  <2> QED
    BY <1>6, <2>2, <2>3, <2>4, <2>5, OtherMoves
<1> QED
  BY <1>1, <1>3, <1>5, <1>6 DEF Call

(* The operation goes on as planned, with its credential.                  *)
LEMMA ProceedsPlanned ==
  ASSUME Typed, SafeInv, op.todo # <<>>, Call(Head(op.todo)), op' = Rest, faults' = faults
  PROVE  Typed' /\ Planned' /\ Credentialed'
<1>1. /\ con' \in [Services -> ContainerType] /\ stack' \in StackType
      /\ staging' \in BOOLEAN /\ net' \in BOOLEAN
      /\ store' \in {"absent", "candidate", "active"}
      /\ route' \in {"absent", "present", "foreign"} /\ faults' \in 0 .. MaxFaults
  BY CallTyped DEF SafeInv, Typed
<1>2. CASE op' = NoOp
  <2>1. op' \in OpType /\ (\A t \in Left : WellFormed(t))' /\ Planned'
    BY <1>2, Ended
  <2>2. Credentialed'
    BY <1>2, Ended, CallCredential
  <2> QED
    BY <1>1, <2>1, <2>2 DEF Typed
<1>3. CASE op' # NoOp
  <2>1. PICK t : t = Head(op.todo)
    OBVIOUS
  <2>2. /\ op' \in OpType /\ Ordered(op'.todo)
        /\ op'.step = op.step /\ op'.rel = op.rel /\ op'.scope = op.scope
        /\ Left = {t} \cup Left' /\ \A u \in Left' : Precedes(t.do, u.do)
    BY <1>3, <2>1, GoesOn DEF SafeInv
  <2>3. \A u \in Left' : u \in Left
    BY <2>2
  <2>4. \A u \in Left' : WellFormed(u)
    BY <2>3 DEF Typed
  <2>5. Typed'
    BY <1>1, <2>2, <2>4 DEF Typed
  <2>6. /\ \A u \in Left' : u.do \in Repertoire(op'.step)
        /\ \A u \in Left' : u.do \in Moving => u.s \in op'.scope
        /\ op'.step \notin {"Noop", "Stop"} => op'.rel \in Releases
    BY <2>2, <2>3 DEF SafeInv, Planned
  <2>7. Planned'
    BY <2>2, <2>6 DEF Planned
  <2>8. \A k : /\ Due(k) => t.do = k \/ Due(k)'
               /\ Due(k)' => Due(k) /\ Precedes(t.do, k)
    BY <2>2, DueNext
  <2>9. /\ ContainersHaveCredential' /\ (store = "active" => store' = "active")
        /\ t.do = "promote" => store' = "active"
        /\ stack.there => stack'.there
        /\ t.do # "activateBundle" => stack'.there = stack.there
    BY <2>1, CallCredential
  <2>10. ASSUME op.step = "Install"
         PROVE  /\ Due("promote")' \/ store' = "active"
                /\ Due("activateBundle")' => ~stack'.there
    BY <2>8, <2>9, <2>10, OrderFacts DEF SafeInv, Credentialed
  <2>11. Credentialed'
    BY <2>2, <2>9, <2>10 DEF SafeInv, Credentialed
  <2> QED
    BY <2>5, <2>7, <2>11
<1> QED
  BY <1>2, <1>3

(* What a call changes, by its kind.                                       *)
LEMMA CallKinds ==
  ASSUME Typed, Planned, op.todo # <<>>, NEW t, t = Head(op.todo), Call(t)
  PROVE  /\ t.do \notin Docking => con' = con
         /\ t.do \in Docking => ContainerMove(t)
         /\ t.do \notin FileTasks \cup {"activateBundle"} => stack' = stack
         /\ t.do \in FileTasks => WriteFile(t)
         /\ t.do = "verify" => Verify(t)
<1>1. WellFormed(t)
  BY Ahead
<1>2. CASE Check(t)
  <2>1. UNCHANGED <<con, stack>> /\ t.do \in {"recheck", "verify"}
    BY <1>2, CheckKeeps
  <2>2. t.do \notin Docking \cup FileTasks
    BY <2>1 DEF Docking, Moving, FileTasks
  <2>3. t.do = "verify" => Verify(t)
    BY <1>2 DEF Check
  <2> QED
    BY <2>1, <2>2, <2>3
<1>3. CASE Effect(t)
  <2>1. t.do # "verify"
    BY <1>3 DEF Effect, StopContainer, RemoveContainer, CreateContainer, StartContainer,
       DisconnectNetwork, ConnectNetwork, CreateNetwork, ChangeRoute, ActivateCredential,
       InstallBundle, FileTasks
  <2>2. CASE t.do \in Docking
    <3>1. ContainerMove(t) /\ t.do \notin FileTasks \cup {"activateBundle"}
      BY <1>1, <1>3, <2>2, DockingMoves DEF Docking, Moving, FileTasks
    <3> QED
      BY <2>1, <2>2, <3>1 DEF ContainerMove
  <2>3. CASE t.do \notin Docking
    <3>1. con' = con
      BY <1>3, <2>3, OtherMoves
    <3>2. ASSUME ActivateCredential(t) PROVE stack' = stack /\ t.do \notin FileTasks
      BY <3>2 DEF ActivateCredential, FileTasks
    <3>3. ASSUME InstallBundle(t)
          PROVE  (t.do # "activateBundle" => stack' = stack) /\ t.do \notin FileTasks
      BY <3>3 DEF InstallBundle, FileTasks
    <3>4. {"network", "addRoute", "delRoute"} \cap FileTasks = {}
      BY DEF FileTasks
    <3> QED
      BY <1>3, <2>1, <2>3, <3>1, <3>2, <3>3, <3>4, OtherMoves
  <2> QED
    BY <2>2, <2>3
<1> QED
  BY <1>2, <1>3 DEF Call

(* An image replacement goes on.                                           *)
LEMMA ProceedsImages ==
  ASSUME Typed, SafeInv, op.todo # <<>>, NEW t, t = Head(op.todo), Call(t),
         op' = Rest, op' # NoOp, op.step = "ReplaceImages"
  PROVE  ImagesReplaced'
<1>1. /\ op'.step = op.step /\ op'.rel = op.rel
      /\ Left = {t} \cup Left' /\ \A u \in Left' : Precedes(t.do, u.do)
  BY GoesOn DEF SafeInv
<1>2. \A k : /\ Due(k) => t.do = k \/ Due(k)'
             /\ Due(k)' => Due(k) /\ Precedes(t.do, k)
  BY <1>1, DueNext
<1>3. t.do \in Repertoire("ReplaceImages") /\ WellFormed(t) /\ t \in Left
  BY Ahead DEF SafeInv
<1>4. /\ t.do \notin Docking => con' = con
      /\ t.do \in Docking => ContainerMove(t)
      /\ t.do \notin FileTasks \cup {"activateBundle"} => stack' = stack
      /\ t.do \in FileTasks => WriteFile(t)
      /\ t.do = "verify" => Verify(t)
  BY CallKinds DEF SafeInv
<1>5. op.rel \in Releases
  BY DEF SafeInv, Planned
<1>6. /\ SameFiles(op.rel) /\ (Due("stagePins") => Due("commitPins"))
      /\ Due("commitPins") \/ SameStatic(op.rel)
      /\ \/ Due("verify")
         \/ /\ \A u \in Left : u.do \notin Docking
            /\ \A s \in Services :
                 con[s].id \in {"seen", "made"} => con[s].image = Policy[op.rel].image[s]
  BY DEF SafeInv, ImagesReplaced
<1>7. t.do \notin {"stagePins", "commitPins", "marker"} => stack' = stack
  BY <1>3, <1>4 DEF Repertoire, FileTasks, Docking, Moving
<1>8. t.do \in {"stagePins", "commitPins", "marker"} => t.do \in FileTasks
  BY DEF FileTasks
<1>9. SameFiles(op.rel)'
  <2>1. stack'.tmpl = stack.tmpl /\ stack'.route = stack.route
    BY <1>3, <1>4, <1>5, <1>7, <1>8, FileWrites
  <2> QED
    BY <1>1, <1>6, <2>1 DEF SameFiles
<1>10. Due("stagePins")' => Due("commitPins")'
  BY <1>2, <1>6, OrderFacts
<1>11. Due("commitPins")' \/ SameStatic(op.rel)'
  <2>1. CASE t.do = "commitPins"
    <3>1. stack'.pins = Policy[op.rel].image /\ ~stack'.next
      BY <1>3, <1>4, <1>5, <1>8, <2>1, FileWrites
    <3> QED
      BY <1>1, <1>9, <3>1 DEF SameStatic
  <2>2. CASE t.do # "commitPins" /\ ~Due("commitPins")'
    <3>1. ~Due("commitPins") /\ SameStatic(op.rel)
      BY <1>2, <1>6, <2>2
    <3>2. t.do # "stagePins"
      BY <1>3, <1>6, <3>1 DEF Due
    <3>3. stack'.pins = stack.pins /\ stack'.next = stack.next
      BY <1>3, <1>4, <1>5, <1>7, <1>8, <2>2, <3>2, FileWrites
    <3> QED
      BY <1>1, <1>9, <3>1, <3>3 DEF SameStatic
  <2> QED
    BY <2>1, <2>2
<1>12. \/ Due("verify")'
       \/ /\ \A u \in Left' : u.do \notin Docking
          /\ \A s \in Services :
               con'[s].id \in {"seen", "made"} => con'[s].image = Policy[op.rel].image[s]
  <2>1. CASE t.do = "verify"
    <3>1. ReplacedImages
      BY <1>4, <2>1 DEF Verify
    <3>2. con' = con
      BY <1>4, <2>1 DEF Docking, Moving
    <3> QED
      BY <1>1, <2>1, <3>1, <3>2, OrderFacts DEF ReplacedImages
  <2>2. CASE t.do # "verify" /\ ~Due("verify")'
    <3>1. ~Due("verify")
      BY <1>2, <2>2
    <3> QED
      BY <1>1, <1>3, <1>4, <1>6, <3>1
  <2> QED
    BY <2>1, <2>2
<1> QED
  BY <1>1, <1>9, <1>10, <1>11, <1>12 DEF ImagesReplaced, SameFiles, SameStatic

(* The replacement of a configuration goes on.                             *)
LEMMA ProceedsConfig ==
  ASSUME Typed, SafeInv, op.todo # <<>>, NEW t, t = Head(op.todo), Call(t),
         op' = Rest, op' # NoOp, op.step = "ReplaceConfig"
  PROVE  ConfigReplaced'
<1>1. /\ op'.step = op.step /\ op'.rel = op.rel /\ op'.scope = op.scope
      /\ Left = {t} \cup Left' /\ \A u \in Left' : Precedes(t.do, u.do)
  BY GoesOn DEF SafeInv
<1>2. \A k : /\ Due(k) => t.do = k \/ Due(k)'
             /\ Due(k)' => Due(k) /\ Precedes(t.do, k)
  BY <1>1, DueNext
<1>3. t.do \in Repertoire("ReplaceConfig") /\ WellFormed(t) /\ t \in Left /\ Due(t.do)
  BY Ahead DEF SafeInv, Due
<1>4. /\ t.do \notin Docking => con' = con
      /\ t.do \in Docking => ContainerMove(t)
      /\ t.do \notin FileTasks \cup {"activateBundle"} => stack' = stack
      /\ t.do \in FileTasks => WriteFile(t)
  BY CallKinds DEF SafeInv
<1>5. op.rel \in Releases
  BY DEF SafeInv, Planned
<1> DEFINE new == Policy[op.rel]
           writes == {"stageTemplate", "commitTemplate", "render", "marker"}
<1>6. /\ stack.pins = new.image /\ stack.route = new.route
      /\ op.scope \subseteq Gateways
      /\ \A g \in Gateways \ op.scope : stack.tmpl[g] = new.tmpl[g]
      /\ \A u \in Left : u.do \in {"commitTemplate", "render", "remove"} => op.scope = {u.s}
      /\ Due("stageTemplate") => Due("commitTemplate")
      /\ Due("commitTemplate") => Due("render")
      /\ Due("render") => Due("remove")
      /\ Due("commitTemplate") \/ SameStatic(op.rel)
      /\ Due("render") \/ \A g \in op.scope : stack.rendered[g] = stack.tmpl[g]
      /\ \/ Due("remove")
         \/ \A g \in op.scope :
              con[g].id # "seen" /\ (con[g].run => con[g].cfg = stack.rendered[g])
  BY DEF SafeInv, ConfigReplaced
<1>7. t.do \notin writes => stack' = stack
  BY <1>3, <1>4 DEF Repertoire, FileTasks, Moving
<1>8. t.do \in writes =>
        /\ t.do \in FileTasks /\ con' = con
        /\ stack'.pins = stack.pins /\ stack'.route = stack.route
        /\ t.do # "commitTemplate" => stack'.tmpl = stack.tmpl
        /\ t.do # "render" => stack'.rendered = stack.rendered
        /\ t.do \in {"render", "marker"} => stack'.next = stack.next
        /\ t.do = "commitTemplate" =>
             ~stack'.next /\ stack'.tmpl = [stack.tmpl EXCEPT ![t.s] = new.tmpl[t.s]]
        /\ t.do = "render" =>
             stack'.rendered = [stack.rendered EXCEPT ![t.s] = stack.tmpl[t.s]]
  <2>1. t.do \in writes => t.do \in FileTasks
    BY DEF FileTasks
  <2> QED
    BY <1>3, <1>4, <1>5, <2>1, FileWrites
<1>9. /\ stack.tmpl \in [Gateways -> Templates \cup {None}]
      /\ stack.rendered \in [Gateways -> Templates \cup {None}]
      /\ new.tmpl \in [Gateways -> Templates]
  BY <1>5, PolicyTyped DEF Typed, StackType
<1> HIDE DEF new
<1>10. /\ stack'.pins = new.image /\ stack'.route = new.route
       /\ \A g \in Gateways \ op.scope : stack'.tmpl[g] = new.tmpl[g]
  BY <1>3, <1>6, <1>7, <1>8, <1>9
<1>11. /\ Due("stageTemplate")' => Due("commitTemplate")'
       /\ Due("commitTemplate")' => Due("render")'
       /\ Due("render")' => Due("remove")'
  BY <1>2, <1>6, OrderFacts
<1>12. \A u \in Left' : u.do \in {"commitTemplate", "render", "remove"} => op.scope = {u.s}
  BY <1>1, <1>6
<1>13. Due("commitTemplate")' \/ (stack'.tmpl = new.tmpl /\ ~stack'.next)
  <2>1. CASE t.do = "commitTemplate"
    <3>1. op.scope = {t.s} /\ t.s \in Gateways
      BY <1>3, <1>6, <2>1
    <3> QED
      BY <1>6, <1>8, <1>9, <2>1, <3>1
  <2>2. CASE t.do # "commitTemplate" /\ ~Due("commitTemplate")'
    <3>1. ~Due("commitTemplate")
      BY <1>2, <2>2
    <3>2. stack.tmpl = new.tmpl /\ ~stack.next
      BY <1>6, <3>1 DEF SameStatic, SameFiles, new
    <3>3. t.do # "stageTemplate"
      BY <1>3, <1>6, <3>1
    <3> QED
      BY <1>7, <1>8, <2>2, <3>2, <3>3
  <2> QED
    BY <2>1, <2>2
<1>14. Due("render")' \/ \A g \in op.scope : stack'.rendered[g] = stack'.tmpl[g]
  <2>1. CASE t.do = "render"
    BY <1>3, <1>6, <1>8, <1>9, <2>1
  <2>2. CASE t.do # "render" /\ ~Due("render")'
    <3>1. ~Due("render")
      BY <1>2, <2>2
    <3>2. t.do # "commitTemplate"
      BY <1>3, <1>6, <3>1
    <3> QED
      BY <1>6, <1>7, <1>8, <2>2, <3>1, <3>2
  <2> QED
    BY <2>1, <2>2
<1>15. \/ Due("remove")'
       \/ \A g \in op.scope :
            con'[g].id # "seen" /\ (con'[g].run => con'[g].cfg = stack'.rendered[g])
  <2>1. CASE t.do = "remove"
    <3>1. op.scope = {t.s} /\ ContainerMove(t)
      BY <1>3, <1>4, <1>6, <2>1 DEF Docking, Moving
    <3>2. t.s \in Services /\ con \in [Services -> ContainerType]
      BY <3>1 DEF ContainerMove, Typed
    <3>3. ASSUME NEW c, con' = [con EXCEPT ![t.s] = c] PROVE con'[t.s] = c
      BY <3>2, <3>3
    <3> QED
      BY <2>1, <3>1, <3>2, <3>3 DEF ContainerMove, Absent, None
  <2>2. CASE t.do # "remove" /\ ~Due("remove")'
    <3>1. ~Due("remove") /\ ~Due("render")
      BY <1>2, <1>6, <2>2
    <3>2. \A g \in op.scope :
            con[g].id # "seen" /\ (con[g].run => con[g].cfg = stack.rendered[g])
      BY <1>6, <3>1
    <3>3. stack'.rendered = stack.rendered
      BY <1>3, <1>7, <1>8, <3>1
    <3>4. CASE t.do \notin Docking
      BY <1>4, <3>2, <3>3, <3>4
    <3>5. CASE t.do \in Docking
      <4>1. t.s \in Services /\ con \in [Services -> ContainerType]
        BY <1>4, <3>5 DEF ContainerMove, Typed
      <4>2. PICK c \in ContainerType :
              /\ con' = [con EXCEPT ![t.s] = c]
              /\ \/ c.id = "made" /\ ~c.run
                 \/ /\ c.id = con[t.s].id
                    /\ c.run => c.cfg = (IF con[t.s].run THEN con[t.s].cfg ELSE Loaded(t.s))
        BY <1>4, <2>2, <3>5 DEF ContainerMove
      <4>3. con'[t.s] = c /\ \A g \in Services \ {t.s} : con'[g] = con[g]
        BY <4>1, <4>2
      <4>4. op.scope \subseteq Services /\ \A g \in op.scope : Loaded(g) = stack.rendered[g]
        BY <1>6 DEF Loaded, Gateways, Services, Warp
      <4> QED
        BY <3>2, <3>3, <4>2, <4>3, <4>4
    <3> QED
      BY <3>4, <3>5
  <2> QED
    BY <2>1, <2>2
<1> QED
  BY <1>1, <1>6, <1>10, <1>11, <1>12, <1>13, <1>14, <1>15
     DEF ConfigReplaced, SameStatic, SameFiles, new

(* The change of a managed file goes on.                                   *)
LEMMA ProceedsManaged ==
  ASSUME Typed, SafeInv, op.todo # <<>>, NEW t, t = Head(op.todo), Call(t),
         op' = Rest, op' # NoOp, op.step = "ReplaceManaged"
  PROVE  ManagedReplaced'
<1>1. /\ op'.step = op.step /\ op'.rel = op.rel
      /\ Left = {t} \cup Left' /\ \A u \in Left' : Precedes(t.do, u.do)
  BY GoesOn DEF SafeInv
<1>2. \A k : /\ Due(k) => t.do = k \/ Due(k)'
             /\ Due(k)' => Due(k) /\ Precedes(t.do, k)
  BY <1>1, DueNext
<1>3. t.do \in Repertoire("ReplaceManaged") /\ WellFormed(t) /\ Due(t.do)
  BY Ahead DEF SafeInv, Due
<1>4. /\ t.do \notin FileTasks \cup {"activateBundle"} => stack' = stack
      /\ t.do \in FileTasks => WriteFile(t)
  BY CallKinds DEF SafeInv
<1>5. op.rel \in Releases
  BY DEF SafeInv, Planned
<1> DEFINE new == Policy[op.rel]
           writes == {"stageManifest", "commitManifest", "removeManifest", "marker"}
<1>6. /\ stack.pins = new.image /\ stack.tmpl = new.tmpl
      /\ Due("stageManifest") => Due("commitManifest")
      /\ Due("commitManifest") => new.route
      /\ Due("removeManifest") => ~new.route
      /\ Due("commitManifest") \/ ~stack.next
      /\ Due("commitManifest") \/ Due("removeManifest") \/ stack.route = new.route
  BY DEF SafeInv, ManagedReplaced
<1>7. t.do \notin writes => stack' = stack
  BY <1>3, <1>4 DEF Repertoire, FileTasks
<1>8. t.do \in writes =>
        /\ stack'.pins = stack.pins /\ stack'.tmpl = stack.tmpl
        /\ t.do \in {"stageManifest", "marker"} => stack'.route = stack.route
        /\ t.do \in {"removeManifest", "marker"} => stack'.next = stack.next
        /\ t.do = "commitManifest" => ~stack'.next /\ stack'.route
        /\ t.do = "removeManifest" => ~stack'.route
        /\ stack'.route \in BOOLEAN
  <2>1. t.do \in writes => t.do \in FileTasks
    BY DEF FileTasks
  <2>2. t.do \in writes => stack' \in StackType
    BY <1>3, <1>4, <1>5, <2>1, FileWrites
  <2>3. stack' \in StackType => stack'.route \in BOOLEAN
    BY DEF StackType
  <2> QED
    BY <1>3, <1>4, <1>5, <2>1, <2>2, <2>3, FileWrites
<1>9. new.route \in BOOLEAN
  BY <1>5, PolicyTyped
<1> HIDE DEF new
<1>10. stack'.pins = new.image /\ stack'.tmpl = new.tmpl
  BY <1>6, <1>7, <1>8
<1>11. /\ Due("stageManifest")' => Due("commitManifest")'
       /\ Due("commitManifest")' => new.route
       /\ Due("removeManifest")' => ~new.route
  BY <1>2, <1>6, OrderFacts
<1>12. Due("commitManifest")' \/ ~stack'.next
  <2>1. CASE t.do = "commitManifest"
    BY <1>8, <2>1
  <2>2. CASE t.do # "commitManifest" /\ ~Due("commitManifest")'
    <3>1. ~Due("commitManifest") /\ t.do # "stageManifest"
      BY <1>2, <1>3, <1>6, <2>2
    <3> QED
      BY <1>6, <1>7, <1>8, <2>2, <3>1
  <2> QED
    BY <2>1, <2>2
<1>13. Due("commitManifest")' \/ Due("removeManifest")' \/ stack'.route = new.route
  <2>1. CASE t.do = "commitManifest"
    BY <1>3, <1>6, <1>8, <1>9, <2>1
  <2>2. CASE t.do = "removeManifest"
    BY <1>3, <1>6, <1>8, <1>9, <2>2
  <2>3. CASE t.do \notin {"commitManifest", "removeManifest"}
    BY <1>2, <1>6, <1>7, <1>8, <2>3
  <2> QED
    BY <2>1, <2>2, <2>3
<1> QED
  BY <1>1, <1>10, <1>11, <1>12, <1>13 DEF ManagedReplaced, new

(***************************************************************************)
(* The world around.                                                       *)
(***************************************************************************)

(* At most one container is disturbed: it goes on as itself, reading the   *)
(* rendered file when it starts again, or somebody has replaced it.        *)
LEMMA Disturbed ==
  ASSUME Typed, Disturbance
  PROVE  /\ faults < MaxFaults /\ faults' = faults + 1
         /\ UNCHANGED <<stack, staging, store, net, op>>
         /\ route' \in {"absent", "present", "foreign"}
         /\ \/ con' = con
            \/ \E s \in Services, c \in ContainerType :
                 /\ con' = [con EXCEPT ![s] = c]
                 /\ c.run => c.cfg = Loaded(s)
                 /\ \/ c.id = con[s].id /\ c.image = con[s].image
                    \/ c.id = "foreign" /\ stack.there
<1>1. CASE Disturbs(RouteChanges)
  BY <1>1 DEF Disturbs, RouteChanges, Files, Typed
<1>2. ASSUME NEW s \in Services,
             Disturbs(Exits(s)) \/ Disturbs(Restarts(s)) \/ Disturbs(Recreates(s))
      PROVE  /\ faults < MaxFaults /\ faults' = faults + 1
             /\ UNCHANGED <<stack, staging, store, net, op>> /\ route' = route
             /\ \E c \in ContainerType :
                  /\ con' = [con EXCEPT ![s] = c]
                  /\ c.run => c.cfg = Loaded(s)
                  /\ \/ c.id = con[s].id /\ c.image = con[s].image
                     \/ c.id = "foreign" /\ stack.there
  <2>1. /\ faults < MaxFaults /\ faults' = faults + 1
        /\ UNCHANGED <<stack, staging, store, net, op>> /\ route' = route
    BY <1>2 DEF Disturbs, Exits, Restarts, Recreates, Files
  <2>2. con[s] \in ContainerType /\ con \in [Services -> ContainerType]
    BY <1>2 DEF Typed
  <2>3. CASE Exits(s)
    <3> DEFINE c == [con[s] EXCEPT !.run = FALSE]
    <3>1. con' = [con EXCEPT ![s] = c]
      BY <2>3 DEF Exits
    <3>2. c \in ContainerType /\ ~c.run /\ c.id = con[s].id /\ c.image = con[s].image
      BY <2>2 DEF ContainerType
    <3> HIDE DEF c
    <3> QED
      BY <2>1, <3>1, <3>2
  <2>4. CASE Restarts(s)
    <3> DEFINE c == [con[s] EXCEPT !.run = TRUE, !.cfg = Loaded(s)]
    <3>1. con' = [con EXCEPT ![s] = c]
      BY <2>2, <2>4 DEF Restarts
    <3>2. c \in ContainerType /\ c.cfg = Loaded(s) /\ c.id = con[s].id /\ c.image = con[s].image
      BY <1>2, <2>2, LoadedTyped DEF ContainerType
    <3> HIDE DEF c
    <3> QED
      BY <2>1, <3>1, <3>2
  <2>5. CASE Recreates(s)
    <3>1. PICK r \in Releases :
            con' = [con EXCEPT ![s] = [Container(s, "foreign", TRUE, r, "alias")
                                         EXCEPT !.cfg = Loaded(s)]]
      BY <2>5 DEF Recreates
    <3> DEFINE c == [Container(s, "foreign", TRUE, r, "alias") EXCEPT !.cfg = Loaded(s)]
    <3>2. Policy[r].image[s] \in Images
      BY <1>2, PolicyTyped
    <3>3. Loaded(s) \in Templates \cup {None}
      BY <1>2, LoadedTyped
    <3> DEFINE b == Container(s, "foreign", TRUE, r, "alias")
    <3>4. b \in ContainerType /\ b.id = "foreign"
      <4>1. s # Warp => Policy[r].tmpl[s] \in Templates
        BY <1>2, PolicyTyped DEF Services
      <4> QED
        BY <3>2, <4>1 DEF Container, ContainerType
    <3>7. c = [b EXCEPT !.cfg = Loaded(s)]
      OBVIOUS
    <3> HIDE DEF b, c
    <3>5. c \in ContainerType /\ c.id = "foreign" /\ c.cfg = Loaded(s)
      BY <3>3, <3>4, <3>7 DEF ContainerType
    <3> USE DEF c
    <3>6. stack.there /\ con' = [con EXCEPT ![s] = c]
      BY <2>5, <3>1 DEF Recreates
    <3> HIDE DEF c
    <3> QED
      BY <2>1, <3>5, <3>6
  <2> QED
    BY <1>2, <2>3, <2>4, <2>5 DEF Disturbs
<1>3. route \in {"absent", "present", "foreign"}
  BY DEF Typed
<1> QED
  BY <1>1, <1>2, <1>3 DEF Disturbance

(* The world around keeps the invariant.                                   *)
LEMMA DisturbedSafe ==
  ASSUME Typed, SafeInv, Disturbance
  PROVE  Typed' /\ SafeInv'
<1>1. /\ faults < MaxFaults /\ faults' = faults + 1
      /\ UNCHANGED <<stack, staging, store, net, op>>
      /\ route' \in {"absent", "present", "foreign"}
  BY Disturbed
<1>2. con \in [Services -> ContainerType] /\ faults \in 0 .. MaxFaults
  BY DEF Typed
<1>3. con' \in [Services -> ContainerType]
  BY <1>2, Disturbed
<1>4. \A s \in Services :
        \/ con'[s] = con[s]
        \/ /\ con'[s].run => con'[s].cfg = Loaded(s)
           /\ \/ con'[s].id = con[s].id /\ con'[s].image = con[s].image
              \/ con'[s].id = "foreign" /\ stack.there
  BY <1>2, Disturbed
<1>5. Left' = Left /\ \A k : Due(k)' <=> Due(k)
  BY <1>1 DEF Left, Due
<1>6. Typed'
  <2>1. faults' \in 0 .. MaxFaults
    BY <1>1, <1>2, BoundAssumption
  <2>2. \A t \in Left' : WellFormed(t)
    BY <1>5 DEF Typed
  <2>3. /\ stack' \in StackType /\ staging' \in BOOLEAN /\ net' \in BOOLEAN /\ op' \in OpType
        /\ store' \in {"absent", "candidate", "active"}
    BY <1>1 DEF Typed
  <2> QED
    BY <1>1, <1>3, <2>1, <2>2, <2>3 DEF Typed
<1>7. Planned'
  BY <1>1, <1>5 DEF SafeInv, Planned
<1>8. ContainersHaveCredential'
  <2>1. ASSUME NEW s \in Services, con'[s].id # None PROVE con[s].id # None \/ stack.there
    BY <1>4, <2>1
  <2> QED
    BY <1>1, <2>1 DEF SafeInv, Credentialed, ContainersHaveCredential, Present
<1>9. Credentialed'
  BY <1>1, <1>5, <1>8 DEF SafeInv, Credentialed
<1>10. ImagesReplaced'
  BY <1>1, <1>4, <1>5 DEF SafeInv, ImagesReplaced, SameFiles, SameStatic
<1>11. ConfigReplaced'
  <2>1. \A g \in Gateways : g \in Services /\ Loaded(g) = stack.rendered[g]
    BY DEF Loaded, Gateways, Services, Warp
  <2>2. op.step = "ReplaceConfig" => op.scope \subseteq Gateways
    BY DEF SafeInv, ConfigReplaced
  <2>3. ASSUME op.step = "ReplaceConfig", ~Due("remove"), NEW g \in op.scope
        PROVE  con'[g].id # "seen" /\ (con'[g].run => con'[g].cfg = stack.rendered[g])
    <3>1. con[g].id # "seen" /\ (con[g].run => con[g].cfg = stack.rendered[g])
      BY <2>3 DEF SafeInv, ConfigReplaced
    <3> QED
      BY <1>4, <2>1, <2>2, <2>3, <3>1
  <2> QED
    BY <1>1, <1>5, <2>3 DEF SafeInv, ConfigReplaced, SameStatic, SameFiles
<1>12. ManagedReplaced'
  BY <1>1, <1>5 DEF SafeInv, ManagedReplaced
<1> QED
  BY <1>6, <1>7, <1>9, <1>10, <1>11, <1>12 DEF SafeInv

(***************************************************************************)
(* The invariant.                                                          *)
(***************************************************************************)
LEMMA InitSafe == Init => Typed /\ SafeInv
<1> SUFFICES ASSUME Init PROVE Typed /\ SafeInv
  OBVIOUS
<1>1. op = NoOp /\ faults = 0 /\ staging = FALSE
  BY DEF Init
<1>2. /\ op \in OpType /\ Left = {} /\ op.step = "Noop" /\ Ordered(op.todo)
  BY <1>1, NoTask DEF NoOp, OpType, Left
<1>3. faults \in 0 .. MaxFaults
  BY <1>1, BoundAssumption
<1>4. CASE /\ con = [s \in Services |-> Absent] /\ stack = NoStack
           /\ store \in {"absent", "active"} /\ net = FALSE /\ route = "absent"
  <2>1. con \in [Services -> ContainerType] /\ \A s \in Services : ~Present(s)
    BY <1>4 DEF Absent, ContainerType, Present
  <2>2. stack \in StackType /\ ~stack.there
    BY <1>4 DEF NoStack, StackType
  <2>3. Typed
    BY <1>1, <1>2, <1>3, <1>4, <2>1, <2>2 DEF Typed
  <2> QED
    BY <1>2, <2>1, <2>2, <2>3 DEF SafeInv, Planned, Credentialed, ContainersHaveCredential,
       ImagesReplaced, ConfigReplaced, ManagedReplaced
<1>5. ASSUME NEW r \in Releases, NEW old \in BOOLEAN,
             /\ con = [s \in Services |->
                         Container(s, "seen", TRUE, r, IF old THEN "noalias" ELSE "alias")]
             /\ stack = Bundle(r) /\ store = "active" /\ net = TRUE
             /\ route = IF Policy[r].route THEN "present" ELSE "absent"
      PROVE  Typed /\ SafeInv
  <2>1. /\ \A s \in Services : Policy[r].image[s] \in Images
        /\ \A g \in Gateways : Policy[r].tmpl[g] \in Templates
    BY <1>5, PolicyTyped
  <2>2. \A s \in Services : s # Warp => s \in Gateways
    BY DEF Services
  <2>3. ASSUME NEW s \in Services, NEW n \in {"noalias", "alias"}
        PROVE  Container(s, "seen", TRUE, r, n) \in ContainerType
    BY <2>1, <2>2, <2>3 DEF Container, ContainerType
  <2>4. con \in [Services -> ContainerType]
    BY <1>5, <2>3
  <2>5. stack \in StackType
    BY <1>5, BundleTyped
  <2>6. Typed
    BY <1>1, <1>2, <1>3, <1>5, <2>4, <2>5 DEF Typed
  <2> QED
    BY <1>2, <1>5, <2>6 DEF SafeInv, Planned, Credentialed, ContainersHaveCredential,
       ImagesReplaced, ConfigReplaced, ManagedReplaced
<1> QED
  BY <1>4, <1>5 DEF Init

(* Every step keeps the invariant.                                         *)
LEMMA NextSafe ==
  ASSUME Typed, SafeInv, [Next]_vars
  PROVE  Typed' /\ SafeInv'
<1>1. CASE Admission
  BY <1>1, InstallEnters, RunEnters, ImagesEnters, ConfigEnters, ManagedEnters DEF Admission
<1>2. CASE /\ op.todo # <<>> /\ Call(Head(op.todo)) /\ op' = Rest /\ faults' = faults
  <2>1. Typed' /\ Planned' /\ Credentialed'
    BY <1>2, ProceedsPlanned
  <2>2. CASE op' = NoOp
    BY <2>1, <2>2, Ended DEF SafeInv
  <2>3. CASE op' # NoOp
    <3>1. op'.step = op.step
      BY <1>2, <2>3, GoesOn DEF SafeInv
    <3>2. ImagesReplaced'
      BY <1>2, <2>3, <3>1, ProceedsImages DEF ImagesReplaced
    <3>3. ConfigReplaced'
      BY <1>2, <2>3, <3>1, ProceedsConfig DEF ConfigReplaced
    <3>4. ManagedReplaced'
      BY <1>2, <2>3, <3>1, ProceedsManaged DEF ManagedReplaced
    <3> QED
      BY <2>1, <3>2, <3>3, <3>4 DEF SafeInv
  <2> QED
    BY <2>2, <2>3
<1>3. CASE /\ op.todo # <<>> /\ Effect(Head(op.todo)) /\ op' = NoOp
           /\ faults < MaxFaults /\ faults' = faults + 1
  <2>1. Call(Head(op.todo))
    BY <1>3 DEF Call
  <2>2. /\ con' \in [Services -> ContainerType] /\ stack' \in StackType
        /\ staging' \in BOOLEAN /\ net' \in BOOLEAN
        /\ store' \in {"absent", "candidate", "active"}
        /\ route' \in {"absent", "present", "foreign"}
    BY <1>3, <2>1, CallTyped DEF SafeInv
  <2>3. faults' \in 0 .. MaxFaults
    BY <1>3, BoundAssumption DEF Typed
  <2>4. ContainersHaveCredential'
    BY <1>3, <2>1, CallCredential
  <2>5. Typed'
    BY <1>3, <2>2, <2>3, Ended DEF Typed
  <2> QED
    BY <1>3, <2>4, <2>5, Ended DEF SafeInv
<1>4. CASE /\ op' = NoOp /\ UNCHANGED <<con, staging, store, net, route>>
           /\ \/ stack' = stack
              \/ Head(op.todo).do = "marker" /\ stack' = [stack EXCEPT !.marker = Torn]
           /\ faults' = faults \/ (faults < MaxFaults /\ faults' = faults + 1)
  <2>1. faults' \in 0 .. MaxFaults
    BY <1>4, BoundAssumption DEF Typed
  <2>2. stack' \in StackType /\ stack'.there = stack.there
    BY <1>4 DEF Typed, StackType
  <2>3. ContainersHaveCredential'
    BY <1>4, <2>2 DEF SafeInv, Credentialed, ContainersHaveCredential, Present
  <2>4. Typed'
    <3>1. /\ con' \in [Services -> ContainerType] /\ staging' \in BOOLEAN /\ net' \in BOOLEAN
          /\ store' \in {"absent", "candidate", "active"}
          /\ route' \in {"absent", "present", "foreign"}
      BY <1>4 DEF Typed
    <3>2. op' \in OpType /\ (\A t \in Left : WellFormed(t))'
      BY <1>4, Ended
    <3> QED
      BY <2>1, <2>2, <3>1, <3>2 DEF Typed
  <2> QED
    BY <1>4, <2>3, <2>4, Ended DEF SafeInv
<1>5. CASE Disturbance
  BY <1>5, DisturbedSafe
<1>6. CASE UNCHANGED vars
  <2>1. Left' = Left /\ \A k : Due(k)' <=> Due(k)
    BY <1>6 DEF vars, Left, Due
  <2>2. Typed'
    BY <1>6, <2>1 DEF vars, Typed
  <2>3. Planned' /\ Credentialed'
    BY <1>6, <2>1 DEF vars, SafeInv, Planned, Credentialed, ContainersHaveCredential, Present
  <2>4. ImagesReplaced' /\ ManagedReplaced'
    BY <1>6, <2>1 DEF vars, SafeInv, ImagesReplaced, ManagedReplaced, SameFiles, SameStatic
  <2>5. ConfigReplaced'
    BY <1>6, <2>1 DEF vars, SafeInv, ConfigReplaced, SameFiles, SameStatic
  <2> QED
    BY <2>2, <2>3, <2>4, <2>5 DEF SafeInv
<1> QED
  BY <1>1, <1>2, <1>3, <1>4, <1>5, <1>6, StepKinds

(* The inductive invariant holds.                                          *)
LEMMA DockerSafe == Spec => [](Typed /\ SafeInv)
<1>1. Typed /\ SafeInv /\ [Next]_vars => (Typed /\ SafeInv)'
  BY NextSafe
<1> QED
  BY <1>1, InitSafe, PTL DEF Spec

(***************************************************************************)
(* What the runs check.                                                    *)
(***************************************************************************)

(* The containers, the files and the operation keep their types, whatever  *)
(* is interrupted and whoever interferes.                                  *)
THEOREM DockerTypes == Spec => []TypeOK
<1>1. Typed => TypeOK
  BY DEF Typed, TypeOK, ContainerType, StackType, OpType
<1> QED
  BY <1>1, DockerSafe, PTL

(* apply_native_vm_install_once promotes the credential before it makes    *)
(* the bundle visible: wherever an install dies, no stack directory and no *)
(* container is without an active credential.                              *)
THEOREM CredentialComesFirst == Spec => []ContainersHaveCredential
<1>1. SafeInv => ContainersHaveCredential
  BY DEF SafeInv, Credentialed
<1> QED
  BY <1>1, DockerSafe, PTL

(* A step that changes an installed stack is the file its operation has    *)
(* come to, or half a marker.                                              *)
LEMMA StackWrites ==
  ASSUME Typed, SafeInv, [Next]_vars, stack.there, stack' # stack, NEW t, t = Head(op.todo)
  PROVE  /\ op.todo # <<>> /\ t.do \in FileTasks
         /\ \/ WriteFile(t)
            \/ t.do = "marker" /\ stack' = [stack EXCEPT !.marker = Torn]
<1>1. ~Admission
  BY DEF Admission, StopRun, StartRun, Install, ReplaceImages, ReplaceConfig, ReplaceManaged, Begin
<1>2. ~Disturbance
  BY Disturbed
<1>3. ~UNCHANGED vars
  BY DEF vars
<1>4. CASE op.todo # <<>> /\ Call(t)
  <2>1. Planned
    BY DEF SafeInv
  <2>2. t.do \in FileTasks \cup {"activateBundle"} /\ (t.do \in FileTasks => WriteFile(t))
    BY <1>4, <2>1, CallKinds
  <2>3. t.do # "activateBundle"
    <3> SUFFICES ASSUME t.do = "activateBundle" PROVE FALSE
      OBVIOUS
    <3>1. t \in Left /\ t.do \in Repertoire(op.step)
      BY <1>4, <2>1, Ahead
    <3>2. op.step = "Install"
      BY <3>1 DEF Repertoire, Docking, Moving
    <3>3. Due("activateBundle")
      BY <3>1 DEF Due
    <3> QED
      BY <3>2, <3>3 DEF SafeInv, Credentialed
  <2> QED
    BY <1>4, <2>2, <2>3
<1>5. CASE op.todo # <<>> /\ t.do = "marker" /\ stack' = [stack EXCEPT !.marker = Torn]
  BY <1>5 DEF FileTasks
<1> QED
  BY <1>1, <1>2, <1>3, <1>4, <1>5, StepKinds DEF Call

(* The call an operation has come to comes before those that are left.     *)
LEMMA NotDue ==
  ASSUME Typed, SafeInv, op.todo # <<>>, NEW t, t = Head(op.todo), NEW k, k # t.do,
         ~Precedes(t.do, k)
  PROVE  ~Due(k)
<1>1. Planned
  BY DEF SafeInv
<1>2. \A u \in Left : u = t \/ Precedes(t.do, u.do)
  BY <1>1, Ahead
<1> QED
  BY <1>2 DEF Due

(* apply_gateway_image_replace_once writes the pins last: when they move,  *)
(* every container nobody else has touched is on its new image.            *)
THEOREM PinsAreWrittenLast == Spec => PinsFollowContainers
<1>1. ASSUME Typed, SafeInv, [Next]_vars, stack.there, stack'.pins # stack.pins,
             NEW s \in Services, con[s].id \in {"seen", "made"}
      PROVE  con[s].image = stack'.pins[s]
  <2> DEFINE t == Head(op.todo)
  <2>1. /\ op.todo # <<>> /\ t.do \in FileTasks
        /\ WriteFile(t) \/ stack' = [stack EXCEPT !.marker = Torn]
    BY <1>1, StackWrites
  <2>2. stack \in StackType /\ Planned
    BY <1>1 DEF Typed, SafeInv
  <2>3. WriteFile(t)
    BY <1>1, <2>1, <2>2 DEF StackType
  <2>4. WellFormed(t) /\ t.do \in Repertoire(op.step)
    BY <1>1, <2>1, <2>2, Ahead
  <2> HIDE DEF t
  <2>5. op.rel \in Releases
    BY <2>1, <2>2, <2>4, ReleaseNamed
  <2>6. t.do = "commitPins" /\ stack'.pins = Policy[op.rel].image
    BY <1>1, <2>1, <2>3, <2>4, <2>5, FileWrites
  <2>7. op.step = "ReplaceImages"
    BY <2>4, <2>6 DEF Repertoire, Docking, Moving
  <2>8. ~Due("verify")
    BY <1>1, <2>1, <2>6, NotDue, OrderFacts DEF t
  <2> QED
    BY <1>1, <2>6, <2>7, <2>8 DEF SafeInv, ImagesReplaced
<1>2. Typed /\ SafeInv /\ [Next]_vars =>
        [stack.there /\ stack'.pins # stack.pins =>
           \A s \in Services : con[s].id \in {"seen", "made"} => con[s].image = stack'.pins[s]]_vars
  BY <1>1
<1> QED
  BY <1>2, DockerSafe, PTL DEF Spec, PinsFollowContainers

(* Each of the three replacements ends with its marker, and by then its    *)
(* other calls are done: the marker names the release whose files are      *)
(* there, and the gateway of a new template has been made anew and has     *)
(* read it.                                                                *)
THEOREM MarkerComesLast == Spec => MarkerSealsRelease
<1>1. ASSUME Typed, SafeInv, [Next]_vars, stack.there, stack'.marker # stack.marker,
             stack'.marker # Torn
      PROVE  /\ SameStatic(stack'.marker)
             /\ op.step = "ReplaceConfig" =>
                  \A g \in op.scope :
                    con[g].id # "seen" /\ (con[g].run => con[g].cfg = stack.tmpl[g])
  <2> DEFINE t == Head(op.todo)
  <2>1. /\ op.todo # <<>> /\ t.do \in FileTasks
        /\ WriteFile(t) \/ stack' = [stack EXCEPT !.marker = Torn]
    BY <1>1, StackWrites
  <2>2. stack \in StackType /\ Planned
    BY <1>1 DEF Typed, SafeInv
  <2>3. WriteFile(t)
    BY <1>1, <2>1, <2>2 DEF StackType
  <2>4. WellFormed(t) /\ t.do \in Repertoire(op.step)
    BY <1>1, <2>1, <2>2, Ahead
  <2> HIDE DEF t
  <2>5. op.rel \in Releases
    BY <2>1, <2>2, <2>4, ReleaseNamed
  <2>6. t.do = "marker" /\ stack'.marker = op.rel
    BY <1>1, <2>1, <2>3, <2>4, <2>5, FileWrites
  <2>7. op.step \in {"ReplaceImages", "ReplaceConfig", "ReplaceManaged"}
    BY <2>4, <2>6 DEF Repertoire, Docking, Moving
  <2>8. ~Due("commitPins") /\ ~Due("commitTemplate") /\ ~Due("render")
    BY <1>1, <2>1, <2>6, NotDue, OrderFacts DEF t
  <2>9. ~Due("remove") /\ ~Due("commitManifest") /\ ~Due("removeManifest")
    BY <1>1, <2>1, <2>6, NotDue, OrderFacts DEF t
  <2>10. CASE op.step = "ReplaceImages"
    BY <1>1, <2>6, <2>8, <2>10 DEF SafeInv, ImagesReplaced
  <2>11. CASE op.step = "ReplaceConfig"
    BY <1>1, <2>6, <2>8, <2>9, <2>11 DEF SafeInv, ConfigReplaced
  <2>12. CASE op.step = "ReplaceManaged"
    BY <1>1, <2>6, <2>9, <2>12 DEF SafeInv, ManagedReplaced, SameStatic, SameFiles
  <2> QED
    BY <2>7, <2>10, <2>11, <2>12
<1>2. Typed /\ SafeInv /\ [Next]_vars =>
        [stack.there /\ stack'.marker # stack.marker /\ stack'.marker # Torn =>
           /\ SameStatic(stack'.marker)
           /\ op.step = "ReplaceConfig" =>
                \A g \in op.scope :
                  con[g].id # "seen" /\ (con[g].run => con[g].cfg = stack.tmpl[g])]_vars
  BY <1>1
<1> QED
  BY <1>2, DockerSafe, PTL DEF Spec, MarkerSealsRelease

(* Every call on a container carries the identity it was planned for, so   *)
(* a step of an operation, deaths and interference aside, moves only the   *)
(* containers of its plan and none that somebody else has made.            *)
THEOREM OnlyPlannedMove == Spec => OnlyPlannedContainers
<1>1. ASSUME Typed, SafeInv, [Next]_vars, op # NoOp, faults' = faults, NEW s \in Services,
             <<con'[s].id, con'[s].run>> # <<con[s].id, con[s].run>>
      PROVE  s \in op.scope /\ con[s].id # "foreign" /\ con'[s].id # "foreign"
  <2> DEFINE t == Head(op.todo)
  <2>1. ~Admission
    BY <1>1 DEF Admission, StopRun, StartRun, Install, ReplaceImages, ReplaceConfig,
       ReplaceManaged, Begin
  <2>2. faults \in Nat /\ con \in [Services -> ContainerType] /\ Planned
    BY <1>1 DEF Typed, SafeInv
  <2>3. ~Disturbance
    BY <1>1, <2>2, Disturbed
  <2>4. con' # con
    BY <1>1
  <2>5. op.todo # <<>> /\ Call(t)
    BY <1>1, <2>1, <2>2, <2>3, <2>4, StepKinds DEF vars
  <2>6. t.do \in Docking /\ ContainerMove(t)
    BY <1>1, <2>2, <2>4, <2>5, CallKinds
  <2>7. t.do \in Moving => t.s \in op.scope
    BY <1>1, <2>2, <2>5, Ahead
  <2> HIDE DEF t
  <2>8. PICK c \in ContainerType :
          /\ con' = [con EXCEPT ![t.s] = c]
          /\ \/ c = Absent /\ t.do = "remove"
             \/ c.id = "made" /\ t.do = "create" /\ con[t.s].id = None
             \/ /\ t.do \notin {"remove", "create"} /\ c.id = con[t.s].id
                /\ c.run = con[t.s].run \/ t.do \in {"stop", "halt", "start"}
          /\ t.do \in Moving \ {"create"} => con[t.s].id \in {"seen", "made"}
    BY <2>6 DEF ContainerMove
  <2>9. s = t.s /\ con'[s] = c
    BY <1>1, <2>2, <2>8
  <2>10. t.do \in Moving
    BY <1>1, <2>8, <2>9 DEF Moving
  <2>11. con[s].id # "foreign"
    BY <2>8, <2>9, <2>10 DEF None
  <2>12. con'[s].id # "foreign"
    BY <2>8, <2>9, <2>11 DEF Absent, None
  <2> QED
    BY <2>7, <2>9, <2>10, <2>11, <2>12
<1>2. Typed /\ SafeInv /\ [Next]_vars =>
        [op # NoOp /\ faults' = faults =>
           \A s \in Services :
             <<con'[s].id, con'[s].run>> # <<con[s].id, con[s].run>> =>
               s \in op.scope /\ con[s].id # "foreign" /\ con'[s].id # "foreign"]_vars
  BY <1>1
<1> QED
  BY <1>2, DockerSafe, PTL DEF Spec, OnlyPlannedContainers
=============================================================================
