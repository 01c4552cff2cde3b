----------------------------- MODULE VmDockerInv ------------------------------
(***************************************************************************)
(* The inductive invariant behind the properties of VmDocker.  What an     *)
(* operation has still to do says what it has done: each conjunct relates  *)
(* the calls that are left to the files and containers as they are.        *)
(***************************************************************************)
EXTENDS VmDocker

(* Layer 1: the types, of the calls that are left as well.                 *)
Moving  == {"stop", "halt", "remove", "create", "start"}
Docking == Moving \cup {"disconnect", "connect"}
Staging == {"stagePins", "stageTemplate", "stageManifest"}
Calls   == Docking \cup FileTasks \cup
           {"recheck", "verify", "candidate", "promote", "stageBundle", "activateBundle",
            "network", "addRoute", "delRoute"}

TaskType == [do : Calls, s : Services \cup {None},
             v : Images \cup {None, "seen", "made", "any", "wired"}]

(* A call names what it is made on.                                        *)
WellFormed(t) ==
  /\ t.do \in Docking => t.s \in Services
  /\ t.do \in {"stageTemplate", "commitTemplate", "render"} => t.s \in Gateways
  /\ t.do = "create" => t.v \in Images \cup {None}
  /\ t.do \in Moving \ {"create"} => t.v \in {"seen", "made"}

ContainerType ==
  [id : {None, "seen", "made", "foreign"}, run : BOOLEAN, image : Images \cup {None},
   cfg : Templates \cup {None}, net : {None, "alias", "noalias", "detached"}]
StackType ==
  [there : BOOLEAN, pins : [Services -> Images \cup {None}],
   tmpl : [Gateways -> Templates \cup {None}], rendered : [Gateways -> Templates \cup {None}],
   route : BOOLEAN, next : BOOLEAN, marker : Releases \cup {NoRelease, Torn}]
OpType ==
  [step : {"Noop", "Install", "Start", "Stop", "ReplaceImages", "ReplaceConfig",
           "ReplaceManaged"},
   rel : Releases \cup {NoRelease}, scope : SUBSET Services,
   seen : SUBSET (Services \X BOOLEAN \X (Images \cup {None})), todo : Seq(TaskType)]

Tasks(todo) == {todo[i] : i \in DOMAIN todo}
Left    == Tasks(op.todo)
Due(do) == \E t \in Left : t.do = do

Typed ==
  /\ con \in [Services -> ContainerType] /\ stack \in StackType
  /\ staging \in BOOLEAN /\ net \in BOOLEAN
  /\ store \in {"absent", "candidate", "active"}
  /\ route \in {"absent", "present", "foreign"}
  /\ op \in OpType /\ faults \in 0 .. MaxFaults
  /\ \A t \in Left : WellFormed(t)

(* Layer 2: the calls each effector makes, and their order.                *)
Repertoire(step) ==
  IF step = "Install"
  THEN {"recheck", "candidate", "promote", "stageBundle", "activateBundle", "network",
        "create", "start", "verify"}
  ELSE IF step = "Start"
  THEN {"recheck", "addRoute", "disconnect", "connect", "create", "start", "verify"}
  ELSE IF step = "Stop" THEN {"recheck", "stop", "verify"}
  ELSE IF step = "ReplaceImages"
  THEN {"recheck", "stagePins", "commitPins", "marker", "verify"} \cup Docking
  ELSE IF step = "ReplaceConfig"
  THEN {"recheck", "stageTemplate", "commitTemplate", "render", "marker", "verify"}
         \cup Moving
  ELSE IF step = "ReplaceManaged"
  THEN {"recheck", "addRoute", "delRoute", "stageManifest", "commitManifest",
        "removeManifest", "marker", "verify"}
  ELSE {}

Phase(do) ==
  IF do = "recheck" THEN 0
  ELSE IF do \in {"candidate", "stageTemplate"} THEN 1
  ELSE IF do \in {"promote", "commitTemplate"} THEN 2
  ELSE IF do \in {"stageBundle", "render"} THEN 3
  ELSE IF do = "activateBundle" THEN 4
  ELSE IF do \in {"network", "addRoute", "delRoute"} THEN 5
  ELSE IF do \in Docking THEN 6
  ELSE IF do = "verify" THEN 7
  ELSE IF do \in {"stagePins", "stageManifest"} THEN 8
  ELSE IF do \in {"commitPins", "commitManifest", "removeManifest"} THEN 9
  ELSE 10

Precedes(a, b) == Phase(a) < Phase(b) \/ (a \in Docking /\ b \in Docking)

Ordered(todo) == \A i, j \in DOMAIN todo : i < j => Precedes(todo[i].do, todo[j].do)

Planned ==
  /\ \A t \in Left : t.do \in Repertoire(op.step)
  /\ \A t \in Left : t.do \in Moving => t.s \in op.scope
  /\ Ordered(op.todo)
  /\ op.step \notin {"Noop", "Stop"} => op.rel \in Releases

(* Layer 3: a first install has its credential before its bundle, and      *)
(* every other effector works on an installed stack.                       *)
Credentialed ==
  /\ ContainersHaveCredential
  /\ op.step = "Install" => /\ Due("promote") \/ store = "active"
                            /\ Due("activateBundle") => ~stack.there
  /\ op.step \notin {"Noop", "Stop", "Install"} => stack.there

(* Layer 4: what each of the three replacements has reached.               *)
ImagesReplaced ==
  op.step = "ReplaceImages" =>
    /\ SameFiles(op.rel)
    /\ Due("stagePins") => Due("commitPins")
    /\ Due("commitPins") \/ SameStatic(op.rel)
    /\ \/ Due("verify")
       \/ /\ \A t \in Left : t.do \notin Docking
          /\ \A s \in Services :
               con[s].id \in {"seen", "made"} => con[s].image = Policy[op.rel].image[s]

ConfigReplaced ==
  op.step = "ReplaceConfig" =>
    /\ stack.pins = Policy[op.rel].image /\ stack.route = Policy[op.rel].route
    /\ op.scope \subseteq Gateways
    /\ \A g \in Gateways \ op.scope : stack.tmpl[g] = Policy[op.rel].tmpl[g]
    /\ \A t \in Left : t.do \in {"commitTemplate", "render", "remove"} => op.scope = {t.s}
    /\ Due("stageTemplate") => Due("commitTemplate")
    /\ Due("commitTemplate") => Due("render")
    /\ Due("render") => Due("remove")
    /\ Due("commitTemplate") \/ SameStatic(op.rel)
    /\ Due("render") \/ \A g \in op.scope : stack.rendered[g] = stack.tmpl[g]
    /\ \/ Due("remove")
       \/ \A g \in op.scope :
            con[g].id # "seen" /\ (con[g].run => con[g].cfg = stack.rendered[g])

ManagedReplaced ==
  op.step = "ReplaceManaged" =>
    /\ stack.pins = Policy[op.rel].image /\ stack.tmpl = Policy[op.rel].tmpl
    /\ Due("stageManifest") => Due("commitManifest")
    /\ Due("commitManifest") => Policy[op.rel].route
    /\ Due("removeManifest") => ~Policy[op.rel].route
    /\ Due("commitManifest") \/ ~stack.next
    /\ Due("commitManifest") \/ Due("removeManifest") \/ stack.route = Policy[op.rel].route

SafeInv == Planned /\ Credentialed /\ ImagesReplaced /\ ConfigReplaced /\ ManagedReplaced
=============================================================================
