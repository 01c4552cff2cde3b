------------------------------- MODULE VmDocker -------------------------------
(***************************************************************************)
(* The Docker effectors of the VM's root agent: docker_observation.rs,     *)
(* docker_native_gateway.rs, docker_managed_file.rs and                    *)
(* network_managed_route.rs of edge-agent.  A signed operation the journal *)
(* (VmOwner) has let through is admitted by a read-only preflight and then *)
(* carried out as a list of single calls to Docker, to the files of the    *)
(* stack directory and to the kernel.  Nothing is rolled back: a call      *)
(* whose answer is lost, or a process that dies, leaves what was done so   *)
(* far, and a later signed operation starts from there.                    *)
(*                                                                         *)
(* The host's three services are WARP and two gateways that depend on it   *)
(* and share one image.  A container's identity is told apart only as far  *)
(* as an operation does: it was there when the operation was admitted      *)
(* ("seen"), the operation made it ("made") or somebody else did           *)
(* ("foreign").  A rendered configuration is named after the template it   *)
(* was rendered from, and "cfg" is the one the process has read.  One      *)
(* kernel route stands for the managed routes, nft tables, DNS links and   *)
(* Docker objects, each with one manifest file under managed/.             *)
(***************************************************************************)
EXTENDS HostPlanner, Naturals, FiniteSets, Sequences

CONSTANTS Policy,      \* the bundle of a release: images, templates, route
          MaxFaults    \* bound on deaths, lost answers and disturbances

Warp     == "warp-egress"
Gateways == {"line1-gateway", "line2-proxy"}
Services == Gateways \cup {Warp}

Images    == UNION {{Policy[r].image[s] : s \in Services} : r \in Releases}
Templates == UNION {{Policy[r].tmpl[g] : g \in Gateways} : r \in Releases}
None      == "none"
Torn      == "torn"

(* A bundle pins one image for each service and has one template for each  *)
(* gateway.  validate_gateway_image_ownership: one image for both gateways *)
(* and none of it for WARP.                                                *)
ASSUME PolicyAssumption ==
  /\ Policy \in [Releases -> [image : [Services -> Images],
                             tmpl  : [Gateways -> Templates], route : BOOLEAN]]
  /\ \A r \in Releases :
       /\ \A g, h \in Gateways : Policy[r].image[g] = Policy[r].image[h]
       /\ \A g \in Gateways : Policy[r].image[g] # Policy[r].image[Warp]

(* "none" is no image and no template, half a marker is no release.        *)
ASSUME NoneAssumption ==
  None \notin Images \cup Templates /\ Torn \notin Releases \cup {NoRelease}

ASSUME BoundAssumption == MaxFaults \in Nat

VARIABLES con,      \* service -> its container
          stack,    \* the installed stack directory
          staging,  \* the staging directory of a first install exists
          store,    \* the credential store: absent, candidate or active
          net,      \* the Docker network edge_net exists
          route,    \* the managed kernel route: absent, present or foreign
          op,       \* the operation being carried out
          faults

vars == <<con, stack, staging, store, net, route, op, faults>>

Absent == [id |-> None, run |-> FALSE, image |-> None, cfg |-> None, net |-> None]

NoStack == [there |-> FALSE, pins |-> [s \in Services |-> None],
            tmpl |-> [g \in Gateways |-> None],
            rendered |-> [g \in Gateways |-> None],
            route |-> FALSE, next |-> FALSE, marker |-> NoRelease]

NoOp == [step |-> "Noop", rel |-> NoRelease, scope |-> {}, seen |-> {}, todo |-> <<>>]

Present(s) == con[s].id # None

(* What a first install writes; the marker goes in with the rest.          *)
Bundle(r) ==
  [there |-> TRUE, pins |-> Policy[r].image, tmpl |-> Policy[r].tmpl,
   rendered |-> Policy[r].tmpl, route |-> Policy[r].route, next |-> FALSE,
   marker |-> r]

Container(s, id, run, r, attached) ==
  [id |-> id, run |-> run, image |-> Policy[r].image[s],
   cfg |-> IF s = Warp THEN None ELSE Policy[r].tmpl[s], net |-> attached]

(***************************************************************************)
(* A VM without the application, or one that runs it; containers made by   *)
(* an earlier agent may lack their service alias on the network.           *)
(***************************************************************************)
Init ==
  /\ op = NoOp /\ faults = 0 /\ staging = FALSE
  /\ \/ /\ con = [s \in Services |-> Absent] /\ stack = NoStack
        /\ store \in {"absent", "active"} /\ net = FALSE /\ route = "absent"
     \/ \E r \in Releases, old \in BOOLEAN :
          /\ con = [s \in Services |->
                      Container(s, "seen", TRUE, r,
                                IF old THEN "noalias" ELSE "alias")]
          /\ stack = Bundle(r) /\ store = "active" /\ net = TRUE
          /\ route = IF Policy[r].route THEN "present" ELSE "absent"
-----------------------------------------------------------------------------
(***************************************************************************)
(* What the preflights read.                                               *)
(***************************************************************************)

(* verify_exact_installed_vm_bundle_static: the files are the release's,   *)
(* and no file is left over from an operation that died.                   *)
SameFiles(r)     == stack.tmpl = Policy[r].tmpl /\ stack.route = Policy[r].route
SameStatic(r)    == stack.pins = Policy[r].image /\ SameFiles(r) /\ ~stack.next

(* propose_vm_graph_reconcile: images and templates; the managed files are *)
(* not part of the graph.                                                  *)
ChangedImages(r)  == {s \in Services : stack.pins[s] # Policy[r].image[s]}
ChangedConfigs(r) == {g \in Gateways : stack.tmpl[g] # Policy[r].tmpl[g]}

Attached(s) == con[s].net # "detached"

(* verify_vm_network_attachments, without and with the service alias; a    *)
(* stopped WARP is only asked for its network.                             *)
OnNetwork == net /\ \A s \in Services : Attached(s)
AllAliased ==
  /\ net
  /\ \A s \in Services : con[s].net = "alias" \/ (s = Warp /\ ~con[s].run /\ Attached(s))

MissingAliases == {s \in Services : con[s].run /\ con[s].net = "noalias"}

(* valid_gateway_image_replace_prestate: only a WARP that will be replaced *)
(* may be stopped.                                                         *)
ReplacePrestate(target) ==
  /\ \A s \in Services : Present(s)
  /\ \A g \in Gateways : con[g].run
  /\ con[Warp].run \/ con[Warp].image # target[Warp]

ImageDrift(pins) == {s \in Services : con[s].image # pins[s]}

(* classify_managed_network_recovery.                                      *)
NetworkConverged == stack.route => route = "present"
KnownMissing     == stack.route /\ route = "absent"
-----------------------------------------------------------------------------
(***************************************************************************)
(* The calls an operation is made of, as a list of tasks.                  *)
(***************************************************************************)
Task(do, s, v) == [do |-> do, s |-> s, v |-> v]
Plain(do)      == Task(do, None, None)

(* owned_vm_start_order and its reverse, dependencies first, and the order *)
(* of an image replacement: in each the calls of the services in S.        *)
StartOrder   == <<Warp, "line1-gateway", "line2-proxy">>
StopOrder    == <<"line2-proxy", "line1-gateway", Warp>>
ReplaceOrder == <<Warp, "line2-proxy", "line1-gateway">>

ForEach(order, S, calls) ==
  LET Of(s) == IF s \in S THEN calls[s] ELSE <<>>
  IN  Of(order[1]) \o Of(order[2]) \o Of(order[3])

(* native_create_vm_container_once.                                        *)
Creation(s, image) == <<Task("create", s, image), Task("start", s, "made")>>

(* recreate_native_vm_container_once.                                      *)
Recreation(s, image) ==
  <<Task("halt", s, "seen"), Task("remove", s, "seen")>> \o Creation(s, image)

(* apply_owned_vm_service_aliases_once; after an image replacement it is   *)
(* given the containers as they are then.                                  *)
Realiasing(s)    == <<Task("disconnect", s, "seen"), Task("connect", s, "seen")>>
RealiasingAny(s) == <<Task("disconnect", s, "any"), Task("connect", s, "any")>>

(* Broken on purpose: the order of the agent before this one, which        *)
(* committed the image pins first.                                         *)
ImageTasksPinsFirst(target, drift, aliases, commit) ==
  <<Plain("recheck")>>
    \o (IF commit THEN <<Plain("stagePins"), Plain("commitPins")>> ELSE <<>>)
    \o ForEach(ReplaceOrder, drift, [s \in Services |-> Recreation(s, target[s])])
    \o ForEach(StartOrder, aliases \ drift, [s \in Services |-> RealiasingAny(s)])
    \o <<Plain("verify"), Plain("marker")>>

(* apply_gateway_image_replace_once: WARP, then the gateways, and the pins *)
(* only after every container has been read back.                          *)
ImageTasks(target, drift, aliases, commit) ==
  <<Plain("recheck")>>
    \o ForEach(ReplaceOrder, drift, [s \in Services |-> Recreation(s, target[s])])
    \o ForEach(StartOrder, aliases \ drift, [s \in Services |-> RealiasingAny(s)])
    \o <<Plain("verify")>>
    \o (IF commit THEN <<Plain("stagePins"), Plain("commitPins")>> ELSE <<>>)
    \o <<Plain("marker")>>

(* Broken on purpose: the gateway is replaced before its configuration is  *)
(* rendered.                                                               *)
ConfigTasksRenderLate(g, image) ==
  <<Plain("recheck"), Task("stageTemplate", g, None), Task("commitTemplate", g, None)>>
    \o Recreation(g, image)
    \o <<Task("render", g, None), Plain("verify"), Plain("marker")>>

(* apply_native_vm_scoped_replace_once.                                    *)
ConfigTasks(g, image) ==
  <<Plain("recheck"), Task("stageTemplate", g, None), Task("commitTemplate", g, None),
    Task("render", g, None)>>
    \o Recreation(g, image) \o <<Plain("verify"), Plain("marker")>>

(* apply_native_vm_managed_file_once: the kernel first, then the manifest; *)
(* a repair leaves the manifest alone.                                     *)
ManagedTasks(create, repair) ==
  <<Plain("recheck"), Plain(IF create THEN "addRoute" ELSE "delRoute")>>
    \o (IF repair THEN <<Plain("verify")>>
        ELSE IF create THEN <<Plain("stageManifest"), Plain("commitManifest")>>
        ELSE <<Plain("removeManifest")>>)
    \o <<Plain("marker")>>

(* Broken on purpose: the bundle is activated before the credential.       *)
InstallTasksBundleFirst(r, fresh) ==
  <<Plain("recheck"), Plain("stageBundle"), Plain("activateBundle"), Plain("network")>>
    \o ForEach(StartOrder, Services, [s \in Services |-> Creation(s, Policy[r].image[s])])
    \o (IF fresh THEN <<Plain("candidate"), Plain("promote")>> ELSE <<>>)
    \o <<Plain("verify")>>

(* apply_native_vm_install_once.                                           *)
InstallTasks(r, fresh) ==
  <<Plain("recheck")>>
    \o (IF fresh THEN <<Plain("candidate"), Plain("promote")>> ELSE <<>>)
    \o <<Plain("stageBundle"), Plain("activateBundle"), Plain("network")>>
    \o ForEach(StartOrder, Services, [s \in Services |-> Creation(s, Policy[r].image[s])])
    \o <<Plain("verify")>>

(* apply_native_vm_run_once, START ...                                     *)
StartTasks(aliases, missing, stopped) ==
  <<Plain("recheck")>>
    \o ForEach(StartOrder, aliases, [s \in Services |-> Realiasing(s)])
    \o ForEach(StartOrder, missing, [s \in Services |-> Creation(s, stack.pins[s])])
    \o ForEach(StartOrder, stopped, [s \in Services |-> <<Task("start", s, "seen")>>])
    \o <<Task("verify", None, IF aliases \cup missing = {} THEN None ELSE "wired")>>

(* ... a START that restores the one lost route, and STOP.                 *)
RepairTasks == <<Plain("recheck"), Plain("addRoute"), Plain("verify")>>

StopTasks(running) ==
  <<Plain("recheck")>>
    \o ForEach(StopOrder, running, [s \in Services |-> <<Task("stop", s, "seen")>>])
    \o <<Plain("verify")>>
-----------------------------------------------------------------------------
(***************************************************************************)
(* Admission.  The readback the planner asked for a step from, and the     *)
(* preflight of that step, are taken under one owner lock.                 *)
(***************************************************************************)
Begin(step, r, scope, todo) ==
  /\ op = NoOp
  /\ op' = [step |-> step, rel |-> r, scope |-> scope, todo |-> todo,
            seen |-> {<<s, con[s].run, con[s].image>> : s \in {t \in Services : Present(t)}}]
  /\ con' = [s \in Services |-> IF Present(s) THEN [con[s] EXCEPT !.id = "seen"] ELSE Absent]
  /\ UNCHANGED <<stack, staging, store, net, route, faults>>

(* preflight_native_vm_install.                                            *)
InstallAdmitted ==
  /\ ~stack.there /\ ~staging /\ ~net
  /\ \A s \in Services : ~Present(s)
  /\ store \in {"absent", "active"}

Install(r) ==
  /\ InstallAdmitted
  /\ Begin("Install", r, Services, InstallTasks(r, store = "absent"))

(* preflight_native_vm_run for STOP, which asks for no configuration.      *)
StopRun ==
  LET running == {s \in Services : con[s].run} IN
  /\ running # {}
  /\ Begin("Stop", NoRelease, running, StopTasks(running))

(* preflight_native_vm_run for START.  One gateway at most may be missing, *)
(* with everything else running; a lost route is restored alone.           *)
StartRun(r) ==
  LET missing == {s \in Services : ~Present(s)}
      stopped == {s \in Services : Present(s) /\ ~con[s].run}
      aliases == IF missing = {} THEN MissingAliases ELSE {} IN
  /\ stack.there /\ stack.marker = r /\ SameStatic(r) /\ store = "active"
  /\ \A s \in Services \ missing : con[s].image = stack.pins[s]
  /\ net /\ \A s \in Services \ missing : con[s].run => Attached(s)
  /\ missing # {} =>
       /\ Cardinality(missing) = 1 /\ missing \subseteq Gateways /\ stopped = {}
       /\ \A s \in Services \ missing : con[s].net = "alias"
  /\ \/ /\ missing \cup stopped \cup aliases # {}
        /\ NetworkConverged
        /\ Begin("Start", r, missing \cup stopped \cup aliases,
                 StartTasks(aliases, missing, stopped))
     \/ /\ missing \cup stopped \cup aliases = {}
        /\ KnownMissing
        /\ Begin("Start", r, {}, RepairTasks)

(* preflight_native_vm_replace: which of the three effectors the change    *)
(* belongs to; anything else is refused.                                   *)
Replaceable(r) == stack.there /\ stack.marker \in Releases \ {r}

ImageChange(r) ==
  /\ ChangedConfigs(r) = {} /\ SameFiles(r) /\ ~stack.next
  /\ Gateways \subseteq ChangedImages(r)

StagedDrift(r) == SameStatic(r) /\ ImageDrift(stack.pins) # {}

(* preflight_gateway_image_replace: a policy change, or pins that are the  *)
(* release's already over containers that are not.                         *)
ImageAdmitted(r) ==
  /\ Replaceable(r)
  /\ ImageChange(r) \/ StagedDrift(r)
  /\ ReplacePrestate(Policy[r].image) /\ OnNetwork

ReplaceImages(r) ==
  LET target == Policy[r].image IN
  /\ ImageAdmitted(r)
  /\ Begin("ReplaceImages", r, ImageDrift(target) \cup MissingAliases,
           ImageTasks(target, ImageDrift(target), MissingAliases, stack.pins # target))

(* preflight_native_vm_scoped_replace: exactly one template, all containers*)
(* running on their pins and on the network.                               *)
ReplaceConfig(r) ==
  \E g \in Gateways :
    /\ Replaceable(r)
    /\ ChangedImages(r) = {} /\ ChangedConfigs(r) = {g}
    /\ stack.route = Policy[r].route /\ ~stack.next
    /\ \A s \in Services : con[s].run
    /\ ImageDrift(stack.pins) = {} /\ AllAliased
    /\ Begin("ReplaceConfig", r, {g}, ConfigTasks(g, stack.pins[g]))

(* preflight_native_vm_managed_file and preflight_managed_route.           *)
ReplaceManaged(r) ==
  LET repair == stack.route = Policy[r].route
      create == Policy[r].route IN
  /\ Replaceable(r)
  /\ ChangedImages(r) = {} /\ ChangedConfigs(r) = {} /\ ~stack.next
  /\ ReplacePrestate(stack.pins) /\ OnNetwork /\ ImageDrift(stack.pins) = {}
  /\ repair => create
  /\ route = (IF create THEN "absent" ELSE "present")
  /\ Begin("ReplaceManaged", r, {}, ManagedTasks(create, repair))

Admission ==
  \/ StopRun
  \/ \E r \in Releases : \/ Install(r) \/ StartRun(r)
                         \/ ReplaceImages(r) \/ ReplaceConfig(r) \/ ReplaceManaged(r)
-----------------------------------------------------------------------------
(***************************************************************************)
(* One call.  Docker refuses what names a container that is not there.     *)
(***************************************************************************)
Files   == <<stack, staging, store>>
Outside == <<net, route>>

Becomes(s, c) == con' = [con EXCEPT ![s] = c] /\ UNCHANGED <<Files, Outside>>

(* Broken on purpose: containers are addressed by name.                    *)
NamesByName(t) == Present(t.s)
Names(t)       == Present(t.s) /\ t.v \in {con[t.s].id, "any"}

Loaded(s) == IF s = Warp THEN None ELSE stack.rendered[s]

StopContainer(t) ==
  /\ t.do \in {"stop", "halt"} /\ Names(t)
  /\ t.do = "halt" => con[t.s].run \/ t.s = Warp
  /\ Becomes(t.s, [con[t.s] EXCEPT !.run = FALSE])

RemoveContainer(t) ==
  /\ t.do = "remove" /\ Names(t) /\ ~con[t.s].run
  /\ Becomes(t.s, Absent)

(* Broken on purpose: the image is taken by its tag.                       *)
CreateContainerByTag(t) ==
  /\ t.do = "create" /\ ~Present(t.s) /\ net
  /\ Becomes(t.s, [id |-> "made", run |-> FALSE, image |-> "latest", cfg |-> None,
                   net |-> "alias"])

CreateContainer(t) ==
  /\ t.do = "create" /\ ~Present(t.s) /\ net
  /\ Becomes(t.s, [id |-> "made", run |-> FALSE, image |-> t.v, cfg |-> None,
                   net |-> "alias"])

StartContainer(t) ==
  /\ t.do = "start" /\ Names(t)
  /\ Becomes(t.s, [con[t.s] EXCEPT !.run = TRUE,
                                   !.cfg = IF con[t.s].run THEN @ ELSE Loaded(t.s)])

DisconnectNetwork(t) ==
  /\ t.do = "disconnect" /\ Names(t) /\ con[t.s].run
  /\ con[t.s].net = "noalias" \/ (con[t.s].net = "alias" /\ t.v = "any")
  /\ Becomes(t.s, [con[t.s] EXCEPT !.net = IF @ = "alias" THEN @ ELSE "detached"])

ConnectNetwork(t) ==
  /\ t.do = "connect" /\ Names(t)
  /\ Becomes(t.s, [con[t.s] EXCEPT !.net = "alias"])

CreateNetwork(t) ==
  /\ t.do = "network" /\ net' = TRUE /\ UNCHANGED <<con, Files, route>>

(* apply_managed_route_once: the table must still be as it was admitted.   *)
ChangeRoute(t) ==
  /\ \/ t.do = "addRoute" /\ route = "absent" /\ route' = "present"
     \/ t.do = "delRoute" /\ route = "present" /\ route' = "absent"
  /\ UNCHANGED <<con, Files, net>>

(* activate_native_vm_first_use_cursor_once.                               *)
ActivateCredential(t) ==
  /\ \/ t.do = "candidate" /\ store = "absent" /\ store' = "candidate"
     \/ t.do = "promote" /\ store = "candidate" /\ store' = "active"
  /\ UNCHANGED <<con, stack, staging, Outside>>

(* stage_native_first_vm_bundle: nothing but the rename makes it visible.  *)
InstallBundle(t) ==
  /\ \/ t.do = "stageBundle" /\ ~staging /\ staging' = TRUE /\ stack' = stack
     \/ t.do = "activateBundle" /\ staging' = FALSE /\ stack' = Bundle(op.rel)
  /\ UNCHANGED <<con, store, Outside>>

(* The files of an installed stack: each is written beside the old one and *)
(* renamed over it; the rendered file is rewritten in place.               *)
WriteFile(t) ==
  LET new == Policy[op.rel] IN
  /\ stack' = CASE t.do \in {"stagePins", "stageTemplate", "stageManifest"} ->
                     [stack EXCEPT !.next = TRUE]
                [] t.do = "commitPins" ->
                     [stack EXCEPT !.pins = new.image, !.next = FALSE]
                [] t.do = "commitTemplate" ->
                     [stack EXCEPT !.tmpl[t.s] = new.tmpl[t.s], !.next = FALSE]
                [] t.do = "render" -> [stack EXCEPT !.rendered[t.s] = stack.tmpl[t.s]]
                [] t.do = "commitManifest" ->
                     [stack EXCEPT !.route = TRUE, !.next = FALSE]
                [] t.do = "removeManifest" -> [stack EXCEPT !.route = FALSE]
                [] t.do = "marker" -> [stack EXCEPT !.marker = op.rel]
  /\ UNCHANGED <<con, staging, store, Outside>>

FileTasks == {"stagePins", "commitPins", "stageTemplate", "commitTemplate", "render",
              "stageManifest", "commitManifest", "removeManifest", "marker"}

(* check_owned_vm_snapshot: the containers are still the ones seen.  A     *)
(* managed file is not bound to them.                                      *)
Unmoved ==
  op.step # "ReplaceManaged" =>
  /\ op.seen = {<<s, con[s].run, con[s].image>> : s \in {t \in Services : Present(t)}}
  /\ \A s \in Services : con[s].id \in {None, "seen"}
  /\ op.step = "Install" => ~net

SeenRunning(s) == \E i \in Images : <<s, TRUE, i>> \in op.seen
Seen(s)        == \E b \in BOOLEAN, i \in Images : <<s, b, i>> \in op.seen

(* The poststate every image replacement is read back with.                *)
ReplacedImages ==
  /\ \A s \in Services :
       /\ con[s].run /\ con[s].image = Policy[op.rel].image[s]
       /\ <<s, con[s].run, con[s].image>> \in op.seen <=> con[s].id = "seen"
  /\ AllAliased

ReplacedConfig ==
  /\ \A s \in Services :
       /\ con[s].run /\ SeenRunning(s)
       /\ con[s].image = stack.pins[s]
       /\ (con[s].id = "seen") <=> (s \notin op.scope)
  /\ stack.tmpl = Policy[op.rel].tmpl
  /\ \A g \in op.scope : stack.rendered[g] = Policy[op.rel].tmpl[g]

Started(t) ==
  /\ \A s \in Services :
       /\ con[s].run /\ con[s].image = stack.pins[s]
       /\ Seen(s) => con[s].id = "seen"
  /\ t.v = "wired" => AllAliased
  /\ op.scope = {} => NetworkConverged

Stopped ==
  \A s \in Services : IF Seen(s) THEN con[s].id = "seen" /\ ~con[s].run ELSE ~Present(s)

Installed ==
  /\ \A s \in Services : con[s].run /\ con[s].image = Policy[op.rel].image[s]
  /\ AllAliased /\ store = "active"

Verify(t) ==
  CASE op.step = "Install"        -> Installed
    [] op.step = "Start"          -> Started(t)
    [] op.step = "Stop"           -> Stopped
    [] op.step = "ReplaceImages"  -> ReplacedImages
    [] op.step = "ReplaceConfig"  -> ReplacedConfig
    [] op.step = "ReplaceManaged" -> NetworkConverged

Check(t) ==
  /\ \/ t.do = "recheck" /\ Unmoved
     \/ t.do = "verify" /\ Verify(t)
  /\ UNCHANGED <<con, Files, Outside>>

Effect(t) ==
  \/ StopContainer(t) \/ RemoveContainer(t) \/ CreateContainer(t)
  \/ StartContainer(t) \/ DisconnectNetwork(t) \/ ConnectNetwork(t)
  \/ CreateNetwork(t) \/ ChangeRoute(t) \/ ActivateCredential(t) \/ InstallBundle(t)
  \/ (t.do \in FileTasks /\ WriteFile(t))

Call(t) == Check(t) \/ Effect(t)
-----------------------------------------------------------------------------
(***************************************************************************)
(* The operation goes on, or ends.                                         *)
(***************************************************************************)
Rest == IF Len(op.todo) = 1 THEN NoOp ELSE [op EXCEPT !.todo = Tail(@)]

Proceeds ==
  /\ op.todo # <<>>
  /\ Call(Head(op.todo))
  /\ op' = Rest /\ UNCHANGED faults

(* The call was carried out and its answer lost, or the process died just  *)
(* after it.  Only the STOP of a replacement is read back and goes on.     *)
AnswerLost ==
  /\ faults < MaxFaults /\ Len(op.todo) > 1
  /\ Head(op.todo).do # "halt"
  /\ Effect(Head(op.todo))
  /\ op' = NoOp /\ faults' = faults + 1

(* Any check or call fails, or the process dies before the next call.  The *)
(* marker is written in place, so a death there may leave half of it.      *)
Dies ==
  /\ faults < MaxFaults /\ op.todo # <<>>
  /\ \/ stack' = stack
     \/ Head(op.todo).do = "marker" /\ stack' = [stack EXCEPT !.marker = Torn]
  /\ op' = NoOp /\ faults' = faults + 1
  /\ UNCHANGED <<con, staging, store, Outside>>

(* A check that does not hold ends the operation where it is.              *)
Refuses ==
  /\ op.todo # <<>> /\ ~ENABLED Call(Head(op.todo))
  /\ op' = NoOp
  /\ UNCHANGED <<con, Files, Outside, faults>>
-----------------------------------------------------------------------------
(***************************************************************************)
(* The world around: processes exit, the daemon or a reboot starts them    *)
(* again, an operator recreates a container, a reboot takes the route.     *)
(***************************************************************************)
Disturbs(change) ==
  /\ faults < MaxFaults /\ faults' = faults + 1
  /\ change
  /\ UNCHANGED <<Files, net, op>>

Exits(s) ==
  /\ con[s].run
  /\ con' = [con EXCEPT ![s].run = FALSE] /\ UNCHANGED route

Restarts(s) ==
  /\ Present(s) /\ ~con[s].run
  /\ con' = [con EXCEPT ![s].run = TRUE, ![s].cfg = Loaded(s)] /\ UNCHANGED route

Recreates(s) ==
  /\ stack.there /\ net
  /\ \E r \in Releases :
       con' = [con EXCEPT ![s] = [Container(s, "foreign", TRUE, r, "alias")
                                    EXCEPT !.cfg = Loaded(s)]]
  /\ UNCHANGED route

RouteChanges ==
  /\ \/ route = "present" /\ route' = "absent"
     \/ route = "absent" /\ route' = "foreign"
  /\ UNCHANGED con

Disturbance ==
  \/ \E s \in Services : \/ Disturbs(Exits(s)) \/ Disturbs(Restarts(s))
                         \/ Disturbs(Recreates(s))
  \/ Disturbs(RouteChanges)

Next == Admission \/ Proceeds \/ AnswerLost \/ Dies \/ Refuses \/ Disturbance

Spec == Init /\ [][Next]_vars
-----------------------------------------------------------------------------
(***************************************************************************)
(* The readback of capture_local_host_observation over this state, as far  *)
(* as the planner tells its reason codes apart.                            *)
(***************************************************************************)
AllStopped == \A s \in Services : Present(s) /\ ~con[s].run

(* A VM all of whose containers run: an image that is not the pinned one,  *)
(* a container off the network, consumers that cannot name WARP, a route   *)
(* that is missing or not ours.                                            *)
WhyRunning ==
  IF ImageDrift(stack.pins) # {} \/ ~OnNetwork THEN "other"
  ELSE IF con[Warp].net = "noalias" THEN "consumer"
  ELSE IF NetworkConverged THEN "none"
  ELSE IF KnownMissing THEN "network" ELSE "other"

(* No Compose file, or a container that is not running.  A stopped WARP    *)
(* alone, on its pinned image, is a partial baseline; a stopped gateway    *)
(* also takes its ports away, and a missing container fails the readback.  *)
Why ==
  IF ~stack.there THEN "other"
  ELSE IF \A s \in Services : con[s].run THEN WhyRunning
  ELSE IF /\ \A s \in Services : Present(s) /\ (con[s].run \/ s = Warp)
          /\ ImageDrift(stack.pins) = {} /\ AllAliased /\ NetworkConverged
  THEN "partial"
  ELSE "other"

Readback ==
  LET running == \E s \in Services : con[s].run IN
  [kind |-> "Vm", owner |-> IF running THEN "Running" ELSE "Stopped",
   proof |-> IF stack.marker \in Releases THEN "ApplicationBundle"
             ELSE IF ~stack.there /\ ~running THEN "VerifiedAbsent" ELSE "Unproven",
   release |-> IF stack.marker \in Releases THEN stack.marker ELSE NoRelease,
   readyProven |-> TRUE, ready |-> Why = "none", why |-> Why, fresh |-> TRUE]

Proposal(run, r) ==
  ProposeHostTransition([kind |-> "Vm", run |-> run, mode |-> "Unspecified"], Readback, r)
-----------------------------------------------------------------------------
TypeOK ==
  /\ con \in [Services -> [id : {None, "seen", "made", "foreign"}, run : BOOLEAN,
                           image : Images \cup {None}, cfg : Templates \cup {None},
                           net : {None, "alias", "noalias", "detached"}]]
  /\ stack.marker \in Releases \cup {NoRelease, Torn}
  /\ stack.pins \in [Services -> Images \cup {None}]
  /\ stack.tmpl \in [Gateways -> Templates \cup {None}]
  /\ stack.rendered \in [Gateways -> Templates \cup {None}]
  /\ {stack.there, stack.route, stack.next, staging, net} \subseteq BOOLEAN
  /\ store \in {"absent", "candidate", "active"}
  /\ route \in {"absent", "present", "foreign"}
  /\ op.rel \in Releases \cup {NoRelease} /\ op.scope \subseteq Services
  /\ faults \in 0 .. MaxFaults

(* The image pins of an installed stack only move once every container,    *)
(* those somebody else has touched meanwhile aside, is the one of the new  *)
(* pins: a replacement that dies earlier leaves the old pins, under which  *)
(* it can be seen that it is not complete.                                 *)
PinsFollowContainers ==
  [][stack.there /\ stack'.pins # stack.pins =>
       \A s \in Services : con[s].id \in {"seen", "made"} => con[s].image = stack'.pins[s]]_vars

(* Whichever effector writes the release marker, the files of the stack    *)
(* are by then that release's, none is left half-way, and a gateway whose  *)
(* template changed has been replaced and reads the new configuration.     *)
MarkerSealsRelease ==
  [][stack.there /\ stack'.marker # stack.marker /\ stack'.marker # Torn =>
       /\ SameStatic(stack'.marker)
       /\ op.step = "ReplaceConfig" =>
            \A g \in op.scope :
              con[g].id # "seen" /\ (con[g].run => con[g].cfg = stack.tmpl[g])]_vars

(* An operation stops, removes or starts only the containers its plan      *)
(* names, and of these only the ones it has seen before BEGIN or made:     *)
(* never a neighbour, never one somebody put in their place.               *)
OnlyPlannedContainers ==
  [][op # NoOp /\ faults' = faults =>
       \A s \in Services :
         <<con'[s].id, con'[s].run>> # <<con[s].id, con[s].run>> =>
           s \in op.scope /\ con[s].id # "foreign" /\ con'[s].id # "foreign"]_vars

(* No container exists without an active credential, and no release is     *)
(* marked without one, whatever was interrupted on a first install.        *)
ContainersHaveCredential ==
  (stack.there \/ \E s \in Services : Present(s)) => store = "active"

(* A promise of the readback's comment that its code does not keep.        *)
(* "Stopped VM resources are not a broken observation; do not flag them as *)
(* an evidence error merely because the application is intentionally       *)
(* stopped": the planner is not blocked by a VM that a STOP has brought to *)
(* rest on its release, when it is to run again.                           *)
StoppedIsNoEvidenceError ==
  op = NoOp /\ stack.marker \in Releases /\ AllStopped =>
    Proposal("Running", stack.marker).step # "Blocked"
=============================================================================
