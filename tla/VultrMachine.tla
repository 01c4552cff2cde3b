--------------------------- MODULE VultrMachine ---------------------------
(***************************************************************************)
(* The machine: plan_machine, the one-time first use (the only owner of    *)
(* CREATE) and its abort, the general apply on an existing machine, access *)
(* to it, and destroy with an authority that may be old.  Modelled from    *)
(* edge-control-plane.yml, host_first_use_abort.py,                        *)
(* vultr_lifecycle.rs, vultr_lifecycle_service.rs and                      *)
(* vultr_lifecycle_command.rs.                                             *)
(***************************************************************************)
EXTENDS VultrSupport

(***************************************************************************)
(* build_inventory: every instance, with its firewall profile when its     *)
(* group is a verified one.                                                *)
(***************************************************************************)
Inventory(inst, bind) == {[mach |-> i, verified |-> i.fw \in bind] : i \in inst}
Owned(inv) == {r \in inv : r.mach.own = "exact"}

(***************************************************************************)
(* plan_machine.                                                           *)
(***************************************************************************)
PlanMachine(inv) ==
    LET own == Owned(inv) IN
    CASE Cardinality(own) > 1 -> "ambiguous"
      [] own = {} /\ \E r \in inv : r.mach.own = "conflict" -> "drift"
      [] own = {} /\ \A r \in inv : r.mach.own # "conflict" -> "create"
      [] OTHER -> LET r == CHOOSE x \in own : TRUE IN
                  IF r.mach.drift = "replace" THEN "replace"
                  ELSE IF r.verified /\ r.mach.drift = "none" THEN "noop"
                  ELSE "update"

Observe == Inventory(cloud.inst, job.bind)

(***************************************************************************)
(* A job begins by listing the verified firewall bindings.                 *)
(***************************************************************************)
StartWithBindings(from, to) ==
    /\ At(from)
    /\ IF Ambiguous(cloud) THEN End
       ELSE GotoWith([job EXCEPT !.bind = Bindings(cloud)], to)
    /\ UNCHANGED <<cloudVars, git, issued>>

(***************************************************************************)
(* host_first_use_provider_preflight, run by the preflight step of the     *)
(* workflow and again by host_first_use.                                   *)
(***************************************************************************)
Preflight(from, to) ==
    /\ At(from)
    /\ IF PlanMachine(Observe) = "create" THEN Goto(to) ELSE End
    /\ UNCHANGED <<cloudVars, git, issued>>

FirstUse ==
    /\ At("idle")
    /\ GotoWith(Idle, "fuBind")
    /\ UNCHANGED <<cloudVars, git, issued>>

(***************************************************************************)
(* The workflow's reservation: no earlier receipt branch of this machine,  *)
(* then the branch, then the BEGIN comment, then the runner's registration *)
(* capability, without which the CREATE step is skipped.  GitHub keeps the *)
(* outcome of the run.                                                     *)
(***************************************************************************)
(***************************************************************************)
(* Broken on purpose: an earlier receipt branch is not looked for.         *)
(***************************************************************************)
SkipBranchCheck ==
    /\ At("fuRefs")
    /\ Goto("fuReserve")
    /\ UNCHANGED <<cloudVars, git, issued>>

CheckBranch ==
    /\ At("fuRefs")
    /\ IF git.branch THEN End ELSE Goto("fuReserve")
    /\ UNCHANGED <<cloudVars, git, issued>>

ReserveBranch ==
    /\ At("fuReserve")
    /\ git' = [branch |-> TRUE, run |-> "none"]
    /\ Goto("fuBegin")
    /\ UNCHANGED <<cloudVars, issued>>

RecordBegin ==
    /\ At("fuBegin")
    /\ git' = [git EXCEPT !.run = "begun"]
    /\ Goto("fuRunner")
    /\ UNCHANGED <<cloudVars, issued>>

RunnerCapability ==
    /\ At("fuRunner")
    /\ \/ git' = [git EXCEPT !.run = "entered"] /\ Goto("fuBind2")
       \/ git' = [git EXCEPT !.run = "skipped"] /\ End
    /\ UNCHANGED <<cloudVars, issued>>

(***************************************************************************)
(* host_first_use: provision the firewall group if no verified one exists. *)
(***************************************************************************)
FirstUseFirewall ==
    /\ At("fuBind3")
    /\ \/ Ambiguous(cloud) /\ End
       \/ /\ ~Ambiguous(cloud)
          /\ LET b == Bindings(cloud) IN
             IF b # {} THEN GotoWith([job EXCEPT !.bind = b], "fuPlan")
             ELSE GotoWith([job EXCEPT !.bind = b, !.ret = "fuPlan", !.want = "keep"], "fwObserve")
    /\ UNCHANGED <<cloudVars, git, issued>>

FirstUsePlan ==
    /\ At("fuPlan")
    /\ IF PlanMachine(Observe) = "create"
       THEN GotoWith([job EXCEPT !.auth.inv = Observe], "fuApply")
       ELSE End
    /\ UNCHANGED <<cloudVars, git, issued>>

(***************************************************************************)
(* apply_machine_with_firewall_profiles: observe again, verify the         *)
(* authority, send CREATE once, re-observe until the machine is seen.      *)
(***************************************************************************)
FirstUseVerify ==
    /\ At("fuApply")
    /\ IF Observe = job.auth.inv THEN Goto("fuSend") ELSE End
    /\ UNCHANGED <<cloudVars, git, issued>>

SendCreate ==
    /\ At("fuSend")
    /\ \E b \in job.bind : Send([NoRequest EXCEPT !.op = "create", !.arg = b], "fuWait")

ReobserveCreated ==
    /\ At("fuWait")
    /\ CASE PlanMachine(Observe) = "create" -> Again
         [] PlanMachine(Observe) = "noop"   -> Goto("created")
         [] OTHER                           -> End
    /\ UNCHANGED <<cloudVars, git, issued>>

Created ==
    /\ At("created")
    /\ git' = [git EXCEPT !.run = "created"]
    /\ End
    /\ UNCHANGED <<cloudVars, issued>>

FirstUseSteps ==
    \/ FirstUse
    \/ StartWithBindings("fuBind", "fuInst") \/ Preflight("fuInst", "fuRefs")
    \/ CheckBranch \/ ReserveBranch \/ RecordBegin \/ RunnerCapability
    \/ StartWithBindings("fuBind2", "fuInst2") \/ Preflight("fuInst2", "fuBind3")
    \/ FirstUseFirewall \/ FirstUsePlan \/ FirstUseVerify
    \/ SendCreate \/ ReobserveCreated \/ Created

(***************************************************************************)
(* host_first_use_abort: a reservation whose CREATE step was skipped is    *)
(* retired, after the same preflight has proved the machine absent.        *)
(***************************************************************************)
NoReservation == [branch |-> FALSE, run |-> "none"]

AbortFirstUse ==
    /\ At("idle")
    /\ git.branch
    /\ GotoWith(Idle, "abBind")
    /\ UNCHANGED <<cloudVars, git, issued>>

Reconcile ==
    /\ At("abRef")
    /\ git' = IF git.run = "skipped" THEN NoReservation ELSE git
    /\ End
    /\ UNCHANGED <<cloudVars, issued>>

AbortSteps ==
    \/ AbortFirstUse \/ Reconcile
    \/ StartWithBindings("abBind", "abInst") \/ Preflight("abInst", "abRef")

(***************************************************************************)
(* External: once a first use is complete, its receipt is merged, and for  *)
(* a new epoch of the VM people delete the merged branch.                  *)
(***************************************************************************)
NewEpoch ==
    /\ At("idle")
    /\ git.branch /\ git.run = "created"
    /\ git' = NoReservation
    /\ UNCHANGED <<cloudVars, job, issued>>

(***************************************************************************)
(* apply_machine_value: never creates, may only bring the firewall of an   *)
(* existing machine into line, and keeps to the inventory it started from. *)
(***************************************************************************)
ApplyMachine ==
    /\ At("idle")
    /\ GotoWith([Idle EXCEPT !.ret = "gaAfter"], "gaBind")
    /\ UNCHANGED <<cloudVars, git, issued>>

ApplyPlan ==
    /\ At("gaPlan")
    /\ LET class == PlanMachine(Observe)
           j == [job EXCEPT !.auth.inv = Observe] IN
       CASE class = "noop"   -> GotoWith([j EXCEPT !.pass = "apply"], "gaAfter")
         [] class = "update" -> GotoWith(j, "fwObserve")
         [] OTHER            -> End
    /\ UNCHANGED <<cloudVars, git, issued>>

ApplyAfter ==
    /\ At("gaAfter")
    /\ IF job.pass = "apply" /\ Observe = job.auth.inv THEN Goto("gaApply") ELSE End
    /\ UNCHANGED <<cloudVars, git, issued>>

ApplyVerify == At("gaApply") /\ End /\ UNCHANGED <<cloudVars, git, issued>>

ApplySteps ==
    ApplyMachine \/ StartWithBindings("gaBind", "gaPlan") \/ ApplyPlan \/ ApplyAfter \/ ApplyVerify

(***************************************************************************)
(* acquire_access_with_authority: plan, verify, open access in the group,  *)
(* and prove that the plan is now NOOP.  The binding is verified against   *)
(* the profile with the controller's rules in it.                          *)
(***************************************************************************)
AccessBindings(c) ==
    {g.id : g \in {h \in c.groups : RulesMatch(h.rules) /\ Cardinality(Specs(h.rules, "ctl")) = 1}}

AccessClass(c) ==
    LET inv == Inventory(c.inst, AccessBindings(c))
        firewallOnly == \E r \in Owned(inv) : r.mach.drift = "none" IN
    CASE PlanMachine(inv) = "noop" -> "noop"
      [] PlanMachine(inv) = "update" /\ firewallOnly -> "acquire"
      [] OTHER -> "blocked"

Acquire ==
    /\ At("idle")
    /\ GotoWith([Idle EXCEPT !.want = "ctl", !.ret = "acqCheck"], "acqPlan")
    /\ UNCHANGED <<cloudVars, git, issued>>

AcquirePlan ==
    /\ At("acqPlan")
    /\ IF Ambiguous(cloud) THEN End
       ELSE GotoWith([job EXCEPT !.auth.inv = cloud.inst, !.auth.atts = cloud.groups], "acqVerify")
    /\ UNCHANGED <<cloudVars, git, issued>>

AcquireVerify ==
    /\ At("acqVerify")
    /\ IF /\ job.auth.inv = cloud.inst /\ job.auth.atts = cloud.groups
          /\ AccessClass(cloud) = "acquire"
       THEN Goto("fwObserve") ELSE End
    /\ UNCHANGED <<cloudVars, git, issued>>

(***************************************************************************)
(* Either way the job is over; only the wording of its report differs.     *)
(***************************************************************************)
AcquireCheck == At("acqCheck") /\ End /\ UNCHANGED <<cloudVars, git, issued>>

AcquireSteps == Acquire \/ AcquirePlan \/ AcquireVerify \/ AcquireCheck

(***************************************************************************)
(* build_destroy_plan and authorize_vultr_destroy: a job that prints an    *)
(* authority.  top is history: objects created later have larger ids.      *)
(***************************************************************************)
PlanDestroy ==
    /\ At("idle")
    /\ GotoWith(Idle, "dpBind")
    /\ UNCHANGED <<cloudVars, git, issued>>

IssueDestroy ==
    /\ At("dpInst")
    /\ LET own == Owned(Observe) IN
       IF Cardinality(own) = 1
       THEN issued' = [NoAuthority EXCEPT !.inv = Observe, !.top = cloud.next,
                                          !.tgt = (CHOOSE r \in own : TRUE).mach.id]
       ELSE UNCHANGED issued
    /\ End
    /\ UNCHANGED <<cloudVars, git>>

(***************************************************************************)
(* destroy_machine_with_firewall_profiles with the authority issued: the   *)
(* digest covers the whole inventory, so any change makes it stale.        *)
(***************************************************************************)
Destroy ==
    /\ At("idle")
    /\ issued # NoAuthority
    /\ GotoWith([Idle EXCEPT !.auth = issued], "ddBind")
    /\ UNCHANGED <<cloudVars, git, issued>>

(***************************************************************************)
(* Broken on purpose: any single managed machine will do.                  *)
(***************************************************************************)
DestroyAnyOwned(auth, inv) == Cardinality(Owned(inv)) = 1

DestroyAuthorized(auth, inv) == Cardinality(Owned(inv)) = 1 /\ inv = auth.inv

DestroyVerify ==
    /\ At("ddInst")
    /\ IF DestroyAuthorized(job.auth, Observe)
       THEN GotoWith([job EXCEPT !.tgt = (CHOOSE r \in Owned(Observe) : TRUE).mach.id], "ddSend")
       ELSE End
    /\ UNCHANGED <<cloudVars, git, issued>>

SendDestroy ==
    /\ At("ddSend")
    /\ Send([NoRequest EXCEPT !.op = "destroy", !.on = job.tgt], "ddWait")

WaitForAbsence ==
    /\ At("ddWait")
    /\ IF \E i \in cloud.inst : i.id = job.tgt THEN Again ELSE End
    /\ UNCHANGED <<cloudVars, git, issued>>

DestroySteps ==
    \/ PlanDestroy \/ StartWithBindings("dpBind", "dpInst") \/ IssueDestroy
    \/ Destroy \/ StartWithBindings("ddBind", "ddInst")
    \/ DestroyVerify \/ SendDestroy \/ WaitForAbsence
=============================================================================
