--------------------------- MODULE VultrSupport ---------------------------
(***************************************************************************)
(* Support resources: the owned firewall group and its rules, the          *)
(* controller's transient access, and the cleanup of an unused environment.*)
(* Modelled from vultr_support_resources.rs and the commands that call it. *)
(* SSH keys are created, observed and deleted like groups and are left out.*)
(***************************************************************************)
EXTENDS VultrCloud

(***************************************************************************)
(* observe_verified_firewall_bindings: the group whose rules are exactly   *)
(* the persistent profile; the controller's transient rules do not count.  *)
(***************************************************************************)
Specs(rules, spec) == {x \in rules : x.spec = spec}
RulesMatch(rules) ==
    /\ Specs(rules, "stray") = {}
    /\ Cardinality(Specs(rules, "keep")) = 1
Ambiguous(c) == Cardinality(c.groups) > 1
Bindings(c) == {g.id : g \in {h \in c.groups : RulesMatch(h.rules)}}

(***************************************************************************)
(* reconcile_firewall_rules and reconcile_persistent_firewall_rules: the   *)
(* next mutation for the observed rules, surplus rules first.  The         *)
(* persistent profile neither wants nor removes transient access.          *)
(***************************************************************************)
Wanted == IF job.want = "ctl" THEN {"keep", "ctl"} ELSE {"keep"}
Managed(rules) == {x \in rules : job.want = "ctl" \/ x.spec # "ctl"}
Surplus(rules) ==
    {x \in Managed(rules) : \/ x.spec \notin Wanted
                            \/ \E y \in rules : y.spec = x.spec /\ y.id < x.id}
Missing(rules) == {s \in Wanted : Specs(rules, s) = {}}

RuleRequest(op, g, id, spec) == [op |-> op, on |-> g, arg |-> id, spec |-> spec]

(***************************************************************************)
(* ensure_firewall_profile / ensure_persistent_firewall_profile, called as *)
(* a subroutine: job.want says which, job.ret where to return.             *)
(***************************************************************************)
EnsureObserve ==
    /\ At("fwObserve")
    /\ \/ Ambiguous(cloud) /\ End
       \/ /\ cloud.groups = {}
          /\ Goto("fwCreate")
       \/ \E g \in cloud.groups :
             /\ ~Ambiguous(cloud)
             /\ GotoWith([job EXCEPT !.grp = g.id], "fwRules")
    /\ UNCHANGED <<cloudVars, git, issued>>

EnsureCreate ==
    /\ At("fwCreate")
    /\ Send([NoRequest EXCEPT !.op = "groupCreate"], "fwVisible")

EnsureVisible ==
    /\ At("fwVisible")
    /\ \/ Ambiguous(cloud) /\ End
       \/ cloud.groups = {} /\ Again
       \/ \E g \in cloud.groups :
             /\ ~Ambiguous(cloud)
             /\ GotoWith([job EXCEPT !.grp = g.id], "fwRules")
    /\ UNCHANGED <<cloudVars, git, issued>>

(***************************************************************************)
(* One round of reconciliation: list the rules and pick one mutation.      *)
(***************************************************************************)
EnsureRules ==
    /\ At("fwRules")
    /\ LET rules == RulesOf(cloud, job.grp) IN
       \/ job.grp \notin GroupIds(cloud) /\ End
       \/ /\ job.grp \in GroupIds(cloud)
          /\ \/ /\ Surplus(rules) = {} /\ Missing(rules) = {}
                /\ GotoWith([job EXCEPT !.bind = @ \cup {job.grp}], job.ret)
             \/ \E x \in Surplus(rules) :
                   GotoWith([job EXCEPT !.req = RuleRequest("ruleDelete", job.grp, x.id, "none")], "fwSend")
             \/ /\ Surplus(rules) = {}
                /\ \E s \in Missing(rules) :
                      GotoWith([job EXCEPT !.req = RuleRequest("ruleCreate", job.grp, None, s)], "fwSend")
    /\ UNCHANGED <<cloudVars, git, issued>>

EnsureSend == At("fwSend") /\ Send(job.req, "fwSettle")

(***************************************************************************)
(* create_firewall_rule_and_observe, delete_firewall_rule_and_observe.     *)
(* A create whose answer was lost must be seen exactly once.               *)
(***************************************************************************)
RuleSettled(rules) ==
    IF job.req.op = "ruleDelete" THEN ~\E x \in rules : x.id = job.req.arg
    ELSE Specs(rules, job.req.spec) # {}

EnsureSettle ==
    /\ At("fwSettle")
    /\ LET rules == RulesOf(cloud, job.grp) IN
       \/ job.grp \notin GroupIds(cloud) /\ End
       \/ job.grp \in GroupIds(cloud) /\ RuleSettled(rules) /\ Goto("fwRules")
       \/ job.grp \in GroupIds(cloud) /\ ~RuleSettled(rules) /\ Again
       \/ job.req.op = "ruleCreate" /\ Cardinality(Specs(rules, job.req.spec)) > 1 /\ End
    /\ UNCHANGED <<cloudVars, git, issued>>

Ensure == EnsureObserve \/ EnsureCreate \/ EnsureVisible \/ EnsureRules \/ EnsureSend \/ EnsureSettle

(***************************************************************************)
(* release_access_with_authority: plan, verify that nothing changed, delete*)
(* each of the controller's transient rules once and prove none is left.   *)
(* The rules still to be deleted are in job.bind.                          *)
(***************************************************************************)
Release ==
    /\ At("idle")
    /\ GotoWith([Idle EXCEPT !.want = "ctl"], "relPlan")
    /\ UNCHANGED <<cloudVars, git, issued>>

ReleasePlan ==
    /\ At("relPlan")
    /\ IF Ambiguous(cloud) THEN End
       ELSE GotoWith([job EXCEPT !.auth.inv = cloud.groups], "relVerify")
    /\ UNCHANGED <<cloudVars, git, issued>>

OpenRules(c) == {x.id : x \in Specs(UNION {g.rules : g \in c.groups}, "ctl")}

ReleaseVerify ==
    /\ At("relVerify")
    /\ \/ cloud.groups # job.auth.inv /\ End
       \/ cloud.groups = job.auth.inv /\ OpenRules(cloud) = {} /\ Goto("released")
       \/ \E g \in cloud.groups :
             /\ cloud.groups = job.auth.inv
             /\ OpenRules(cloud) # {}
             /\ GotoWith([job EXCEPT !.grp = g.id, !.bind = OpenRules(cloud)], "relNext")
    /\ UNCHANGED <<cloudVars, git, issued>>

ReleaseNext ==
    /\ At("relNext")
    /\ \/ \E x \in job.bind :
             GotoWith([job EXCEPT !.bind = @ \ {x},
                                  !.req = RuleRequest("ruleDelete", job.grp, x, "none")], "relSend")
       \/ job.bind = {} /\ OpenRules(cloud) = {} /\ Goto("released")
       \/ job.bind = {} /\ OpenRules(cloud) # {} /\ End
    /\ UNCHANGED <<cloudVars, git, issued>>

ReleaseSend == At("relSend") /\ Send(job.req, "relSettle")

(***************************************************************************)
(* Broken on purpose: the DELETE's answer counts as proof of absence.      *)
(***************************************************************************)
ReleaseUnsettled ==
    /\ At("relSettle")
    /\ Goto("released")
    /\ UNCHANGED <<cloudVars, git, issued>>

ReleaseSettle ==
    /\ At("relSettle")
    /\ IF RuleSettled(RulesOf(cloud, job.grp)) THEN Goto("relNext") ELSE Again
    /\ UNCHANGED <<cloudVars, git, issued>>

(***************************************************************************)
(* The report RELEASED or NOOP: access is said to be closed.               *)
(***************************************************************************)
Released == At("released") /\ End /\ UNCHANGED <<cloudVars, git, issued>>

ReleaseSteps ==
    Release \/ ReleasePlan \/ ReleaseVerify \/ ReleaseNext \/ ReleaseSend \/ ReleaseSettle \/ Released

(***************************************************************************)
(* acceptance_cleanup_support: build_support_cleanup_authority (instances, *)
(* then groups), cleanup_environment_support_resources on those instances, *)
(* and the authority once more, which must then plan nothing.              *)
(***************************************************************************)
CleanupSupport ==
    /\ At("idle")
    /\ GotoWith(Idle, "csInst")
    /\ UNCHANGED <<cloudVars, git, issued>>

CleanupInstances ==
    /\ At("csInst")
    /\ GotoWith([job EXCEPT !.inv = cloud.inst], "csGroups")
    /\ UNCHANGED <<cloudVars, git, issued>>

(***************************************************************************)
(* Broken on purpose: a single machine does not count as a use.            *)
(***************************************************************************)
InUseIfAmbiguous(inst, groups) == Cardinality(Exact(inst)) > 1

InUse(inst, groups) ==
    \/ Exact(inst) # {}
    \/ \E i \in inst, g \in groups : i.fw = g.id

CleanupGroups ==
    /\ At("csGroups")
    /\ \/ /\ \/ InUse(job.inv, cloud.groups)
             \/ Ambiguous(cloud)
             \/ cloud.groups = {}
             \/ job.pass = "verify"
          /\ End
       \/ /\ job.pass = "plan"
          /\ ~InUse(job.inv, cloud.groups)
          /\ ~Ambiguous(cloud)
          /\ \E g \in cloud.groups :
                GotoWith([job EXCEPT !.grp = g.id,
                                     !.req = [NoRequest EXCEPT !.op = "groupDelete", !.on = g.id]], "csSend")
    /\ UNCHANGED <<cloudVars, git, issued>>

CleanupSend == At("csSend") /\ Send(job.req, "csSettle")

CleanupSettle ==
    /\ At("csSettle")
    /\ IF job.grp \notin GroupIds(cloud)
       THEN GotoWith([job EXCEPT !.pass = "verify"], "csInst")
       ELSE Again
    /\ UNCHANGED <<cloudVars, git, issued>>

CleanupSupportSteps ==
    CleanupSupport \/ CleanupInstances \/ CleanupGroups \/ CleanupSend \/ CleanupSettle
=============================================================================
