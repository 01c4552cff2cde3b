----------------------------- MODULE VultrVpc -----------------------------
(***************************************************************************)
(* The owned private network: converge (create, attach, verify) and the    *)
(* cleanup that detaches and deletes, one mutation per round.  Modelled    *)
(* from vultr_vpc_lifecycle.rs, vultr_vpc_lifecycle_service.rs and         *)
(* vultr_vpc_lifecycle_command.rs.  Every GET is a step of its own.        *)
(***************************************************************************)
EXTENDS VultrCloud

Only(set) == CHOOSE x \in set : TRUE
AttsOf(c, v) == {a \in c.atts : a.vpc = v}
TargetIds(c) == {i.id : i \in Exact(c.inst)}

(***************************************************************************)
(* reject_foreign_attachments: an attachment without a subscription may be *)
(* anybody's.                                                              *)
(***************************************************************************)
Unresolved(atts) == \E a \in atts : ~a.known
Foreign(atts, tgt) == \E a \in atts : ~a.known \/ a.sub # tgt

(***************************************************************************)
(* Broken on purpose: an attachment without a subscription does not count. *)
(***************************************************************************)
PlanCleanupResolvedOnly(vpc, atts, tgt) ==
    CASE vpc = None -> "noop"
      [] vpc # None /\ {a \in atts : a.known} = {} -> "delete"
      [] OTHER -> IF tgt = None \/ Foreign(atts, tgt) THEN "refused" ELSE "detach"

(***************************************************************************)
(* plan_attachment and plan_cleanup on what was observed; "refused" is an  *)
(* error.                                                                  *)
(***************************************************************************)
PlanAttachment(atts, tgt) ==
    CASE Foreign(atts, tgt) -> "refused"
      [] atts = {} -> "attach"
      [] OTHER -> "noop"

PlanCleanup(vpc, atts, tgt) ==
    CASE vpc = None -> "noop"
      [] vpc # None /\ atts = {} -> "delete"
      [] OTHER -> IF tgt = None \/ Foreign(atts, tgt) THEN "refused" ELSE "detach"

VpcAuthority(tgt, vpc, atts) ==
    [NoAuthority EXCEPT !.tgt = tgt, !.vpc = vpc, !.atts = atts]

(***************************************************************************)
(* production_converge: the VPC first.                                     *)
(***************************************************************************)
Converge ==
    /\ At("idle")
    /\ GotoWith(Idle, "vPlan")
    /\ UNCHANGED <<cloudVars, git, issued>>

(***************************************************************************)
(* select_exact_vpc: none, one, or an error.                               *)
(***************************************************************************)
VpcPlan ==
    /\ At("vPlan")
    /\ \/ Cardinality(cloud.vpcs) > 1 /\ End
       \/ Cardinality(cloud.vpcs) = 1 /\ Goto("aTarget")
       \/ cloud.vpcs = {} /\ Goto("vVerify")
    /\ UNCHANGED <<cloudVars, git, issued>>

VpcVerify ==
    /\ At("vVerify")
    /\ IF cloud.vpcs = {} THEN Goto("vSend") ELSE End
    /\ UNCHANGED <<cloudVars, git, issued>>

SendVpc == At("vSend") /\ Send([NoRequest EXCEPT !.op = "vpcCreate"], "vWait")

WaitForVpc ==
    /\ At("vWait")
    /\ \/ Cardinality(cloud.vpcs) > 1 /\ End
       \/ Cardinality(cloud.vpcs) = 1 /\ Goto("aTarget")
       \/ cloud.vpcs = {} /\ Again
    /\ UNCHANGED <<cloudVars, git, issued>>

(***************************************************************************)
(* plan_vpc_attachment, run to plan, to apply and to verify (job.pass).    *)
(***************************************************************************)
ResolveTarget ==
    /\ At("aTarget")
    /\ IF Cardinality(TargetIds(cloud)) = 1
       THEN GotoWith([job EXCEPT !.tgt = Only(TargetIds(cloud))], "aVpc")
       ELSE End
    /\ UNCHANGED <<cloudVars, git, issued>>

ExactVpc(from, to) ==
    /\ At(from)
    /\ IF Cardinality(cloud.vpcs) = 1
       THEN GotoWith([job EXCEPT !.vpc = Only(cloud.vpcs)], to)
       ELSE End
    /\ UNCHANGED <<cloudVars, git, issued>>

AttachmentPlan ==
    /\ At("aAtts")
    /\ LET atts == AttsOf(cloud, job.vpc)
           plan == PlanAttachment(atts, job.tgt)
           auth == VpcAuthority(job.tgt, job.vpc, atts) IN
       \/ plan = "refused" /\ End
       \/ plan = "noop" /\ job.pass = "plan" /\ GotoWith([job EXCEPT !.pass = "verify"], "aTarget")
       \/ plan = "noop" /\ job.pass = "verify" /\ Goto("aReady")
       \/ plan = "attach" /\ job.pass = "plan"
          /\ GotoWith([job EXCEPT !.pass = "apply", !.auth = auth], "aTarget")
       \/ plan = "attach" /\ job.pass = "apply" /\ auth = job.auth /\ Goto("aSend")
       \/ job.pass = "apply" /\ auth # job.auth /\ End
       \/ plan = "attach" /\ job.pass = "verify" /\ End
    /\ UNCHANGED <<cloudVars, git, issued>>

SendAttach ==
    /\ At("aSend")
    /\ Send([NoRequest EXCEPT !.op = "attach", !.on = job.tgt, !.arg = job.vpc], "aWaitVpc")

(***************************************************************************)
(* wait_for_attachment_noop, then wait_for_guest_vpc_ready: the guest's    *)
(* interface may not come up in time, which is an error.                   *)
(***************************************************************************)
WaitForAttachment ==
    /\ At("aWaitAtts")
    /\ LET atts == AttsOf(cloud, job.vpc) IN
       \/ Unresolved(atts) /\ AgainFrom("aWaitVpc")
       \/ ~Unresolved(atts) /\ Foreign(atts, job.tgt) /\ End
       \/ ~Unresolved(atts) /\ PlanAttachment(atts, job.tgt) = "attach" /\ AgainFrom("aWaitVpc")
       \/ PlanAttachment(atts, job.tgt) = "noop" /\ Goto("aGuest")
    /\ UNCHANGED <<cloudVars, git, issued>>

GuestReady ==
    /\ At("aGuest")
    /\ GotoWith([job EXCEPT !.pass = "verify"], "aTarget") \/ End
    /\ UNCHANGED <<cloudVars, git, issued>>

(***************************************************************************)
(* verify_vpc_ready's second look at the VPC, then the READY report.       *)
(***************************************************************************)
Ready == At("ready") /\ End /\ UNCHANGED <<cloudVars, git, issued>>

ConvergeSteps ==
    \/ Converge \/ VpcPlan \/ VpcVerify \/ SendVpc \/ WaitForVpc
    \/ ResolveTarget \/ ExactVpc("aVpc", "aAtts") \/ AttachmentPlan \/ SendAttach
    \/ ExactVpc("aWaitVpc", "aWaitAtts") \/ WaitForAttachment \/ GuestReady
    \/ ExactVpc("aReady", "ready") \/ Ready

(***************************************************************************)
(* acceptance_cleanup_to_absent: at most four rounds of plan_vpc_cleanup   *)
(* and cleanup_vpc_once, each with one mutation.                           *)
(***************************************************************************)
Rounds == 4

CleanupVpc ==
    /\ At("idle")
    /\ GotoWith([Idle EXCEPT !.rounds = Rounds], "cVpc")
    /\ UNCHANGED <<cloudVars, git, issued>>

CleanupListVpcs ==
    /\ At("cVpc")
    /\ \/ Cardinality(cloud.vpcs) > 1 /\ End
       \/ Cardinality(cloud.vpcs) = 1
          /\ GotoWith([job EXCEPT !.vpc = Only(cloud.vpcs)], "cTarget")
       \/ cloud.vpcs = {}
          /\ IF job.pass = "plan" THEN Goto("vpcAbsent") ELSE End
    /\ UNCHANGED <<cloudVars, git, issued>>

CleanupTarget ==
    /\ At("cTarget")
    /\ \/ Cardinality(TargetIds(cloud)) > 1 /\ End
       \/ TargetIds(cloud) = {} /\ GotoWith([job EXCEPT !.tgt = None], "cAtts")
       \/ Cardinality(TargetIds(cloud)) = 1
          /\ GotoWith([job EXCEPT !.tgt = Only(TargetIds(cloud))], "cAtts")
    /\ UNCHANGED <<cloudVars, git, issued>>

(***************************************************************************)
(* The plan pass fixes the destructive digest; the apply pass must compute *)
(* the same one.                                                           *)
(***************************************************************************)
CleanupPlan ==
    /\ At("cAtts")
    /\ LET atts == AttsOf(cloud, job.vpc)
           plan == PlanCleanup(job.vpc, atts, job.tgt)
           auth == VpcAuthority(IF plan = "detach" THEN job.tgt ELSE None, job.vpc, atts) IN
       \/ plan = "refused" /\ End
       \/ plan # "refused" /\ job.pass = "plan"
          /\ GotoWith([job EXCEPT !.pass = "apply", !.auth = auth], "cVpc")
       \/ plan # "refused" /\ job.pass = "apply" /\ auth # job.auth /\ End
       \/ plan = "detach" /\ job.pass = "apply" /\ auth = job.auth /\ Goto("cTarget2")
       \/ plan = "delete" /\ job.pass = "apply" /\ auth = job.auth /\ Goto("cDelete")
    /\ UNCHANGED <<cloudVars, git, issued>>

(***************************************************************************)
(* With attachments, cleanup_vpc_once resolves the target once more.       *)
(***************************************************************************)
CleanupTargetAgain ==
    /\ At("cTarget2")
    /\ IF TargetIds(cloud) = {job.auth.tgt} THEN Goto("cDetach") ELSE End
    /\ UNCHANGED <<cloudVars, git, issued>>

SendDetach ==
    /\ At("cDetach")
    /\ Send([NoRequest EXCEPT !.op = "detach", !.on = job.auth.tgt, !.arg = job.vpc], "cWaitVpc")

SendVpcDelete ==
    /\ At("cDelete")
    /\ Send([NoRequest EXCEPT !.op = "vpcDelete", !.on = job.vpc], "cWaitVpc")

(***************************************************************************)
(* wait_for_cleanup_progress: a detach expects the plan DELETE_VPC next, a *)
(* delete expects NOOP.                                                    *)
(***************************************************************************)
Detaching == job.auth.tgt # None

NextRound ==
    IF job.rounds > 1
    THEN GotoWith([Idle EXCEPT !.rounds = job.rounds - 1], "cVpc")
    ELSE End

WaitCleanupVpc ==
    /\ At("cWaitVpc")
    /\ \/ Cardinality(cloud.vpcs) > 1 /\ End
       \/ Cardinality(cloud.vpcs) = 1
          /\ GotoWith([job EXCEPT !.vpc = Only(cloud.vpcs)], "cWaitTarget")
       \/ cloud.vpcs = {} /\ IF Detaching THEN Again ELSE NextRound
    /\ UNCHANGED <<cloudVars, git, issued>>

WaitCleanupTarget ==
    /\ At("cWaitTarget")
    /\ \/ Cardinality(TargetIds(cloud)) > 1 /\ End
       \/ TargetIds(cloud) = {} /\ GotoWith([job EXCEPT !.tgt = None], "cWaitAtts")
       \/ Cardinality(TargetIds(cloud)) = 1
          /\ GotoWith([job EXCEPT !.tgt = Only(TargetIds(cloud))], "cWaitAtts")
    /\ UNCHANGED <<cloudVars, git, issued>>

WaitCleanupAtts ==
    /\ At("cWaitAtts")
    /\ LET atts == AttsOf(cloud, job.vpc)
           plan == PlanCleanup(job.vpc, atts, job.tgt) IN
       \/ Unresolved(atts) /\ AgainFrom("cWaitVpc")
       \/ ~Unresolved(atts) /\ plan = "refused" /\ End
       \/ ~Unresolved(atts) /\ plan = "delete" /\ Detaching /\ NextRound
       \/ ~Unresolved(atts) /\ plan = "delete" /\ ~Detaching /\ AgainFrom("cWaitVpc")
       \/ ~Unresolved(atts) /\ plan = "detach" /\ AgainFrom("cWaitVpc")
    /\ UNCHANGED <<cloudVars, git, issued>>

VpcAbsent == At("vpcAbsent") /\ End /\ UNCHANGED <<cloudVars, git, issued>>

CleanupVpcSteps ==
    \/ CleanupVpc \/ CleanupListVpcs \/ CleanupTarget \/ CleanupPlan \/ CleanupTargetAgain
    \/ SendDetach \/ SendVpcDelete
    \/ WaitCleanupVpc \/ WaitCleanupTarget \/ WaitCleanupAtts \/ VpcAbsent
=============================================================================
