-------------------------- MODULE VultrLifecycle --------------------------
(***************************************************************************)
(* The Vultr lifecycle jobs on one account.  One job runs at a time; the   *)
(* requests of a job that gave up or was killed may still take effect.     *)
(***************************************************************************)
EXTENDS VultrMachine, VultrVpc

(***************************************************************************)
(* The account at first: empty, or with one instance of somebody else that *)
(* may carry the label of the desired machine.                             *)
(***************************************************************************)
Init ==
    /\ \E own \in {"none", "conflict", "other"} :
          LET inst == IF own = "none" THEN {}
                      ELSE {[id |-> 1, own |-> own, fw |-> None, drift |-> "none"]} IN
          cloud = [inst |-> inst, vpcs |-> {}, atts |-> {}, groups |-> {},
                   next |-> Cardinality(inst) + 1]
    /\ flight = {}
    /\ late = {}
    /\ faults = 0
    /\ job = Idle
    /\ git = NoReservation
    /\ issued = NoAuthority

Environment == LateEffect \/ AttachmentLinked \/ InstanceDrifts \/ Killed

Next ==
    \/ FirstUseSteps \/ AbortSteps \/ Ensure \/ ApplySteps \/ AcquireSteps \/ ReleaseSteps
    \/ DestroySteps \/ ConvergeSteps \/ CleanupVpcSteps \/ CleanupSupportSteps
    \/ NewEpoch \/ Environment

Spec == Init /\ [][Next]_vars

TypeOK ==
    /\ cloud.inst \subseteq Instance
    /\ cloud.vpcs \subseteq Ids
    /\ cloud.atts \subseteq Attachment
    /\ \A g \in cloud.groups : g.id \in Ids /\ g.rules \subseteq Rule
    /\ cloud.next \in 1 .. MaxObjects + 1
    /\ flight \subseteq Request
    /\ late \subseteq Ids
    /\ faults \in 0 .. MaxFaults
    /\ job.req \in Request
    /\ job.left \in 0 .. Attempts
    /\ git \in [branch : BOOLEAN, run : Runs]

(***************************************************************************)
(* The billable machine is created at most once: neither a CREATE whose    *)
(* answer was lost, nor one that lands after its job was killed and others *)
(* have run and reservations were aborted, ever leads to a second one (the *)
(* receipt branch, which the abort keeps unless the CREATE step was        *)
(* skipped, and the re-observation before the POST).                       *)
(***************************************************************************)
AtMostOneMachine == Cardinality(Exact(cloud.inst)) <= 1

(***************************************************************************)
(* However old the authority a destroy job presents, the instance it       *)
(* deletes is the managed one the authority was printed for, never one     *)
(* that came into being later (destroy_machine re-observes and compares).  *)
(***************************************************************************)
DestroyStaysWithinAuthority ==
    At("ddSend") => job.tgt = job.auth.tgt /\ job.tgt < job.auth.top

(***************************************************************************)
(* A firewall group is deleted only when no instance is behind it: cleanup *)
(* reads instances and groups in two calls, and only an instance whose     *)
(* CREATE was late can have come in between.                               *)
(***************************************************************************)
CleanupSparesBoundGroups ==
    At("csSend") => \A i \in cloud.inst : i.fw = job.req.on => i.id \in late

(***************************************************************************)
(* When release reports RELEASED or NOOP, no transient rule is open, but   *)
(* for one whose creation was late.                                        *)
(***************************************************************************)
ReleaseIsComplete == At("released") => OpenRules(cloud) \subseteq late

(***************************************************************************)
(* cleanup_vpc_once deletes a VPC only when nothing is attached to it, not *)
(* even an attachment that has no subscription yet; only an attach that    *)
(* was late can have come in since the owner looked.                       *)
(***************************************************************************)
VpcDeleteSparesAttachments ==
    At("cDelete") => AttsOf(cloud, job.vpc) = {} \/ job.vpc \in late
=============================================================================
