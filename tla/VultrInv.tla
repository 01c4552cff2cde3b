------------------------------ MODULE VultrInv ------------------------------
(***************************************************************************)
(* The inductive invariant behind the safety properties of VultrLifecycle. *)
(***************************************************************************)
EXTENDS VultrLifecycle

(* Layer 1: the full types, of what a job has observed as well.            *)
Group == [id : Ids, rules : SUBSET Rule]
InventoryRecord == [mach : Instance, verified : BOOLEAN]
Account == [inst : SUBSET Instance, vpcs : SUBSET Ids, atts : SUBSET Attachment,
            groups : SUBSET Group, next : 1 .. MaxObjects + 1]
Authority == [inv : SUBSET (Instance \cup InventoryRecord \cup Group),
              tgt : Ids \cup {None}, vpc : Ids \cup {None},
              atts : SUBSET (Attachment \cup Group), top : Nat]
Command == {r \in Request : r.op = "ruleCreate" => r.spec # "none"}
EnsureLabels == {"fwObserve", "fwCreate", "fwVisible", "fwRules", "fwSend", "fwSettle"}
Labels ==
    {"idle", "fuBind", "fuInst", "fuRefs", "fuReserve", "fuBegin", "fuRunner", "fuBind2",
     "fuInst2", "abBind", "abInst", "abRef", "fuBind3", "fuPlan", "fuApply", "fuSend", "fuWait", "created",
     "gaBind", "gaPlan", "gaAfter", "gaApply", "acqPlan", "acqVerify", "acqCheck",
     "dpBind", "dpInst", "ddBind", "ddInst", "ddSend", "ddWait",
     "relPlan", "relVerify", "relNext", "relSend", "relSettle", "released",
     "csInst", "csGroups", "csSend", "csSettle",
     "vPlan", "vVerify", "vSend", "vWait", "aTarget", "aVpc", "aAtts", "aSend",
     "aWaitVpc", "aWaitAtts", "aGuest", "aReady", "ready",
     "cVpc", "cTarget", "cAtts", "cTarget2", "cDetach", "cDelete",
     "cWaitVpc", "cWaitTarget", "cWaitAtts", "vpcAbsent"} \cup EnsureLabels
Job == [pc : Labels, ret : {"idle", "fuPlan", "gaAfter", "acqCheck"},
        pass : {"plan", "apply", "verify"}, bind : SUBSET Ids,
        inv : SUBSET Instance, tgt : Ids \cup {None}, vpc : Ids \cup {None}, grp : Ids \cup {None},
        want : {"keep", "ctl"}, left : 0 .. Attempts, rounds : Nat,
        req : Command, auth : Authority]

Typed ==
    /\ cloud \in Account
    /\ flight \subseteq Command
    /\ late \subseteq Ids
    /\ faults \in 0 .. MaxFaults
    /\ job \in Job
    /\ git \in [branch : BOOLEAN, run : Runs]
    /\ issued \in Authority

(* Layer 2: what a subroutine was called for, and what it may send.        *)
OwnRequests ==
    /\ job.pc \in EnsureLabels => job.ret # "idle"
    /\ job.pc \in {"gaBind", "gaPlan"} => job.ret = "gaAfter"
    /\ job.pc \in {"acqPlan", "acqVerify"} => job.ret = "acqCheck"
    /\ At("fwSend") => job.req.op \in {"ruleDelete", "ruleCreate"}
    /\ At("relSend") => job.req.op = "ruleDelete"
    /\ At("csSend") => job.req.op = "groupDelete"

(* Layer 3: a CREATE that may still land is the only one, nothing managed  *)
(* exists yet, and the receipt branch keeps every first use out ...        *)
CreatesInFlight == {r \in flight : r.op = "create"}

(* ... which is past the check of the branch at these labels.              *)
Reserved ==
    \/ job.pc \in {"fuBegin", "fuRunner", "fuBind2", "fuInst2", "fuBind3", "fuPlan", "fuApply", "fuSend"}
    \/ job.pc \in EnsureLabels /\ job.ret = "fuPlan"

OneCreate ==
    /\ \A i, j \in Exact(cloud.inst) : i = j
    /\ \A r, s \in CreatesInFlight : r = s
    /\ CreatesInFlight # {} => Exact(cloud.inst) = {} /\ git.branch
    /\ git.run \in {"skipped", "created"} => CreatesInFlight = {}
    /\ Reserved => git.branch /\ git.run \notin {"skipped", "created"}
    /\ Reserved \/ At("fuReserve") \/ At("created") => CreatesInFlight = {}
    /\ At("fuApply") \/ At("fuSend") => Exact(cloud.inst) = {}

(* Layer 4: an authority names a managed machine of its own inventory, and *)
(* ids are given out in order.                                             *)
Genuine(a) ==
    /\ Owned(a.inv) # {}
    /\ a.tgt = (CHOOSE r \in Owned(a.inv) : TRUE).mach.id
    /\ a.tgt < a.top

AuthorityHeld ==
    /\ \A i \in cloud.inst : i.id < cloud.next
    /\ issued = NoAuthority \/ Genuine(issued)
    /\ At("ddBind") \/ At("ddInst") => Genuine(job.auth)
    /\ DestroyStaysWithinAuthority

(* Layer 5: what a cleanup or a release has seen is still so, but for what *)
(* came late.                                                              *)
SeenOrLate ==
    /\ At("csGroups") =>
         \A i \in cloud.inst :
           i.id \in late \/ \E j \in job.inv : j.id = i.id /\ j.fw = i.fw
    /\ CleanupSparesBoundGroups
    /\ ReleaseIsComplete
    /\ VpcDeleteSparesAttachments

(* The labels these layers speak of.                                       *)
Watched ==
    EnsureLabels \cup
    {"fuReserve", "fuBegin", "fuRunner", "fuBind2", "fuInst2", "fuBind3", "fuPlan", "fuApply",
     "fuSend", "created", "gaBind", "gaPlan", "acqPlan", "acqVerify",
     "ddBind", "ddInst", "ddSend", "relSend", "released", "csGroups", "csSend", "cDelete"}

SafeInv == OwnRequests /\ OneCreate /\ AuthorityHeld /\ SeenOrLate
=============================================================================
