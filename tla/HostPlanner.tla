----------------------------- MODULE HostPlanner -----------------------------
(***************************************************************************)
(* The pure host planner of edge-shared-types: host_planner.rs, with the   *)
(* observation rules of host_lifecycle.rs it calls.  From one Git-owned    *)
(* host target and one native readback it proposes exactly one step.  The  *)
(* proposal authorizes nothing: HostJournal decides whether it may run.    *)
(*                                                                         *)
(* A digest is a release of Releases, an absent digest is NoRelease.  The  *)
(* reason codes of a readback are abstracted to the classes the planner    *)
(* tells apart ("why"):                                                    *)
(*   none      no reason code                                              *)
(*   consumer  only addressed WARP consumer egress defects                 *)
(*   network   exactly the one code VM_MANAGED_NETWORK_MISSING             *)
(*   partial   CONTAINER_NOT_RUNNING with a complete owned resource report *)
(*   other     anything else                                               *)
(***************************************************************************)

CONSTANTS Releases,   \* 32-byte non-zero runtime digests
          NoRelease   \* the empty digest of an unproven or absent release

ASSUME NoReleaseAssumption == NoRelease \notin Releases

Kinds       == {"Vm", "Windows"}
Actions     == {"Apply", "Recover", "Start", "Stop"}
RunStates   == {"Running", "Stopped"}
Modes       == {"Unspecified", "ProxyOnly", "ManagedTun"}
OwnerStates == {"Running", "Stopped", "Transitioning", "Unproven"}
Proofs      == {"ApplicationBundle", "ActivationRecord", "VerifiedAbsent", "Unproven"}
Whys        == {"none", "consumer", "network", "partial", "other"}
Steps       == {"Blocked", "Noop", "Start", "Stop", "Install", "ReplaceRelease",
                "Configure"}
EffectSteps == {"Start", "Stop", "Install", "ReplaceRelease", "Configure"}

PlanReasons ==
  {"TargetUnsetObserveOnly", "TargetModeKindMismatch",
   "NativeReadbackInvalidOrWrongKind", "NativeReadbackStale",
   "NativeReadbackDegraded", "NativeStateUnproven",
   "AbsentInstallWithStoppedTarget", "NativeReleaseProofUnproven",
   "StoppedReleaseMismatchRequiresInstallTarget", "RuntimeReadinessUnproven",
   "VerifiedAbsentInstallProposalOnly", "StopTargetOverridesReleaseMismatch",
   "StoppedMatchesDesiredLocalOnly", "RunningMatchesLocalNotExternal",
   "ReleaseMismatchProposalOnly", "StartProposalOnly",
   "VmDegradedRequiresScopedContainerPreadmission", "StoppedConfigurationDrift"}

(* A registered host as the planner sees it; "Unset" is a missing target.  *)
Hosts == [kind : Kinds, run : RunStates \cup {"Unset"}, mode : Modes]

(* One native readback.  fresh stands for the two clock comparisons (at    *)
(* most 60 s ahead and 300 s old).                                         *)
Observations ==
  [kind : Kinds, owner : OwnerStates, proof : Proofs,
   release : Releases \cup {NoRelease}, readyProven : BOOLEAN,
   ready : BOOLEAN, why : Whys, fresh : BOOLEAN]

RequiredProof(kind) ==
  IF kind = "Windows" THEN "ActivationRecord" ELSE "ApplicationBundle"

(***************************************************************************)
(* validate_native_observation: the structural rules of a readback.        *)
(***************************************************************************)
ValidObservation(obs) ==
  /\ obs.proof \in {RequiredProof(obs.kind), "VerifiedAbsent", "Unproven"}
  /\ (obs.release = NoRelease) <=> (obs.proof \in {"Unproven", "VerifiedAbsent"})
  /\ obs.proof = "VerifiedAbsent" => obs.owner = "Stopped" /\ ~obs.ready
  /\ obs.ready => obs.readyProven
  /\ obs.why = "partial" => obs.kind = "Vm"

(* known_partial_vm_resource_baseline: a proven partial container graph.   *)
KnownPartialBaseline(host, obs) ==
  /\ host.kind = "Vm" /\ obs.kind = "Vm"
  /\ obs.owner \in {"Running", "Stopped"}
  /\ obs.readyProven /\ ~obs.ready
  /\ obs.why = "partial"

(* known_runtime_only_historical_reasons: healthy, or only the addressed   *)
(* consumer datapath is broken.                                            *)
KnownRuntimeOnlyReasons(obs) ==
  /\ obs.readyProven
  /\ obs.why = (IF obs.ready THEN "none" ELSE "consumer")

(***************************************************************************)
(* The three degraded VM readbacks a proposal may still be made from.      *)
(***************************************************************************)
KnownResourceBundleDrift(host, obs, expected) ==
  /\ host.kind = "Vm" /\ host.run = "Running"
  /\ obs.proof = "ApplicationBundle"
  /\ obs.release # expected
  /\ obs.why # "none"
  /\ \/ obs.owner = "Running" /\ KnownRuntimeOnlyReasons(obs)
     \/ KnownPartialBaseline(host, obs)

SameReleaseVm(host, obs, expected) ==
  /\ host.kind = "Vm" /\ host.run = "Running"
  /\ obs.owner = "Running"
  /\ obs.proof = "ApplicationBundle"
  /\ obs.release = expected

KnownSameReleaseRuntimeDefect(host, obs, expected) ==
  SameReleaseVm(host, obs, expected) /\ KnownRuntimeOnlyReasons(obs)

KnownSameReleaseNetworkLoss(host, obs, expected) ==
  /\ SameReleaseVm(host, obs, expected)
  /\ obs.readyProven /\ ~obs.ready
  /\ obs.why = "network"

Degraded(host, obs, expected) ==
  /\ obs.why # "none"
  /\ ~KnownResourceBundleDrift(host, obs, expected)
  /\ ~KnownSameReleaseRuntimeDefect(host, obs, expected)
  /\ ~KnownSameReleaseNetworkLoss(host, obs, expected)

ModeMatchesKind(host) ==
  IF host.kind = "Windows" THEN host.mode \in {"ProxyOnly", "ManagedTun"}
                           ELSE host.mode = "Unspecified"

Plan(step, reason) == [step |-> step, reason |-> reason]
Block(reason)      == Plan("Blocked", reason)

(***************************************************************************)
(* propose_host_transition, in its three stages: what no target or no      *)
(* trustworthy readback blocks, then the verified-absent host, then the    *)
(* host with an installed release.                                         *)
(***************************************************************************)
AbsentPlan(host) ==
  IF host.run = "Running"
  THEN Plan("Install", "VerifiedAbsentInstallProposalOnly")
  ELSE Block("AbsentInstallWithStoppedTarget")

(* Broken on purpose: the release is put before the run target.            *)
StoppedTargetPlanReleaseFirst(obs, expected) ==
  IF obs.release # expected
  THEN Plan("ReplaceRelease", "ReleaseMismatchProposalOnly")
  ELSE IF obs.owner = "Running" THEN Plan("Stop", "StopTargetOverridesReleaseMismatch")
  ELSE Plan("Noop", "StoppedMatchesDesiredLocalOnly")

StoppedTargetPlan(obs, expected) ==
  IF obs.owner = "Running" THEN Plan("Stop", "StopTargetOverridesReleaseMismatch")
  ELSE IF obs.release # expected
       THEN Block("StoppedReleaseMismatchRequiresInstallTarget")
  ELSE Plan("Noop", "StoppedMatchesDesiredLocalOnly")

(* Broken on purpose: a running owner counts as converged without being    *)
(* ready ...                                                               *)
RunningTargetPlanUnready(host, obs, expected) ==
  IF obs.release # expected
  THEN Plan("ReplaceRelease", "ReleaseMismatchProposalOnly")
  ELSE IF obs.owner = "Stopped" THEN Plan("Start", "StartProposalOnly")
  ELSE Plan("Noop", "RunningMatchesLocalNotExternal")

(* ... or the degraded case keeps its reason and proposes another step.    *)
RunningTargetPlanMislabelled(host, obs, expected) ==
  IF obs.release # expected
  THEN Plan("ReplaceRelease", "ReleaseMismatchProposalOnly")
  ELSE IF obs.owner = "Stopped" THEN Plan("Start", "StartProposalOnly")
  ELSE IF obs.readyProven /\ obs.ready
       THEN Plan("Noop", "RunningMatchesLocalNotExternal")
  ELSE IF host.kind = "Vm" /\ obs.readyProven
       THEN Plan("ReplaceRelease", "VmDegradedRequiresScopedContainerPreadmission")
  ELSE Block("RuntimeReadinessUnproven")

RunningTargetPlan(host, obs, expected) ==
  IF obs.release # expected
  THEN Plan("ReplaceRelease", "ReleaseMismatchProposalOnly")
  ELSE IF obs.owner = "Stopped" THEN Plan("Start", "StartProposalOnly")
  ELSE IF obs.readyProven /\ obs.ready
       THEN Plan("Noop", "RunningMatchesLocalNotExternal")
  ELSE IF host.kind = "Vm" /\ obs.readyProven
       THEN Plan("Start", "VmDegradedRequiresScopedContainerPreadmission")
  ELSE Block("RuntimeReadinessUnproven")

InstalledPlan(host, obs, expected) ==
  IF host.run = "Stopped" THEN StoppedTargetPlan(obs, expected)
                          ELSE RunningTargetPlan(host, obs, expected)

(* Broken on purpose: the age of the readback is not looked at.            *)
ProposeHostTransitionAnyAge(host, obs, expected) ==
  IF host.run = "Unset" THEN Block("TargetUnsetObserveOnly")
  ELSE IF ~ModeMatchesKind(host) THEN Block("TargetModeKindMismatch")
  ELSE IF ~ValidObservation(obs) \/ obs.kind # host.kind
       THEN Block("NativeReadbackInvalidOrWrongKind")
  ELSE IF Degraded(host, obs, expected) THEN Block("NativeReadbackDegraded")
  ELSE IF obs.owner \in {"Unproven", "Transitioning"}
       THEN Block("NativeStateUnproven")
  ELSE IF obs.proof = "VerifiedAbsent" THEN AbsentPlan(host)
  ELSE IF obs.proof # RequiredProof(host.kind)
       THEN Block("NativeReleaseProofUnproven")
  ELSE InstalledPlan(host, obs, expected)

(* The first blocker that applies, in the order the code tests them.       *)
ProposeHostTransition(host, obs, expected) ==
  IF host.run = "Unset" THEN Block("TargetUnsetObserveOnly")
  ELSE IF ~ModeMatchesKind(host) THEN Block("TargetModeKindMismatch")
  ELSE IF ~ValidObservation(obs) \/ obs.kind # host.kind
       THEN Block("NativeReadbackInvalidOrWrongKind")
  ELSE IF ~obs.fresh THEN Block("NativeReadbackStale")
  ELSE IF Degraded(host, obs, expected) THEN Block("NativeReadbackDegraded")
  ELSE IF obs.owner \in {"Unproven", "Transitioning"}
       THEN Block("NativeStateUnproven")
  ELSE IF obs.proof = "VerifiedAbsent" THEN AbsentPlan(host)
  ELSE IF obs.proof # RequiredProof(host.kind)
       THEN Block("NativeReleaseProofUnproven")
  ELSE InstalledPlan(host, obs, expected)

(* propose_signed_host_transition: a signed Windows APPLY may replace the  *)
(* release of a stopped owner and keep it stopped.                         *)
ProposeSignedHostTransition(host, obs, action, expected) ==
  LET proposal == ProposeHostTransition(host, obs, expected) IN
  IF /\ host.kind = "Windows" /\ action = "Apply"
     /\ proposal.reason = "StoppedReleaseMismatchRequiresInstallTarget"
  THEN Plan("ReplaceRelease", "ReleaseMismatchProposalOnly")
  ELSE proposal

(* validate_host_transition_plan: the one step each reason may carry.      *)
StepOfReason(r) ==
  IF r = "VerifiedAbsentInstallProposalOnly" THEN "Install"
  ELSE IF r = "StopTargetOverridesReleaseMismatch" THEN "Stop"
  ELSE IF r \in {"StoppedMatchesDesiredLocalOnly", "RunningMatchesLocalNotExternal"}
       THEN "Noop"
  ELSE IF r = "ReleaseMismatchProposalOnly" THEN "ReplaceRelease"
  ELSE IF r \in {"StartProposalOnly", "VmDegradedRequiresScopedContainerPreadmission"}
       THEN "Start"
  ELSE IF r = "StoppedConfigurationDrift" THEN "Configure"
  ELSE "Blocked"

ValidPlan(plan) ==
  plan.reason \in PlanReasons /\ plan.step = StepOfReason(plan.reason)
=============================================================================
