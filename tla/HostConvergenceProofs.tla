------------------------ MODULE HostConvergenceProofs ------------------------
(***************************************************************************)
(* What the planner promises, for every set of releases: proofs about      *)
(* HostConvergence.  The planner is a function of one readback, so its     *)
(* safety needs no more than the types of the state; what an effect leads  *)
(* to (OneEffectConverges) is a fact about its poststate.                  *)
(***************************************************************************)
EXTENDS HostConvergence, TLAPS

(* The poststate of an effect is a readback of the host's own kind.        *)
LEMMA PoststateType ==
  ASSUME NEW h \in Hosts, h.run \in RunStates, NEW before \in Observations,
         NEW step \in Steps, NEW exp \in Releases
  PROVE  Poststate(h, step, before, exp) \in Observations
  BY DEF Poststate, Hosts, Observations, RequiredProof, Kinds, RunStates,
         OwnerStates, Proofs, Whys

(* A proposal other than Blocked has passed every blocker of               *)
(* propose_host_transition, in particular the missing target.              *)
LEMMA ProposalPassedBlockers ==
  ASSUME NEW h, NEW o, NEW a, NEW exp,
         ProposeSignedHostTransition(h, o, a, exp).step # "Blocked"
  PROVE  /\ h.run # "Unset"
         /\ ModeMatchesKind(h)
         /\ ValidObservation(o) /\ o.kind = h.kind /\ o.fresh
         /\ ~Degraded(h, o, exp)
         /\ o.owner \notin {"Unproven", "Transitioning"}
         /\ o.proof \in {"VerifiedAbsent", RequiredProof(h.kind)}
  BY DEF ProposeSignedHostTransition, ProposeHostTransition, Block, Plan

(* The proposal for a host that passed every blocker.                      *)
LEMMA ProposalShape ==
  ASSUME NEW h \in Hosts, NEW o \in Observations, NEW a, NEW exp,
         ProposeSignedHostTransition(h, o, a, exp).step # "Blocked"
  PROVE  \/ /\ o.proof = "VerifiedAbsent"
            /\ h.run = "Running"
            /\ ProposeSignedHostTransition(h, o, a, exp)
                 = Plan("Install", "VerifiedAbsentInstallProposalOnly")
         \/ /\ o.proof = RequiredProof(h.kind)
            /\ ProposeSignedHostTransition(h, o, a, exp) = InstalledPlan(h, o, exp)
         \/ /\ o.proof = RequiredProof(h.kind)
            /\ h.kind = "Windows" /\ a = "Apply" /\ h.run = "Stopped"
            /\ o.owner = "Stopped" /\ o.release # exp
            /\ ProposeSignedHostTransition(h, o, a, exp)
                 = Plan("ReplaceRelease", "ReleaseMismatchProposalOnly")
<1> DEFINE unsigned == ProposeHostTransition(h, o, exp)
           signed == ProposeSignedHostTransition(h, o, a, exp)
<1>1. /\ h.run \in RunStates
      /\ o.owner \in {"Running", "Stopped"}
      /\ unsigned = IF o.proof = "VerifiedAbsent" THEN AbsentPlan(h)
                                                 ELSE InstalledPlan(h, o, exp)
  BY ProposalPassedBlockers
     DEF Hosts, Observations, OwnerStates, ProposeHostTransition
<1>2. o.proof \in {"VerifiedAbsent", RequiredProof(h.kind)}
  BY ProposalPassedBlockers
<1>3. RequiredProof(h.kind) # "VerifiedAbsent"
  BY DEF RequiredProof
<1>4. CASE o.proof = "VerifiedAbsent"
  BY <1>1, <1>4 DEF AbsentPlan, ProposeSignedHostTransition, Plan, Block
<1>5. CASE o.proof = RequiredProof(h.kind) /\ signed = unsigned
  BY <1>1, <1>3, <1>5
<1>6. CASE o.proof = RequiredProof(h.kind) /\ signed # unsigned
  <2>1. /\ h.kind = "Windows" /\ a = "Apply"
        /\ unsigned.reason = "StoppedReleaseMismatchRequiresInstallTarget"
        /\ signed = Plan("ReplaceRelease", "ReleaseMismatchProposalOnly")
    BY <1>6 DEF ProposeSignedHostTransition
  <2>2. unsigned = InstalledPlan(h, o, exp)
    BY <1>1, <1>3, <1>6
  <2>3. h.run = "Stopped" /\ o.owner = "Stopped" /\ o.release # exp
    BY <1>1, <2>1, <2>2 DEF InstalledPlan, StoppedTargetPlan,
       RunningTargetPlan, Plan, Block, RunStates
  <2> QED
    BY <1>6, <2>1, <2>3
<1> QED
  BY <1>2, <1>4, <1>5, <1>6

(* The state of the convergence model keeps its types: every poststate of  *)
(* an effect is again a readback.                                          *)
THEOREM TypeCorrect == Spec => []TypeOK
<1>1. Init => TypeOK
  BY DEF Init, TypeOK, ActionAllowed
<1>2. TypeOK /\ [Next]_vars => TypeOK'
  <2> SUFFICES ASSUME TypeOK, [Next]_vars PROVE TypeOK'
    OBVIOUS
  <2>1. CASE Execute
    <3>1. host.run # "Unset"
      BY <2>1, ProposalPassedBlockers DEF Execute, Proposal, EffectSteps
    <3>2. host.run \in RunStates /\ Proposal.step \in Steps
      BY <2>1, <3>1 DEF TypeOK, Hosts, Execute, EffectSteps, Steps
    <3>3. obs' \in Observations
      BY <2>1, <3>2, PoststateType DEF Execute, TypeOK
    <3> QED
      BY <2>1, <3>3 DEF Execute, TypeOK
  <2>2. CASE NextIntent
    BY <2>2 DEF NextIntent, TypeOK
  <2>3. CASE UNCHANGED vars
    BY <2>3 DEF vars, TypeOK
  <2> QED
    BY <2>1, <2>2, <2>3 DEF Next
<1> QED
  BY <1>1, <1>2, PTL DEF Spec

(* host_planner.rs, stages one to three: no proposal from a stale,         *)
(* invalid, foreign or unproven readback.                                  *)
THEOREM UnprovenReadbackAlwaysBlocks == Spec => []UnprovenReadbackBlocks
<1>1. TypeOK => UnprovenReadbackBlocks
  <2> SUFFICES ASSUME TypeOK, Proposal.step # "Blocked"
               PROVE  UnprovenReadbackBlocks
    BY DEF UnprovenReadbackBlocks
  <2>1. obs.owner \in {"Running", "Stopped"}
    BY ProposalPassedBlockers DEF Proposal, TypeOK, Observations, OwnerStates
  <2> QED
    BY <2>1, ProposalPassedBlockers DEF UnprovenReadbackBlocks, Proposal
<1> QED
  BY <1>1, TypeCorrect, PTL

(* host_planner.rs: the run target goes before the release.                *)
THEOREM RunTargetAlwaysHasPriority == Spec => []RunTargetHasPriority
<1>1. TypeOK => RunTargetHasPriority
  <2> SUFFICES ASSUME TypeOK PROVE RunTargetHasPriority
    OBVIOUS
  <2>1. CASE Proposal.step = "Blocked"
    BY <2>1 DEF RunTargetHasPriority
  <2>2. CASE Proposal.step # "Blocked"
    BY <2>2, ProposalShape DEF TypeOK, RunTargetHasPriority, Proposal, InstalledPlan,
       StoppedTargetPlan, RunningTargetPlan, Plan, Block
  <2> QED
    BY <2>1, <2>2
<1> QED
  BY <1>1, TypeCorrect, PTL

(* validate_host_transition_plan accepts whatever the planner proposes.    *)
THEOREM ProposalsAlwaysValidate == Spec => []ProposalsValidate
<1>1. ProposalsValidate
  BY DEF ProposalsValidate, ValidPlan, StepOfReason, PlanReasons, Proposal,
     ProposeSignedHostTransition, ProposeHostTransition, AbsentPlan,
     InstalledPlan, StoppedTargetPlan, RunningTargetPlan, Plan, Block
<1> QED
  BY <1>1, PTL

(* A NOOP, which settles a signed operation as OBSERVED, is only proposed  *)
(* for a host that is where its target wants it.                           *)
THEOREM NoopAlwaysMeansConverged == Spec => []NoopMeansConverged
<1>1. TypeOK => NoopMeansConverged
  <2> SUFFICES ASSUME TypeOK, Proposal.step = "Noop" PROVE NoopMeansConverged
    BY DEF NoopMeansConverged
  <2>1. Proposal = InstalledPlan(host, obs, expected)
    BY ProposalShape DEF TypeOK, Proposal, Plan
  <2>2. /\ ~Degraded(host, obs, expected)
        /\ host.run \in RunStates
        /\ obs.owner \in {"Running", "Stopped"}
    BY ProposalPassedBlockers DEF Proposal, TypeOK, Hosts, Observations, OwnerStates
  <2>3. CASE host.run = "Stopped"
    BY <2>1, <2>2, <2>3 DEF NoopMeansConverged, InstalledPlan,
       StoppedTargetPlan, Plan, Block
  <2>4. CASE host.run = "Running"
    <3>1. /\ obs.release = expected /\ obs.owner = "Running"
          /\ obs.readyProven /\ obs.ready
      BY <2>1, <2>2, <2>4 DEF InstalledPlan, RunningTargetPlan, Plan, Block
    <3>2. obs.why = "none"
      BY <2>2, <3>1 DEF Degraded, KnownResourceBundleDrift, SameReleaseVm,
         KnownSameReleaseRuntimeDefect, KnownSameReleaseNetworkLoss,
         KnownRuntimeOnlyReasons
    <3> QED
      BY <2>4, <3>1, <3>2 DEF NoopMeansConverged
  <2> QED
    BY <2>2, <2>3, <2>4 DEF RunStates
<1> QED
  BY <1>1, TypeCorrect, PTL

(* What the planner makes of the poststate of an effect: the run target    *)
(* holds, so the proposal is decided by the release alone.                 *)
LEMMA ProposalAfterEffect ==
  ASSUME NEW h \in Hosts, NEW before \in Observations, NEW step \in Steps,
         NEW a, NEW exp \in Releases,
         h.run \in RunStates, ModeMatchesKind(h),
         step = "Stop" => before.release \in Releases
  PROVE  LET after == Poststate(h, step, before, exp) IN
         ProposeSignedHostTransition(h, after, a, exp)
           = IF h.kind = "Windows" /\ a = "Apply" /\ h.run = "Stopped"
                  /\ after.release # exp
             THEN Plan("ReplaceRelease", "ReleaseMismatchProposalOnly")
             ELSE InstalledPlan(h, after, exp)
<1> DEFINE after == Poststate(h, step, before, exp)
<1>1. /\ after.kind = h.kind /\ after.owner = h.run
      /\ after.proof = RequiredProof(h.kind) /\ after.fresh
      /\ after.why = "none" /\ after.release \in Releases
      /\ after.ready = (h.run = "Running") /\ after.readyProven = (h.run = "Running")
  BY DEF Poststate
<1>2. ValidObservation(after)
  BY <1>1, NoReleaseAssumption DEF ValidObservation, RequiredProof, Hosts, Kinds
<1>3. ~Degraded(h, after, exp)
  BY <1>1 DEF Degraded
<1>4. ProposeHostTransition(h, after, exp) = InstalledPlan(h, after, exp)
  BY <1>1, <1>2, <1>3 DEF ProposeHostTransition, RequiredProof, RunStates
<1>5. InstalledPlan(h, after, exp).reason = "StoppedReleaseMismatchRequiresInstallTarget"
        <=> h.run = "Stopped" /\ after.release # exp
  BY <1>1 DEF InstalledPlan, StoppedTargetPlan, RunningTargetPlan, Plan, Block,
     RunStates
<1> HIDE DEF after
<1> QED
  BY <1>4, <1>5 DEF ProposeSignedHostTransition, after

(* One verified effect is enough: the poststate that                       *)
(* finish_after_protected_owner_check_once demands is one the planner      *)
(* answers with NOOP, but for a STOP that keeps another release.           *)
THEOREM OneEffectAlwaysConverges == Spec => OneEffectConverges
<1> DEFINE Converges ==
      \/ Proposal'.step = "Noop"
      \/ /\ Proposal.step = "Stop"
         /\ obs'.owner = "Stopped" /\ obs'.release # expected
         /\ Proposal'.step \in {"Blocked", "ReplaceRelease"}
<1>1. TypeOK /\ [Next]_vars => [Execute => Converges]_vars
  <2> SUFFICES ASSUME TypeOK, Execute PROVE Converges
    OBVIOUS
  <2>1. /\ host.run \in RunStates /\ ModeMatchesKind(host)
        /\ ValidObservation(obs) /\ obs.owner \in {"Running", "Stopped"}
    BY ProposalPassedBlockers DEF Execute, Proposal, EffectSteps, TypeOK,
       Hosts, Observations, OwnerStates
  <2>2. Proposal.step \in Steps
    BY DEF Execute, EffectSteps, Steps
  <2>3. Proposal.step = "Stop" => host.run = "Stopped" /\ obs.release \in Releases
    BY <2>1, ProposalShape DEF TypeOK, Proposal, InstalledPlan,
       StoppedTargetPlan, RunningTargetPlan, Plan, Block, RunStates,
       ValidObservation, RequiredProof, Observations
  <2>4. /\ obs' = Poststate(host, Proposal.step, obs, expected)
        /\ Proposal' = ProposeSignedHostTransition(host, obs', action, expected)
    BY DEF Execute, Proposal
  <2>5. Proposal' = IF host.kind = "Windows" /\ action = "Apply"
                         /\ host.run = "Stopped" /\ obs'.release # expected
                    THEN Plan("ReplaceRelease", "ReleaseMismatchProposalOnly")
                    ELSE InstalledPlan(host, obs', expected)
    BY <2>1, <2>2, <2>3, <2>4, ProposalAfterEffect DEF TypeOK
  <2>6. /\ obs'.owner = host.run
        /\ obs'.ready = (host.run = "Running")
        /\ obs'.readyProven = (host.run = "Running")
        /\ Proposal.step # "Stop" => obs'.release = expected
    BY <2>4 DEF Poststate
  <2>7. CASE host.run = "Running"
    BY <2>3, <2>5, <2>6, <2>7 DEF InstalledPlan, RunningTargetPlan, Plan
  <2>8. CASE host.run = "Stopped"
    BY <2>5, <2>6, <2>8 DEF InstalledPlan, StoppedTargetPlan, Plan, Block
  <2> QED
    BY <2>1, <2>7, <2>8 DEF RunStates
<1> QED
  BY <1>1, TypeCorrect, PTL DEF Spec, OneEffectConverges
=============================================================================
