--------------------------- MODULE HostConvergence ---------------------------
(***************************************************************************)
(* One host driven by repeated signed operations: each round the owner     *)
(* reads the host back, the planner proposes, and a proposed effect runs   *)
(* to the poststate that finish_after_protected_owner_check_once demands   *)
(* before it reports VERIFIED.  The readback of a round may be anything a  *)
(* native owner can report; the question is where the planner leads.       *)
(***************************************************************************)
EXTENDS HostPlanner

VARIABLES host,      \* the Git-owned target of this host
          expected,  \* the runtime digest the signed intent is bound to
          action,    \* the action of the signed intent
          obs        \* the last native readback

vars == <<host, expected, action, obs>>

Proposal == ProposeSignedHostTransition(host, obs, action, expected)

(* The actions a native owner of each kind accepts                         *)
(* (validate_native_action_kind), against the target                       *)
(* (validate_intent_against_target).                                       *)
ActionAllowed(h, a) ==
  /\ h.kind = "Vm" => a \in {"Apply", "Recover"}
  /\ a = "Start" => h.run = "Running"
  /\ a = "Stop" => h.run = "Stopped"

(* validate_native_action_step, and the read-only rule for RECOVER.        *)
StepAllowed(h, a, step) ==
  /\ h.kind = "Windows" /\ a = "Start" => step \in {"Start", "Noop"}
  /\ h.kind = "Windows" /\ a = "Stop" => step \in {"Stop", "Noop"}
  /\ a = "Recover" => step = "Noop"

(* Broken on purpose: the owner's state is taken from the step ...         *)
PoststateOfStep(h, step, before, exp) ==
  [kind |-> h.kind, owner |-> step, proof |-> RequiredProof(h.kind),
   release |-> exp, readyProven |-> h.run = "Running",
   ready |-> h.run = "Running", why |-> "none", fresh |-> TRUE]

(* ... or every effect keeps the release that was installed.               *)
PoststateKeepsRelease(h, step, before, exp) ==
  [kind |-> h.kind, owner |-> h.run, proof |-> RequiredProof(h.kind),
   release |-> before.release, readyProven |-> h.run = "Running",
   ready |-> h.run = "Running", why |-> "none", fresh |-> TRUE]

(* The poststate finish_after_protected_owner_check_once accepts: STOP     *)
(* keeps the installed release, every other effect installs the expected   *)
(* one, and a running target must be ready.                                *)
Poststate(h, step, before, exp) ==
  [kind |-> h.kind,
   owner |-> h.run,
   proof |-> RequiredProof(h.kind),
   release |-> IF step = "Stop" THEN before.release ELSE exp,
   readyProven |-> h.run = "Running",
   ready |-> h.run = "Running",
   why |-> "none",
   fresh |-> TRUE]

Init ==
  /\ host \in Hosts
  /\ expected \in Releases
  /\ action \in {a \in Actions : ActionAllowed(host, a)}
  /\ obs \in Observations

(* A signed operation whose proposed effect ran and read back as required. *)
Execute ==
  /\ Proposal.step \in EffectSteps
  /\ StepAllowed(host, action, Proposal.step)
  /\ obs' = Poststate(host, Proposal.step, obs, expected)
  /\ UNCHANGED <<host, expected, action>>

(* The next signed intent for the same host may carry another action.      *)
NextIntent ==
  /\ action' \in {a \in Actions : ActionAllowed(host, a)}
  /\ UNCHANGED <<host, expected, obs>>

Next == Execute \/ NextIntent

Spec == Init /\ [][Next]_vars
-----------------------------------------------------------------------------
TypeOK ==
  /\ host \in Hosts
  /\ expected \in Releases
  /\ action \in Actions
  /\ obs \in Observations

(* Only a valid, fresh readback of the right kind, with the owner's state  *)
(* and release proven, may lead to a proposal other than Blocked, so a     *)
(* stale or unproven observation never triggers even an idempotent effect. *)
UnprovenReadbackBlocks ==
  Proposal.step # "Blocked" =>
    /\ ValidObservation(obs) /\ obs.fresh /\ obs.kind = host.kind
    /\ obs.owner \in {"Running", "Stopped"}
    /\ obs.proof \in {"VerifiedAbsent", RequiredProof(host.kind)}

(* A STOPPED target is never started, installed or moved to a new release  *)
(* while it runs, and a RUNNING target is never stopped: the planner puts  *)
(* the run target before the release.                                      *)
RunTargetHasPriority ==
  /\ host.run = "Stopped" =>
       /\ Proposal.step \notin {"Start", "Install"}
       /\ Proposal.step = "ReplaceRelease" =>
            host.kind = "Windows" /\ action = "Apply" /\ obs.owner = "Stopped"
  /\ host.run = "Running" => Proposal.step # "Stop"

(* Every proposal carries the step its reason stands for, so               *)
(* validate_host_transition_plan never rejects the planner's own output.   *)
ProposalsValidate == ValidPlan(Proposal)

(* A NOOP consumes a signed operation as OBSERVED, so it must mean that    *)
(* the host really is where the target wants it.                           *)
NoopMeansConverged ==
  Proposal.step = "Noop" =>
    /\ obs.owner = host.run
    /\ obs.release = expected
    /\ host.run = "Running" => obs.ready /\ obs.why = "none"

(* One verified effect is enough: after it the planner proposes NOOP, and  *)
(* no second effect, whatever action the next signed intent has.  The only *)
(* exception is a STOP that keeps another release installed: that host     *)
(* stays stopped, and only a Windows APPLY may then replace the release.   *)
OneEffectConverges ==
  [][Execute =>
       \/ Proposal'.step = "Noop"
       \/ /\ Proposal.step = "Stop"
          /\ obs'.owner = "Stopped" /\ obs'.release # expected
          /\ Proposal'.step \in {"Blocked", "ReplaceRelease"}]_vars
=============================================================================
