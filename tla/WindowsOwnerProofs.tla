------------------------- MODULE WindowsOwnerProofs -------------------------
(***************************************************************************)
(* Proofs about WindowsOwner, for every set of operations, releases,       *)
(* foreign networks and Git states.  First the types; then SafeInv, layer  *)
(* by layer and action by action; then the properties it implies.          *)
(***************************************************************************)
EXTENDS WindowsInv, TLAPS

(* There is a target to begin with.                                        *)
LEMMA SomeTargetIsOne == SomeTarget \in Targets
  BY TargetAssumption DEF SomeTarget

(* A target, field by field.                                               *)
LEMMA TargetFields ==
  ASSUME NEW s \in Targets
  PROVE  s.mode \in Datapaths /\ s.run \in RunStates /\ s.release \in Releases
  BY TargetAssumption

(* What the planner may propose: one of the steps, and START for a target  *)
(* that runs.                                                              *)
LEMMA PlanShape ==
  ASSUME NEW obs, src.run \in RunStates
  PROVE  /\ PlanFor(obs).step \in Steps
         /\ PlanFor(obs).step = "Start" => src.run = "Running"
<1> DEFINE h == PlannerHost
           e == ExpectedRelease
<1>1. h.run = src.run
  BY DEF PlannerHost
<1> HIDE DEF h, e
<1>2. /\ ProposeHostTransition(h, obs, e).step \in Steps \ {"Configure"}
      /\ ProposeHostTransition(h, obs, e).step = "Start" => h.run # "Stopped"
  BY DEF ProposeHostTransition, InstalledPlan, AbsentPlan, StoppedTargetPlan,
     RunningTargetPlan, Block, Plan, Steps
<1>3. /\ ProposeSignedHostTransition(h, obs, Action, e).step \in Steps
      /\ ProposeSignedHostTransition(h, obs, Action, e).step = "Start" => h.run # "Stopped"
  BY <1>2 DEF ProposeSignedHostTransition, Plan, Steps
<1>4. /\ PlanFor(obs).step \in Steps
      /\ PlanFor(obs).step = "Start" => h.run # "Stopped"
  BY <1>3 DEF PlanFor, h, e, Plan, Block, Steps
<1> QED
  BY <1>1, <1>4 DEF RunStates

(* The empty records are typed.                                            *)
LEMMA EmptyTypes ==
  /\ NoIntent \in IntentType /\ NoRpc \in RpcType
  /\ NoBaseline \in BaselineType /\ NoPreflight \in PreflightType
  BY SomeTargetIsOne DEF NoIntent, Intent, IntentType, NoRpc, RpcType, NoBaseline, BaselineType,
     NoPreflight, PreflightType, Datapaths

(* A command that returns leaves nothing behind.                           *)
LEMMA ReturnTyped ==
  ASSUME Return PROVE LocalTyped'
  BY SomeTargetIsOne, EmptyTypes DEF Return, LocalTyped, Pcs, Steps

(* Only begun operations are noted as reached.                             *)
LEMMA NoteTyped ==
  ASSUME NoteReached, begun' \subseteq Ops, reached \subseteq Ops PROVE reached' \subseteq Ops
  BY DEF NoteReached

(* Effects are counted up to two.                                          *)
LEMMA CountTyped ==
  ASSUME CountEffect, effects \in [Ops -> 0..2], op \in Ops PROVE effects' \in [Ops -> 0..2]
<1>1. effects[op] \in 0..2
  OBVIOUS
<1>2. (IF effects[op] = 2 THEN 2 ELSE effects[op] + 1) \in 0..2
  BY <1>1
<1> QED
  BY <1>2 DEF CountEffect

(* The controller, the service and the kernel network.                     *)
LEMMA StopTyped ==
  ASSUME MachineTyped, StopService PROVE MachineTyped'
  BY EmptyTypes DEF StopService, Survivor, MachineTyped, NoRpc

(* The service manager's start keeps the machine typed.                    *)
LEMMA StartTyped ==
  ASSUME MachineTyped, StartService PROVE MachineTyped'
  BY EmptyTypes DEF StartService, MachineTyped, NoRpc

(* The controller's answer is a call of the same operation.                *)
LEMMA AnswerTyped ==
  ASSUME rpc \in RpcType, NEW at \in {"verified", "consumed", "starting", "launched", "ok", "failed"},
         Answer(at)
  PROVE  rpc' \in RpcType /\ rpc'.at = at /\ rpc'.op = rpc.op /\ rpc'.mode = rpc.mode
  BY DEF Answer, RpcType

(* The controller, the adapter and the world around keep the machine       *)
(* typed.                                                                  *)
LEMMA ControllerTyped ==
  ASSUME MachineTyped, ControllerStep \/ AdapterGone \/ Disturbance
  PROVE  MachineTyped'
<1>1. CASE VerifyEffect
  <2>1. Answer("verified") \/ Answer("failed")
    BY <1>1 DEF VerifyEffect
  <2>2. rpc' \in RpcType /\ rpc'.op = rpc.op
    BY <2>1, AnswerTyped DEF MachineTyped
  <2> QED
    BY <1>1, <2>2 DEF VerifyEffect, MachineTyped
<1>2. CASE ConsumeEffect
  <2>1. Answer("consumed") \/ Answer("failed")
    BY <1>2 DEF ConsumeEffect
  <2>2. rpc' \in RpcType /\ rpc'.op = rpc.op
    BY <2>1, AnswerTyped DEF MachineTyped
  <2>3. rpc.op \in Ops /\ used' \subseteq Ops
    BY <1>2 DEF ConsumeEffect, MachineTyped
  <2> QED
    BY <1>2, <2>2, <2>3 DEF ConsumeEffect, MachineTyped
<1>3. CASE LaunchChild \/ ObserveStartup
  <2>1. Answer("starting") \/ Answer("launched") \/ Answer("failed")
    BY <1>3 DEF LaunchChild, ObserveStartup, StartupObserved, StartupRejected
  <2>2. rpc' \in RpcType /\ rpc'.at \in {"starting", "launched", "failed"}
    BY <2>1, AnswerTyped DEF MachineTyped
  <2>3. child' \in {"none", "proxy", "tun", "orphan"}
    BY <1>3 DEF LaunchChild, ObserveStartup, StartupObserved, StartupRejected, ChildOf, MachineTyped
  <2>4. tun' \in BOOLEAN
    BY <1>3 DEF LaunchChild, ObserveStartup, StartupObserved, StartupRejected, MachineTyped
  <2> QED
    BY <1>3, <2>2, <2>3, <2>4 DEF LaunchChild, ObserveStartup, MachineTyped
<1>4. CASE ConfirmChild
  <2>1. Answer("ok") \/ Answer("failed")
    BY <1>4 DEF ConfirmChild
  <2>2. rpc' \in RpcType /\ rpc'.at \in {"ok", "failed"}
    BY <2>1, AnswerTyped DEF MachineTyped
  <2> QED
    BY <1>4, <2>2 DEF ConfirmChild, MachineTyped
<1>5. CASE ControllerDies
  <2>1. rpc' \in RpcType /\ (rpc'.at \in {"sent", "verified", "consumed"} => rpc' = rpc)
    BY <1>5 DEF ControllerDies, MachineTyped, RpcType, InFlight
  <2> QED
    BY <1>5, <2>1 DEF ControllerDies, Survivor, MachineTyped
<1>6. CASE AdapterGone \/ ChildExits \/ NetworkChanges
  BY <1>6 DEF AdapterGone, ChildExits, NetworkChanges, MachineTyped
<1> QED
  BY <1>1, <1>2, <1>3, <1>4, <1>5, <1>6 DEF ControllerStep, Disturbance

(* The initial state is typed.                                             *)
LEMMA TypedInit == Init => Typed
<1> SUFFICES ASSUME Init PROVE Typed
  OBVIOUS
<1>1. MachineTyped
  BY EmptyTypes DEF Init, MachineInit, MachineTyped, NoRpc
<1>2. DiskTyped
  BY EmptyTypes DEF Init, DiskTyped
<1>3. LocalTyped
  BY EmptyTypes, SomeTargetIsOne DEF Init, LocalTyped, Pcs, Steps
<1>4. OthersTyped
  BY EmptyTypes DEF Init, OthersTyped
<1> QED
  BY <1>1, <1>2, <1>3, <1>4 DEF Typed

(* A step of the owner keeps the types.                                    *)
LEMMA OwnerTyped ==
  ASSUME Typed, OwnerStep PROVE Typed'
<1> MachineTyped /\ DiskTyped /\ LocalTyped /\ OthersTyped
  BY DEF Typed
<1> USE DEF Typed, Pcs
<1>1. CASE Preflight
  <2>1. request.op \in Ops
    BY <1>1 DEF Preflight, OthersTyped
  <2>2. pre' \in PreflightType
    <3> DEFINE b == ActionOf[request.op] = "Stop"
    <3>1. b \in BOOLEAN
      OBVIOUS
    <3> HIDE DEF b
    <3>2. [net |-> baseline.net, tun |-> b, orig |-> baseline.op] \in PreflightType
      BY <3>1 DEF DiskTyped, BaselineType, PreflightType
    <3>3. [net |-> net, tun |-> FALSE, orig |-> NoOp] \in PreflightType
      BY DEF MachineTyped, PreflightType
    <3> QED
      BY <1>1, <3>2, <3>3 DEF Preflight, b
  <2> QED
    BY <1>1, <2>1, <2>2 DEF Preflight, machine, disk, MachineTyped, DiskTyped, LocalTyped, OthersTyped
<1>2. CASE Authorize \/ CheckConfig
  BY <1>2 DEF Authorize, CheckConfig, machine, disk, local, history, MachineTyped, DiskTyped,
     LocalTyped, OthersTyped
<1>3. ASSUME NEW r \in BOOLEAN, PlanEffect(r) PROVE Typed'
  <2>1. src.run \in RunStates
    BY TargetFields DEF LocalTyped
  <2>2. step' \in Steps
    BY <1>3, <2>1, PlanShape DEF PlanEffect
  <2> QED
    BY <1>3, <2>2 DEF PlanEffect, machine, disk, history, MachineTyped, DiskTyped, LocalTyped, OthersTyped
<1>4. ASSUME NEW r \in BOOLEAN, Resolve(r) PROVE Typed'
  <2>1. gate.op \in Ops
    BY <1>4 DEF Resolve, MayResolve, DiskTyped
  <2> QED
    BY <1>4, <2>1 DEF Resolve, machine, disk, history, MachineTyped, DiskTyped, LocalTyped,
       OthersTyped, Steps
<1>5. CASE CreateGate
  <2>1. Intent(op, src) \in IntentType
    BY DEF Intent, IntentType, LocalTyped
  <2> QED
    BY <1>5, <2>1 DEF CreateGate, machine, local, history, MachineTyped, DiskTyped, LocalTyped,
       OthersTyped
<1>6. CASE CreateBegin
  <2>1. begun' \subseteq Ops
    BY <1>6 DEF CreateBegin, DiskTyped, LocalTyped
  <2>2. reached' \subseteq Ops
    BY <1>6, <2>1, NoteTyped DEF CreateBegin, OthersTyped
  <2> QED
    BY <1>6, <2>1, <2>2 DEF CreateBegin, machine, local, MachineTyped, DiskTyped, LocalTyped,
       OthersTyped
<1>7. CASE BeginStart \/ BeginConfigure
  <2>1. effects' \in [Ops -> 0..2]
    BY <1>7, CountTyped DEF BeginStart, BeginConfigure, LocalTyped, OthersTyped
  <2>2. baseline' \in BaselineType
    BY <1>7 DEF BeginStart, BeginConfigure, disk, DiskTyped, LocalTyped, BaselineType, PreflightType
  <2> QED
    BY <1>7, <2>1, <2>2 DEF BeginStart, BeginConfigure, machine, disk, local, MachineTyped,
       DiskTyped, LocalTyped, OthersTyped
<1>8. CASE ReplaceConfig
  <2>1. config' \in Datapaths \cup {"absent"}
    BY <1>8, TargetFields DEF ReplaceConfig, LocalTyped
  <2>2. reached' \subseteq Ops
    BY <1>8, NoteTyped DEF ReplaceConfig, disk, DiskTyped, OthersTyped
  <2> QED
    BY <1>8, <2>1, <2>2 DEF ReplaceConfig, disk, MachineTyped, DiskTyped, LocalTyped, OthersTyped
<1>9. CASE OwnerStartsService
  <2>1. MachineTyped'
    BY <1>9, StartTyped DEF OwnerStartsService
  <2>2. reached' \subseteq Ops
    BY <1>9, NoteTyped DEF OwnerStartsService, disk, DiskTyped, OthersTyped
  <2> QED
    BY <1>9, <2>1, <2>2 DEF OwnerStartsService, disk, local, DiskTyped, LocalTyped, OthersTyped
<1>10. CASE SendEffect
  <2>1. rpc' \in RpcType /\ rpc'.op \in Ops
    BY <1>10, TargetFields DEF SendEffect, RpcType, LocalTyped, PreflightType
  <2> QED
    BY <1>10, <2>1 DEF SendEffect, disk, local, history, MachineTyped, DiskTyped, LocalTyped,
       OthersTyped
<1>11. CASE EffectAnswered
  BY <1>11, EmptyTypes DEF EffectAnswered, NoRpc, disk, history, MachineTyped, DiskTyped,
     LocalTyped, OthersTyped
<1>12. CASE InstallRelease
  <2>1. release' \in Releases
    BY <1>12, TargetFields DEF InstallRelease, LocalTyped
  <2>2. reached' \subseteq Ops
    BY <1>12, NoteTyped DEF InstallRelease, disk, DiskTyped, OthersTyped
  <2>3. effects' \in [Ops -> 0..2]
    BY <1>12, CountTyped DEF InstallRelease, LocalTyped, OthersTyped
  <2> QED
    BY <1>12, <2>1, <2>2, <2>3 DEF InstallRelease, disk, MachineTyped, DiskTyped, LocalTyped, OthersTyped
<1>13. CASE StopEffect
  <2>1. MachineTyped'
    BY <1>13, StopTyped DEF StopEffect
  <2>2. reached' \subseteq Ops
    BY <1>13, NoteTyped DEF StopEffect, disk, DiskTyped, OthersTyped
  <2>3. effects' \in [Ops -> 0..2]
    BY <1>13, CountTyped DEF StopEffect, LocalTyped, OthersTyped
  <2> QED
    BY <1>13, <2>1, <2>2, <2>3 DEF StopEffect, disk, DiskTyped, LocalTyped, OthersTyped
<1>14. ASSUME NEW r \in BOOLEAN, ReadBack(r) PROVE Typed'
  BY <1>14 DEF ReadBack, machine, disk, local, history, MachineTyped, DiskTyped, LocalTyped, OthersTyped
<1>15. CASE SafetyStop
  <2>1. MachineTyped' /\ LocalTyped'
    BY <1>15, StopTyped, ReturnTyped DEF SafetyStop
  <2> QED
    BY <1>15, <2>1 DEF SafetyStop, disk, DiskTyped, OthersTyped
<1>16. CASE StoreTerminal
  <2>1. terminal' \in [Ops -> SUBSET {"verified", "recovered", "observed"}]
    BY <1>16 DEF StoreTerminal, TerminalName, DiskTyped
  <2> QED
    BY <1>16, <2>1 DEF StoreTerminal, machine, local, history, MachineTyped, DiskTyped, LocalTyped,
       OthersTyped
<1>17. CASE FreeGate
  <2>1. pc' \in {"archive", "publish", "gate"} /\ (pc' = "archive" => pre.orig \in Ops)
    BY <1>17 DEF FreeGate, Retires, LocalTyped, PreflightType
  <2> QED
    BY <1>17, <2>1, EmptyTypes DEF FreeGate, machine, history, MachineTyped, DiskTyped, LocalTyped,
       OthersTyped
<1>18. CASE ArchiveBaseline
  <2>1. baseline.op \in Ops
    BY <1>18 DEF ArchiveBaseline, MayArchive, LocalTyped
  <2> QED
    BY <1>18, <2>1, EmptyTypes DEF ArchiveBaseline, machine, local, history, MachineTyped, DiskTyped,
       LocalTyped, OthersTyped
<1>19. CASE ConsumeRequest
  BY <1>19, EmptyTypes, ReturnTyped DEF ConsumeRequest, machine, disk, history, MachineTyped,
     DiskTyped, OthersTyped
<1>20. CASE Refuse \/ Dies
  <2>1. Leave
    BY <1>20 DEF Refuse, Dies
  <2> QED
    BY <2>1, ReturnTyped DEF Leave, machine, disk, MachineTyped, DiskTyped, OthersTyped
<1> QED
  BY <1>1, <1>2, <1>3, <1>4, <1>5, <1>6, <1>7, <1>8, <1>9, <1>10, <1>11, <1>12, <1>13,
     <1>14, <1>15, <1>16, <1>17, <1>18, <1>19, <1>20 DEF OwnerStep

(* The types hold.                                                         *)
LEMMA WindowsTyped == Spec => []Typed
<1>1. Typed /\ [Next]_vars => Typed'
  <2> SUFFICES ASSUME Typed, [Next]_vars PROVE Typed'
    OBVIOUS
  <2> USE DEF Typed
  <2>1. ASSUME NEW o \in Ops, SubmitRequest(o) PROVE Typed'
    <3>1. request' \in IntentType /\ request'.op \in Ops
      BY <2>1 DEF SubmitRequest, Intent, IntentType, OthersTyped
    <3> QED
      BY <2>1, <3>1 DEF SubmitRequest, machine, disk, local, history, MachineTyped, DiskTyped,
         LocalTyped, OthersTyped
  <2>2. CASE WithdrawRequest \/ GitAdvances
    BY <2>2, EmptyTypes DEF WithdrawRequest, GitAdvances, machine, disk, local, history, MachineTyped,
       DiskTyped, LocalTyped, OthersTyped
  <2>3. CASE MachineStep
    <3>1. MachineTyped'
      BY <2>3, ControllerTyped DEF MachineStep
    <3>2. reached' \subseteq Ops
      BY <2>3, NoteTyped DEF MachineStep, disk, DiskTyped, OthersTyped
    <3> QED
      BY <2>3, <3>1, <3>2 DEF MachineStep, disk, local, DiskTyped, LocalTyped, OthersTyped
  <2>4. CASE UNCHANGED vars
    BY <2>4 DEF vars, machine, disk, local, history, MachineTyped, DiskTyped, LocalTyped, OthersTyped
  <2> QED
    BY <2>1, <2>2, <2>3, <2>4, OwnerTyped DEF Next
<1> QED
  BY <1>1, TypedInit, PTL DEF Spec

(* Every record, label and local of the Windows owner stays in its type,   *)
(* through crashes and whatever the machine does by itself.                *)
THEOREM TypeCorrect == Spec => []TypeOK
<1>1. Typed => TypeOK
  BY DEF Typed, TypeOK, MachineTyped, DiskTyped, LocalTyped, OthersTyped, RpcType, IntentType,
     BaselineType, PreflightType
<1> QED
  BY <1>1, WindowsTyped, PTL
-----------------------------------------------------------------------------
(* Every step of the owner, and what happens around it, by what it does to *)
(* the process.                                                            *)
Planning == Authorize \/ CheckConfig \/ \E r \in BOOLEAN : PlanEffect(r) \/ Resolve(r)
Running  == \/ CreateGate \/ CreateBegin \/ BeginStart \/ BeginConfigure \/ ReplaceConfig
            \/ OwnerStartsService \/ SendEffect \/ EffectAnswered \/ InstallRelease
            \/ StopEffect \/ StoreTerminal \/ FreeGate \/ ArchiveBaseline
            \/ \E r \in BOOLEAN : ReadBack(r)
Leaving  == SafetyStop \/ ConsumeRequest \/ Refuse \/ Dies
Around   == \/ \E o \in Ops : SubmitRequest(o)
            \/ WithdrawRequest \/ GitAdvances \/ MachineStep \/ UNCHANGED vars

(* Every step is of one of five kinds.                                     *)
LEMMA StepKinds ==
  ASSUME [Next]_vars PROVE Preflight \/ Planning \/ Running \/ Leaving \/ Around
  BY DEF Next, OwnerStep, Planning, Running, Leaving, Around

(* A command that ends leaves the journal as it is.                        *)
LEMMA LeavingEnds ==
  ASSUME Leaving
  PROVE  /\ pc' = "idle" /\ subj' = op'
         /\ UNCHANGED <<gate, begun, terminal, baseline, archived, effects, reached, target>>
  BY DEF Leaving, SafetyStop, ConsumeRequest, Refuse, Dies, Leave, Return, disk, history

(* A step outside the owner leaves the journal and the command alone.      *)
LEMMA AroundKeeps ==
  ASSUME Around
  PROVE  /\ UNCHANGED <<gate, begun, terminal, baseline, archived, effects, pc, op, src, pre,
                        step, prior, subj>>
         /\ MachineStep \/ UNCHANGED <<svc, child, tun, net, config, release, rpc, used, reached>>
  BY DEF Around, SubmitRequest, WithdrawRequest, GitAdvances, MachineStep, vars, machine, disk,
     local, history

(* Once planned, the operation, its target and its step stay.              *)
LEMMA RunningKeeps ==
  ASSUME Running
  PROVE  /\ UNCHANGED <<op, src, pre, step, prior>>
         /\ pc \in Planned \cup {"archive"} /\ pc' \in Planned \cup {"archive", "publish"}
         /\ pc' \in Planned => pc \in Planned
         /\ pc' \in Effecting => pc \in Effecting \/ (pc = "begin" /\ step # "Noop")
         /\ pc' \in {"send", "await"} => pc \in {"start", "send"}
         /\ pc' = "start" => step = "Start"
  BY DEF Running, CreateGate, CreateBegin, BeginStart, BeginConfigure, ReplaceConfig,
     OwnerStartsService, SendEffect, EffectAnswered, InstallRelease, StopEffect, StoreTerminal,
     FreeGate, ArchiveBaseline, ReadBack, local, Planned, Effecting, Settling

(* Every step keeps Admitted.                                              *)
LEMMA AdmittedNext ==
  ASSUME Typed, SafeInv, [Next]_vars PROVE Admitted'
<1>1. CASE Preflight
  <2>1. pc' = "preflighted" /\ op' = request.op /\ src' = target
    BY <1>1 DEF Preflight
  <2>2. DatapathAdmitted(ActionOf[request.op], target)
    BY <1>1 DEF Preflight
  <2> QED
    BY <2>1, <2>2 DEF Admitted, TunAdmitted, DatapathAdmitted, Action, Planned, Effecting, Settling
<1>2. CASE Planning
  <2>1. CASE Authorize \/ CheckConfig
    BY <2>1 DEF Authorize, CheckConfig, local, SafeInv, Admitted, TunAdmitted, Action, Planned,
       Effecting, Settling
  <2>2. ASSUME NEW r \in BOOLEAN, PlanEffect(r) PROVE Admitted'
    <3>1. /\ pc = "checked" /\ pc' = "gate" /\ op' = op /\ src' = src
          /\ StepFits(step') /\ ActionFitsTarget /\ step' = PlanFor(Observed(r)).step
      BY <2>2 DEF PlanEffect
    <3>2. src.run \in RunStates
      BY TargetFields DEF Typed, LocalTyped
    <3>3. step' = "Start" => src.run = "Running"
      <4>1. PlanFor(Observed(r)).step = "Start" => src.run = "Running"
        BY <3>2, PlanShape
      <4> QED
        BY <2>2, <4>1 DEF PlanEffect
    <3> QED
      BY <3>1, <3>3 DEF SafeInv, Admitted, TunAdmitted, Action, StepFits, ActionFitsTarget,
         Planned, Effecting, Settling
  <2>3. ASSUME NEW r \in BOOLEAN, Resolve(r) PROVE Admitted'
    <3>1. /\ pc = "checked" /\ pc' \in Settling /\ op' = op /\ src' = src
          /\ step' = "Noop" /\ Action = "Recover"
      BY <2>3 DEF Resolve, MayResolve, Settling
    <3> QED
      BY <3>1 DEF SafeInv, Admitted, TunAdmitted, Action, StepFits, ActionFitsTarget,
         Planned, Effecting, Settling
  <2> QED
    BY <1>2, <2>1, <2>2, <2>3 DEF Planning
<1>3. CASE Running
  BY <1>3, RunningKeeps DEF SafeInv, Admitted, TunAdmitted, Action, StepFits, ActionFitsTarget,
     Planned, Effecting, Settling
<1>4. CASE Leaving
  BY <1>4, LeavingEnds DEF Admitted, Planned, Effecting, Settling
<1>5. CASE Around
  BY <1>5, AroundKeeps DEF SafeInv, Admitted, TunAdmitted, Action, StepFits, ActionFitsTarget
<1> QED
  BY <1>1, <1>2, <1>3, <1>4, <1>5, StepKinds

(* A gate that is held names an operation.                                 *)
LEMMA GatedNext ==
  ASSUME Typed, SafeInv, [Next]_vars PROVE Gated'
<1> USE DEF Effecting, Settling
<1>1. CASE Preflight \/ Leaving
  BY <1>1, LeavingEnds DEF Preflight, Gated
<1>2. CASE Planning
  <2>1. CASE Authorize \/ CheckConfig
    BY <2>1 DEF Authorize, CheckConfig, Gated
  <2>2. ASSUME NEW r \in BOOLEAN, PlanEffect(r) PROVE Gated'
    BY <2>2 DEF PlanEffect, Gated
  <2>3. ASSUME NEW r \in BOOLEAN, Resolve(r) PROVE Gated'
    <3>1. /\ pc' \in Settling /\ subj' = gate.op /\ gate' = gate
          /\ gate.op \in Ops /\ ActionOf[gate.op] \in {"Apply", "Recover"}
      BY <2>3 DEF Resolve, MayResolve, disk, Typed, DiskTyped
    <3> QED
      BY <3>1 DEF Gated
  <2> QED
    BY <1>2, <2>1, <2>2, <2>3 DEF Planning
<1>3. CASE CreateGate
  BY <1>3 DEF CreateGate, local, SafeInv, Gated
<1>4. CASE CreateBegin
  <2>1. gate = Intent(op, src) /\ subj = op /\ op \in Ops
    BY <1>4 DEF CreateBegin, SafeInv, Gated, Typed, LocalTyped
  <2>2. gate.op = op
    BY <2>1 DEF Intent
  <2> QED
    BY <1>4, <2>1, <2>2 DEF CreateBegin, local, Gated
<1>5. CASE \/ BeginStart \/ BeginConfigure \/ ReplaceConfig \/ OwnerStartsService \/ SendEffect
           \/ EffectAnswered \/ InstallRelease \/ StopEffect
  <2>1. /\ pc \in Effecting /\ pc' \in Effecting
        /\ gate' = gate /\ op' = op /\ src' = src /\ subj' = subj
    BY <1>5 DEF BeginStart, BeginConfigure, ReplaceConfig, OwnerStartsService, SendEffect,
       EffectAnswered, InstallRelease, StopEffect, disk, local
  <2> QED
    BY <2>1 DEF SafeInv, Gated
<1>6. ASSUME NEW r \in BOOLEAN, ReadBack(r) PROVE Gated'
  <2>1. gate = Intent(op, src) /\ subj = op /\ op \in Ops
    BY <1>6 DEF ReadBack, SafeInv, Gated, Typed, LocalTyped
  <2>2. gate.op = op
    BY <2>1 DEF Intent
  <2> QED
    BY <1>6, <2>1, <2>2 DEF ReadBack, disk, local, Gated
<1>7. CASE StoreTerminal
  BY <1>7 DEF StoreTerminal, local, SafeInv, Gated
<1>8. CASE FreeGate
  BY <1>8 DEF FreeGate, Gated
<1>9. CASE ArchiveBaseline
  BY <1>9 DEF ArchiveBaseline, Gated
<1>10. CASE Around
  BY <1>10, AroundKeeps DEF SafeInv, Gated
<1> QED
  BY <1>1, <1>2, <1>3, <1>4, <1>5, <1>6, <1>7, <1>8, <1>9, <1>10, StepKinds DEF Running

(* Every step keeps BeginsOnce.                                            *)
LEMMA BeginsOnceNext ==
  ASSUME Typed, SafeInv, [Next]_vars PROVE BeginsOnce'
<1> USE DEF Effecting, Settling
<1>0. effects \in [Ops -> 0..2] /\ (pc # "idle" => op \in Ops)
  BY DEF Typed, OthersTyped, LocalTyped
<1>1. ASSUME UNCHANGED <<effects, begun>>,
             pc' \in {"gate", "begin"} \/ (pc' \in Settling /\ subj' # op') => op' \notin begun,
             pc' \in Effecting => op' \in begun, pc' = "effect" => effects[op'] = 0
      PROVE  BeginsOnce'
  BY <1>1 DEF SafeInv, BeginsOnce, OneEffectPerOperation
<1>2. CASE Preflight \/ Leaving \/ Authorize \/ CheckConfig \/ ArchiveBaseline
  <2>1. /\ UNCHANGED <<effects, begun>>
        /\ pc' \in {"idle", "preflighted", "authorized", "checked", "publish"}
    BY <1>2, LeavingEnds DEF Preflight, Authorize, CheckConfig, ArchiveBaseline, disk, history
  <2> QED
    BY <1>1, <2>1
<1>3. ASSUME NEW r \in BOOLEAN, PlanEffect(r) \/ Resolve(r) PROVE BeginsOnce'
  <2>1. /\ UNCHANGED <<effects, begun>> /\ op' = op /\ op \notin begun
        /\ pc' \in {"gate"} \cup Settling
    BY <1>3 DEF PlanEffect, Resolve, MayResolve, Unused, disk, history
  <2> QED
    BY <1>1, <2>1
<1>4. CASE CreateGate \/ StoreTerminal \/ FreeGate
  <2>1. /\ UNCHANGED <<effects, begun>> /\ op' = op
        /\ \/ pc = "gate" /\ pc' = "begin"
           \/ pc = "store" /\ pc' = "unlock" /\ subj' = subj
           \/ pc = "unlock" /\ subj # op /\ pc' = "gate"
           \/ pc' \in {"archive", "publish"}
    BY <1>4 DEF CreateGate, StoreTerminal, FreeGate, local, history
  <2> QED
    BY <1>1, <2>1 DEF SafeInv, BeginsOnce
<1>5. CASE CreateBegin
  <2>1. /\ pc = "begin" /\ begun' = begun \cup {op} /\ effects' = effects
        /\ op' = op /\ subj' = subj /\ subj = op /\ op \notin begun /\ op \in Ops
        /\ pc' \in {"store", "effect"}
    BY <1>0, <1>5 DEF CreateBegin, local, SafeInv, BeginsOnce, Gated
  <2> QED
    BY <2>1 DEF SafeInv, BeginsOnce, OneEffectPerOperation
<1>6. CASE BeginStart \/ BeginConfigure \/ InstallRelease \/ StopEffect
  <2>1. /\ pc = "effect" /\ pc' \in {"configure", "readback"} /\ CountEffect
        /\ begun' = begun /\ op' = op
    BY <1>6 DEF BeginStart, BeginConfigure, InstallRelease, StopEffect, disk, local
  <2>2. effects[op] = 0 /\ op \in begun /\ op \in Ops
    BY <1>0, <2>1 DEF SafeInv, BeginsOnce
  <2>3. effects' = [effects EXCEPT ![op] = 1]
    BY <2>1, <2>2 DEF CountEffect
  <2>4. \A o \in Ops : effects'[o] = IF o = op THEN 1 ELSE effects[o]
    BY <1>0, <2>3
  <2> QED
    BY <2>1, <2>2, <2>4 DEF SafeInv, BeginsOnce, OneEffectPerOperation
<1>7. CASE ReplaceConfig \/ OwnerStartsService \/ SendEffect \/ EffectAnswered
  <2>1. /\ UNCHANGED <<effects, begun>> /\ op' = op
        /\ pc \in Effecting /\ pc' \in Effecting /\ pc' # "effect"
    BY <1>7 DEF ReplaceConfig, OwnerStartsService, SendEffect, EffectAnswered, disk, local, history
  <2> QED
    BY <1>1, <2>1 DEF SafeInv, BeginsOnce
<1>8. ASSUME NEW r \in BOOLEAN, ReadBack(r) PROVE BeginsOnce'
  <2>1. UNCHANGED <<effects, begun>> /\ op' = op /\ subj' = op /\ pc' = "store"
    BY <1>8 DEF ReadBack, SafeInv, Gated, disk, local, history
  <2> QED
    BY <1>1, <2>1
<1>9. CASE Around
  BY <1>1, <1>9, AroundKeeps DEF SafeInv, BeginsOnce
<1> QED
  BY <1>2, <1>3, <1>4, <1>5, <1>6, <1>7, <1>8, <1>9, StepKinds DEF Planning, Running

(* Every step keeps Baselines.                                             *)
LEMMA BaselinesNext ==
  ASSUME Typed, SafeInv, [Next]_vars PROVE Baselines'
<1> USE DEF Effecting, Settling
<1>1. begun \subseteq Ops /\ Baselines
  BY DEF Typed, DiskTyped, SafeInv
<1>2. CASE Preflight \/ Leaving \/ Planning
  <2>1. /\ UNCHANGED <<archived, begun, baseline>>
        /\ pc' \notin {"effect", "configure", "start", "send"}
    BY <1>2, LeavingEnds DEF Preflight, Planning, Authorize, CheckConfig, PlanEffect, Resolve, disk
  <2> QED
    BY <1>1, <2>1 DEF Baselines
<1>3. CASE CreateGate \/ StoreTerminal \/ FreeGate \/ \E r \in BOOLEAN : ReadBack(r)
  <2>1. /\ UNCHANGED <<archived, begun, baseline>>
        /\ pc' \notin {"effect", "configure", "start", "send"}
    BY <1>3 DEF CreateGate, StoreTerminal, FreeGate, ReadBack, disk
  <2> QED
    BY <1>1, <2>1 DEF Baselines
<1>4. CASE CreateBegin
  <2>1. /\ begun' = begun \cup {op} /\ UNCHANGED <<archived, baseline>>
        /\ op' = op /\ op \notin begun /\ pc' \in {"store", "effect"}
    BY <1>4 DEF CreateBegin, local, SafeInv, BeginsOnce
  <2> QED
    BY <1>1, <2>1 DEF Baselines
<1>5. CASE BeginStart
  <2>1. /\ UNCHANGED <<archived, begun, op, src, step, pre>> /\ pc' = "configure"
        /\ op \in begun \ archived
        /\ IF src.mode = "ManagedTun" THEN baseline' = [op |-> op, net |-> pre.net]
                                      ELSE baseline' = baseline
    BY <1>1, <1>5 DEF BeginStart, local, SafeInv, BeginsOnce, Baselines
  <2> QED
    BY <1>1, <2>1 DEF Baselines
<1>6. CASE \/ BeginConfigure \/ ReplaceConfig \/ OwnerStartsService \/ SendEffect
           \/ EffectAnswered \/ InstallRelease \/ StopEffect
  <2>1. /\ UNCHANGED <<archived, begun, baseline, op, src, step, pre>> /\ pc' # "effect"
        /\ \/ pc' \in {"readback", "await"}
           \/ pc' = "configure" /\ step # "Start"
           \/ pc' \in {"start", "send"} /\ pc \in {"configure", "start"}
    BY <1>6 DEF BeginConfigure, ReplaceConfig, OwnerStartsService, SendEffect, EffectAnswered,
       InstallRelease, StopEffect, disk, local
  <2> QED
    BY <1>1, <2>1 DEF Baselines
<1>7. CASE ArchiveBaseline
  <2>1. /\ archived' = archived \cup {baseline.op} /\ baseline' = NoBaseline
        /\ begun' = begun /\ pc' = "publish" /\ baseline.op \in Ops
    BY <1>7 DEF ArchiveBaseline, MayArchive, Typed, LocalTyped
  <2>2. baseline # NoBaseline
    BY <2>1, OpAssumption DEF NoBaseline
  <2> QED
    BY <1>1, <2>1, <2>2 DEF Baselines
<1>8. CASE Around
  BY <1>1, <1>8, AroundKeeps DEF Baselines
<1> QED
  BY <1>2, <1>3, <1>4, <1>5, <1>6, <1>7, <1>8, StepKinds DEF Running

(* Every step keeps Remembered.                                            *)
LEMMA RememberedNext ==
  ASSUME Typed, SafeInv, [Next]_vars PROVE Remembered'
<1>1. Remembered
  BY DEF SafeInv
<1>2. CASE Preflight
  BY <1>2 DEF Preflight, disk, Remembered
<1>3. CASE Leaving
  BY <1>3, LeavingEnds DEF Remembered
<1>4. CASE Planning
  <2>1. UNCHANGED <<baseline, pre>> /\ pc # "idle"
    BY <1>4 DEF Planning, Authorize, CheckConfig, PlanEffect, Resolve, disk, local
  <2> QED
    BY <1>1, <2>1 DEF Remembered
<1>5. CASE BeginStart
  BY <1>1, <1>5 DEF BeginStart, local, Remembered
<1>6. CASE ArchiveBaseline
  BY <1>6 DEF ArchiveBaseline, Remembered
<1>7. CASE Running /\ ~BeginStart /\ ~ArchiveBaseline
  <2>1. UNCHANGED <<baseline, pre>> /\ pc # "idle"
    BY <1>7 DEF Running, CreateGate, CreateBegin, BeginConfigure, ReplaceConfig,
       OwnerStartsService, SendEffect, EffectAnswered, InstallRelease, StopEffect, StoreTerminal,
       FreeGate, ReadBack, disk, local
  <2> QED
    BY <1>1, <2>1 DEF Remembered
<1>8. CASE Around
  BY <1>1, <1>8, AroundKeeps DEF Remembered
<1> QED
  BY <1>2, <1>3, <1>4, <1>5, <1>6, <1>7, <1>8, StepKinds

(* What a step of the machine can do to an effect that waits.              *)
LEMMA ControllerRpc ==
  ASSUME Typed, ControllerStep \/ AdapterGone \/ Disturbance
  PROVE  /\ rpc'.op = rpc.op /\ rpc'.mode = rpc.mode /\ rpc'.before = rpc.before
         /\ TunPending' => TunPending
         /\ rpc = NoRpc => rpc' = NoRpc
         /\ rpc'.at = "consumed" => rpc.op \in used' \/ (rpc.at = "consumed" /\ used' = used)
<1> rpc \in RpcType
  BY DEF Typed, MachineTyped
<1>1. CASE AdapterGone \/ ChildExits \/ NetworkChanges
  BY <1>1 DEF AdapterGone, ChildExits, NetworkChanges, TunPending
<1>2. CASE ControllerStep \/ ControllerDies
  <2>1. \/ rpc' = rpc /\ rpc.at # "consumed"
        \/ \E at \in {"verified", "consumed", "starting", "launched", "ok", "failed"} :
          /\ rpc' = [rpc EXCEPT !.at = at]
          /\ at = "verified" => rpc.at = "sent"
          /\ at = "consumed" => rpc.at = "verified" /\ rpc.op \in used'
          /\ rpc.at \in {"sent", "verified", "consumed", "starting", "launched"}
    BY <1>2 DEF ControllerStep, ControllerDies, VerifyEffect, ConsumeEffect, LaunchChild,
       ObserveStartup, StartupObserved, StartupRejected, ConfirmChild, Answer, InFlight
  <2>2. NoRpc.at = "none"
    BY DEF NoRpc
  <2> QED
    BY <2>1, <2>2 DEF TunPending, RpcType
<1> QED
  BY <1>1, <1>2 DEF Disturbance

(* Without a call no TUN is pending.                                       *)
LEMMA NoRpcIsQuiet ==
  ASSUME rpc' = NoRpc PROVE ~TunPending'
  BY DEF TunPending, NoRpc

(* Every step keeps PendingRecorded.                                       *)
LEMMA PendingRecordedNext ==
  ASSUME Typed, SafeInv, [Next]_vars PROVE PendingRecorded'
<1> USE DEF Effecting, Settling
<1>1. PendingRecorded /\ begun \subseteq Ops /\ NoOp \notin Ops
  BY OpAssumption DEF SafeInv, Typed, DiskTyped
<1>2. TunPending => gate # NoIntent /\ baseline # NoBaseline
  BY <1>1 DEF PendingRecorded, NoIntent, Intent, NoBaseline
<1>3. CASE Leaving
  <2>1. CASE SafetyStop
    BY <2>1, NoRpcIsQuiet DEF SafetyStop, StopService, PendingRecorded
  <2>2. CASE ~SafetyStop
    <3>1. UNCHANGED <<rpc, used, gate, begun, baseline>> /\ op' = NoOp
      BY <1>3, <2>2 DEF Leaving, ConsumeRequest, Refuse, Dies, Leave, Return, machine, disk
    <3> QED
      BY <1>1, <3>1 DEF PendingRecorded, TunPending
  <2> QED
    BY <2>1, <2>2
<1>4. CASE Preflight
  <2>1. UNCHANGED <<rpc, used, gate, begun, baseline>> /\ op' \notin begun
    BY <1>4 DEF Preflight, RequestAvailable, Unused, machine, disk
  <2> QED
    BY <1>1, <2>1 DEF PendingRecorded, TunPending
<1>5. CASE Planning \/ StoreTerminal \/ BeginConfigure \/ InstallRelease \/ ReplaceConfig
           \/ \E r \in BOOLEAN : ReadBack(r)
  <2>1. UNCHANGED <<rpc, used, gate, begun, baseline, op>> /\ pc # "await"
    BY <1>5 DEF Planning, Authorize, CheckConfig, PlanEffect, Resolve, StoreTerminal,
       BeginConfigure, InstallRelease, ReplaceConfig, ReadBack, machine, disk, local
  <2> QED
    BY <1>1, <2>1 DEF PendingRecorded, TunPending
<1>6. CASE CreateGate \/ ArchiveBaseline
  <2>1. gate = NoIntent /\ rpc' = rpc
    BY <1>6 DEF CreateGate, ArchiveBaseline, SafeInv, Gated, machine
  <2> QED
    BY <1>2, <2>1 DEF PendingRecorded, TunPending
<1>7. CASE CreateBegin
  <2>1. UNCHANGED <<rpc, used, gate, baseline, op>> /\ pc # "await" /\ begun \subseteq begun'
    BY <1>7 DEF CreateBegin, machine, local
  <2> QED
    BY <1>1, <2>1 DEF PendingRecorded, TunPending
<1>8. CASE BeginStart
  <2>1. UNCHANGED <<rpc, used, gate, begun, op>> /\ pc # "await" /\ (baseline = NoBaseline \/ baseline' = baseline)
    BY <1>8 DEF BeginStart, machine, local
  <2> QED
    BY <1>1, <1>2, <2>1 DEF PendingRecorded, TunPending
<1>9. CASE OwnerStartsService \/ EffectAnswered \/ StopEffect
  BY <1>9, NoRpcIsQuiet DEF OwnerStartsService, EffectAnswered, StopEffect, StartService, StopService,
     PendingRecorded
<1>10. CASE SendEffect
  <2>1. /\ UNCHANGED <<gate, begun, baseline, op>> /\ pc = "send" /\ pc' = "await"
        /\ rpc' = [at |-> "sent", op |-> op, mode |-> src.mode, before |-> pre.net]
    BY <1>10 DEF SendEffect, disk, local
  <2>2. step = "Start" /\ src.run = "Running" /\ op \in begun /\ gate = Intent(op, src)
    BY <2>1 DEF SafeInv, Admitted, Gated, BeginsOnce, Planned
  <2>3. src.mode = "ManagedTun" => ActionOf[op] = "Start" /\ baseline = [op |-> op, net |-> pre.net]
    BY <2>1, <2>2 DEF SafeInv, Admitted, TunAdmitted, Action, Baselines
  <2>4. gate.op = op
    BY <2>2 DEF Intent
  <2> QED
    BY <2>1, <2>2, <2>3, <2>4 DEF PendingRecorded, TunPending
<1>11. CASE FreeGate
  <2>1. pc = "unlock" /\ rpc' = rpc
    BY <1>11 DEF FreeGate, machine
  <2>2. ~TunPending
    BY <1>1, <2>1 DEF PendingRecorded, SafeInv, Gated
  <2> QED
    BY <2>1, <2>2 DEF PendingRecorded, TunPending
<1>12. CASE Around
  <2>1. UNCHANGED <<gate, begun, baseline, op, pc>>
    BY <1>12, AroundKeeps
  <2>2. CASE MachineStep
    <3>1. TunPending' => TunPending
      BY <2>2, ControllerRpc DEF MachineStep
    <3>2. rpc'.op = rpc.op /\ rpc'.before = rpc.before
      BY <2>2, ControllerRpc DEF MachineStep
    <3> QED
      BY <1>1, <2>1, <2>2, <3>1, <3>2, ControllerRpc DEF MachineStep, PendingRecorded
  <2>3. CASE ~MachineStep
    BY <1>1, <1>12, <2>1, <2>3, AroundKeeps DEF PendingRecorded, TunPending
  <2> QED
    BY <2>2, <2>3
<1> QED
  BY <1>3, <1>4, <1>5, <1>6, <1>7, <1>8, <1>9, <1>10, <1>11, <1>12, StepKinds DEF Running

(* An adapter or a TUN child appears when the controller launches an       *)
(* effect it has consumed, and never otherwise.                            *)
LEMMA OnlyLaunchCaptures ==
  ASSUME Typed, SafeInv, [Next]_vars, (tun' /\ ~tun) \/ (child' = "tun" /\ child # "tun")
  PROVE  /\ TunPending /\ rpc.at = "consumed"
         /\ UNCHANGED <<baseline, begun, archived>>
<1> tun \in BOOLEAN
  BY DEF Typed, MachineTyped
<1>1. CASE MachineStep
  <2>1. UNCHANGED <<baseline, begun, archived>>
    BY <1>1 DEF MachineStep, disk
  <2>2. CASE LaunchChild
    <3>1. rpc.mode = "ManagedTun"
      BY <2>2 DEF LaunchChild, ChildOf
    <3> QED
      BY <2>1, <2>2, <3>1 DEF LaunchChild, TunPending
  <2>3. CASE ~LaunchChild
    <3>1. child' \in {child, "none", "orphan"}
      BY <1>1, <2>3 DEF MachineStep, ControllerStep, VerifyEffect, ConsumeEffect, ObserveStartup,
         StartupObserved, StartupRejected, ConfirmChild, AdapterGone, Disturbance, ChildExits,
         ControllerDies, Survivor, NetworkChanges
    <3>2. tun' = FALSE \/ tun' = tun
      BY <1>1, <2>3 DEF MachineStep, ControllerStep, VerifyEffect, ConsumeEffect, ObserveStartup,
         StartupObserved, StartupRejected, ConfirmChild, AdapterGone, Disturbance, ChildExits,
         ControllerDies, NetworkChanges
    <3> QED
      BY <3>1, <3>2
  <2> QED
    BY <2>2, <2>3
<1>2. CASE SafetyStop \/ StopEffect \/ OwnerStartsService
  BY <1>2 DEF SafetyStop, StopEffect, OwnerStartsService, StopService, StartService, Survivor
<1>3. CASE ~(MachineStep \/ SafetyStop \/ StopEffect \/ OwnerStartsService)
  <2>1. child' = child /\ tun' = tun
    <3>1. CASE Preflight \/ Planning
      BY <3>1 DEF Preflight, Planning, Authorize, CheckConfig, PlanEffect, Resolve, machine
    <3>2. CASE Running
      BY <1>3, <3>2 DEF Running, CreateGate, CreateBegin, BeginStart, BeginConfigure,
         ReplaceConfig, SendEffect, EffectAnswered, InstallRelease, StoreTerminal, FreeGate,
         ArchiveBaseline, ReadBack, machine
    <3>3. CASE Leaving
      BY <1>3, <3>3 DEF Leaving, ConsumeRequest, Refuse, Dies, Leave, machine
    <3>4. CASE Around
      BY <1>3, <3>4, AroundKeeps
    <3> QED
      BY <3>1, <3>2, <3>3, <3>4, StepKinds
  <2> QED
    BY <2>1
<1> QED
  BY <1>1, <1>2, <1>3

(* Every step keeps CaptureHasBaseline.                                    *)
LEMMA CapturedNext ==
  ASSUME Typed, SafeInv, [Next]_vars PROVE CaptureHasBaseline'
<1>1. ASSUME tun' PROVE baseline'.op \in begun' \ archived'
  <2>1. CASE tun
    <3>1. baseline.op \in begun \ archived
      BY <2>1 DEF SafeInv, CaptureHasBaseline
    <3>2. baseline # NoBaseline
      BY <3>1, OpAssumption DEF Typed, DiskTyped, NoBaseline
    <3>3. CASE ArchiveBaseline
      BY <2>1, <3>1, <3>3 DEF ArchiveBaseline, MayArchive, Restored, machine
    <3>4. CASE ~ArchiveBaseline
      <4>1. baseline' = baseline /\ begun \subseteq begun' /\ archived' = archived
        <5>1. CASE Preflight \/ Planning
          BY <5>1 DEF Preflight, Planning, Authorize, CheckConfig, PlanEffect, Resolve, disk
        <5>2. CASE Running
          BY <3>2, <3>4, <5>2 DEF Running, CreateGate, CreateBegin, BeginStart, BeginConfigure,
             ReplaceConfig, OwnerStartsService, SendEffect, EffectAnswered, InstallRelease,
             StopEffect, StoreTerminal, FreeGate, ReadBack, disk
        <5>3. CASE Leaving \/ Around
          BY <5>3, LeavingEnds, AroundKeeps
        <5> QED
          BY <5>1, <5>2, <5>3, StepKinds
      <4> QED
        BY <3>1, <4>1
    <3> QED
      BY <3>3, <3>4
  <2>2. CASE ~tun
    <3> TunPending /\ UNCHANGED <<baseline, begun, archived>>
      BY <1>1, <2>2, OnlyLaunchCaptures
    <3>1. baseline.op \in begun /\ baseline # NoBaseline
      BY <2>2, OpAssumption DEF SafeInv, PendingRecorded, NoBaseline, Typed, DiskTyped
    <3> QED
      BY <2>2, <3>1 DEF SafeInv, Baselines
  <2> QED
    BY <2>1, <2>2
<1> QED
  BY <1>1 DEF CaptureHasBaseline

(* Every step keeps Started.                                               *)
LEMMA StartedNext ==
  ASSUME Typed, SafeInv, [Next]_vars PROVE Started'
<1>1. Started /\ (pc \in {"start", "send", "await"} => step = "Start")
  BY DEF SafeInv, Admitted
<1>2. CASE Preflight \/ Planning \/ Leaving
  <2>1. pc' \notin {"start", "send", "await", "readback"}
    BY <1>2, LeavingEnds DEF Preflight, Planning, Authorize, CheckConfig, PlanEffect, Resolve
  <2> QED
    BY <2>1 DEF Started
<1>3. CASE \/ CreateGate \/ CreateBegin \/ BeginStart \/ BeginConfigure \/ StoreTerminal
           \/ FreeGate \/ ArchiveBaseline \/ \E r \in BOOLEAN : ReadBack(r)
  <2>1. pc' \notin {"start", "send", "await", "readback"}
    BY <1>3 DEF CreateGate, CreateBegin, BeginStart, BeginConfigure, StoreTerminal, FreeGate,
       ArchiveBaseline, ReadBack
  <2> QED
    BY <2>1 DEF Started
<1>4. CASE InstallRelease \/ StopEffect
  <2>1. pc' = "readback" /\ step' # "Start"
    BY <1>4 DEF InstallRelease, StopEffect
  <2> QED
    BY <2>1 DEF Started
<1>5. CASE ReplaceConfig
  BY <1>5 DEF ReplaceConfig, Offline, Started
<1>6. CASE OwnerStartsService
  BY <1>1, <1>6 DEF OwnerStartsService, StartService, local, Started
<1>7. CASE SendEffect
  BY <1>1, <1>7 DEF SendEffect, local, Started
<1>8. CASE EffectAnswered
  BY <1>1, <1>8 DEF EffectAnswered, Started
<1>9. CASE Around
  <2>1. UNCHANGED <<pc, src, step>>
    BY <1>9, AroundKeeps
  <2>2. CASE ~MachineStep
    BY <1>1, <1>9, <2>1, <2>2, AroundKeeps DEF Started
  <2>3. CASE MachineStep
    <3>1. /\ rpc'.mode = rpc.mode /\ (rpc = NoRpc => rpc' = NoRpc)
          /\ config' = config
      BY <2>3, ControllerRpc DEF MachineStep, ControllerStep, VerifyEffect, ConsumeEffect,
         LaunchChild, ObserveStartup, ConfirmChild, AdapterGone, Disturbance, ChildExits, ControllerDies, NetworkChanges
    <3>2. \/ child' \in {child, "none"} /\ svc' \in {svc, "stopped"}
          \/ svc = "running" /\ child = "proxy" /\ child' = "orphan"
          \/ svc = "running" /\ rpc.at = "consumed" /\ child' = ChildOf(rpc.mode)
      BY <2>3 DEF MachineStep, ControllerStep, VerifyEffect, ConsumeEffect, LaunchChild,
         ObserveStartup, StartupObserved, StartupRejected, ConfirmChild, AdapterGone, Disturbance,
         ChildExits, ControllerDies, Survivor, NetworkChanges, ChildOf
    <3>3. NoRpc.at = "none"
      BY DEF NoRpc
    <3>4. pc = "start" => svc' = "stopped" /\ child' = "none"
      BY <1>1, <3>2 DEF Started
    <3>5. pc = "send" => child' = "none" /\ rpc' = NoRpc
      BY <1>1, <3>1, <3>2, <3>3 DEF Started
    <3>6. pc \in {"await", "readback"} /\ step = "Start" =>
            child' \in {"none", "orphan", ChildOf(src.mode)}
      BY <1>1, <3>2, <3>3 DEF Started
    <3> QED
      BY <1>1, <2>1, <3>1, <3>4, <3>5, <3>6 DEF Started
  <2> QED
    BY <2>2, <2>3
<1> QED
  BY <1>2, <1>3, <1>4, <1>5, <1>6, <1>7, <1>8, <1>9, StepKinds DEF Running

(* The moments are noted: of the operation that holds the gate, ...        *)
LEMMA Noted ==
  ASSUME NoteReached
  PROVE  /\ reached \subseteq reached'
         /\ \A o \in begun' : o = gate'.op /\ ConvergedNow' => o \in reached'
  BY DEF NoteReached, ConvergedNow

(* ... and a START or STOP whose readback is accepted is at its target.    *)
LEMMA ReadBackIsTarget ==
  ASSUME Typed, SafeInv, NEW r \in BOOLEAN, ReadBack(r), Action \in {"Start", "Stop"}
  PROVE  ConvergedNow
<1> DEFINE obs == Observed(r)
<1>1. /\ pc = "readback" /\ gate = Intent(op, src) /\ obs.why = "none" /\ obs.owner = src.run
      /\ src.run = "Running" => obs.ready
      /\ IF LiveTun THEN Preserved(pre.net) ELSE NetworkCurrent(TRUE)
  BY DEF ReadBack, PoststateProven
<1>2. gate.op = op /\ gate.src = src
  BY <1>1 DEF Intent
<1>0. baseline # NoBaseline => net = baseline.net
  BY <1>1 DEF SafeInv, Remembered, Preserved, NetworkCurrent, Restored
<1>3. ActionFitsTarget /\ StepFits(step) /\ step # "Noop"
  BY <1>1 DEF SafeInv, Admitted, Planned, Effecting
<1>4. /\ obs.owner = IF svc = "running" THEN "Running" ELSE "Stopped"
      /\ obs.why = IF \/ svc = "running" /\ child \notin {"proxy", "tun"}
                      \/ tun /\ ~(svc = "running" /\ child \in {"proxy", "tun"} /\ config = "ManagedTun")
                   THEN "other" ELSE "none"
  BY DEF Observed
<1> HIDE DEF obs
<1>5. CASE Action = "Stop"
  <2>1. src.run = "Stopped" /\ svc = "stopped"
    BY <1>1, <1>3, <1>4, <1>5 DEF ActionFitsTarget, Typed, MachineTyped
  <2>2. ~tun
    BY <1>1, <1>4, <2>1
  <2> QED
    BY <1>0, <1>2, <1>5, <2>1, <2>2 DEF ConvergedNow, Action
<1>6. CASE Action = "Start"
  <2>1. src.run = "Running" /\ svc = "running" /\ step = "Start"
    BY <1>1, <1>3, <1>4, <1>6 DEF ActionFitsTarget, StepFits
  <2>2. config = src.mode /\ child \in {"proxy", "tun"} /\ child \in {"none", "orphan", ChildOf(src.mode)}
    BY <1>1, <1>4, <2>1 DEF SafeInv, Started
  <2>3. child = ChildOf(src.mode)
    BY <2>2
  <2>4. src.mode = "ManagedTun" => tun
    BY <1>1, <2>1 DEF LiveTun, Preserved
  <2>5. src.mode # "ManagedTun" => ~tun
    BY <1>1 DEF LiveTun, NetworkCurrent, Restored
  <2>6. tun = (src.mode = "ManagedTun")
    BY <2>4, <2>5 DEF Typed, MachineTyped
  <2> QED
    BY <1>0, <1>2, <1>6, <2>1, <2>2, <2>3, <2>6 DEF ConvergedNow, Action
<1> QED
  BY <1>5, <1>6

(* Every step keeps Truthful.                                              *)
LEMMA TruthfulNext ==
  ASSUME Typed, SafeInv, [Next]_vars PROVE Truthful'
<1> USE DEF Effecting, Settling
<1>1. Truthful /\ Gated /\ terminal \in [Ops -> SUBSET {"verified", "recovered", "observed"}]
  BY DEF SafeInv, Typed, DiskTyped
<1>2. ASSUME UNCHANGED terminal, reached \subseteq reached' PROVE VerifiedStartStopHappened'
  BY <1>1, <1>2 DEF Truthful, VerifiedStartStopHappened
<1>3. ASSUME UNCHANGED terminal, reached \subseteq reached',
             pc' \notin Effecting \cup {"store", "unlock", "archive"}
      PROVE  Truthful'
  BY <1>2, <1>3 DEF Truthful
<1>4. CASE Preflight \/ Leaving \/ Authorize \/ CheckConfig \/ CreateGate \/ ArchiveBaseline
           \/ \E r \in BOOLEAN : PlanEffect(r)
  <2>1. /\ UNCHANGED <<terminal, reached>>
        /\ pc' \notin Effecting \cup {"store", "unlock", "archive"}
    BY <1>4, LeavingEnds DEF Preflight, Authorize, CheckConfig, CreateGate, ArchiveBaseline,
       PlanEffect, disk, history
  <2> QED
    BY <1>3, <2>1
<1>5. ASSUME NEW r \in BOOLEAN, Resolve(r) PROVE Truthful'
  <2>1. /\ UNCHANGED <<terminal, reached>> /\ op' = op /\ subj' = gate.op /\ gate.op # op
        /\ ActionOf[gate.op] \in {"Apply", "Recover"}
        /\ pc' \in {"store", "unlock"}
        /\ pc' = "unlock" => "recovered" \in terminal[gate.op]
    BY <1>5 DEF Resolve, MayResolve, disk, history
  <2>2. TerminalName' = "recovered"
    BY <2>1 DEF TerminalName
  <2> QED
    BY <1>2, <2>1, <2>2 DEF Truthful
<1>6. CASE CreateBegin
  <2>1. /\ UNCHANGED <<terminal, gate, op, subj, step>> /\ NoteReached /\ op \in begun'
        /\ subj = op /\ gate = Intent(op, src)
        /\ pc' = (IF step = "Noop" THEN "store" ELSE "effect")
    BY <1>1, <1>6 DEF CreateBegin, local, Gated
  <2>2. gate.op = op /\ (step = "Noop" => TerminalName' = "observed")
    BY <2>1 DEF Intent, TerminalName
  <2>3. pc' = "effect" /\ ConvergedNow' => op' \in reached'
    BY <2>1, <2>2, Noted
  <2> QED
    BY <1>2, <2>1, <2>2, <2>3, Noted DEF Truthful
<1>7. CASE BeginStart \/ BeginConfigure \/ SendEffect \/ EffectAnswered
  <2>1. /\ UNCHANGED <<terminal, reached, gate, op, svc, child, tun, net, release, config>>
        /\ pc \in Effecting /\ pc' \in Effecting
        /\ baseline' = baseline \/ baseline = NoBaseline
    BY <1>7 DEF BeginStart, BeginConfigure, SendEffect, EffectAnswered, machine, disk, local, history
  <2>2. ConvergedNow' => ConvergedNow
    BY <2>1 DEF ConvergedNow
  <2> QED
    BY <1>1, <1>2, <2>1, <2>2 DEF Truthful
<1>8. CASE ReplaceConfig \/ OwnerStartsService \/ InstallRelease \/ StopEffect
  <2>1. /\ UNCHANGED <<terminal, gate, op, begun>> /\ NoteReached
        /\ pc \in Effecting /\ pc' \in Effecting
    BY <1>8 DEF ReplaceConfig, OwnerStartsService, InstallRelease, StopEffect, disk, local
  <2>2. gate.op = op /\ op \in begun
    BY <1>1, <2>1 DEF Gated, Intent, SafeInv, BeginsOnce
  <2>3. ConvergedNow' => op' \in reached'
    BY <2>1, <2>2, Noted
  <2> QED
    BY <1>2, <2>1, <2>3, Noted DEF Truthful
<1>9. ASSUME NEW r \in BOOLEAN, ReadBack(r) PROVE Truthful'
  <2>1. /\ UNCHANGED <<terminal, reached, subj>> /\ pc' = "store" /\ pc = "readback"
    BY <1>9 DEF ReadBack, disk, local, history
  <2>2. subj = op
    BY <1>1, <2>1 DEF Gated
  <2>3. ActionOf[op] \in {"Start", "Stop"} => op \in reached
    BY <1>1, <1>9, <2>1, ReadBackIsTarget DEF Truthful, Action
  <2> QED
    BY <1>2, <2>1, <2>2, <2>3 DEF Truthful
<1>10. CASE StoreTerminal
  <2>1. /\ UNCHANGED <<op, subj, step, reached>> /\ pc = "store" /\ pc' = "unlock"
        /\ terminal' = [terminal EXCEPT ![subj] = @ \cup {TerminalName}]
    BY <1>10 DEF StoreTerminal, local, history
  <2>2. subj \in Ops /\ TerminalName' = TerminalName
    BY <1>1, <2>1 DEF Gated, TerminalName
  <2>3. /\ terminal'[subj] = terminal[subj] \cup {TerminalName}
        /\ \A o \in Ops \ {subj} : terminal'[o] = terminal[o]
    BY <1>1, <2>1, <2>2
  <2>4. VerifiedStartStopHappened'
    BY <1>1, <2>1, <2>2, <2>3 DEF Truthful, VerifiedStartStopHappened
  <2> QED
    BY <2>1, <2>2, <2>3, <2>4 DEF Truthful
<1>11. CASE FreeGate
  <2>1. /\ UNCHANGED <<terminal, reached, op, step>> /\ pc = "unlock"
        /\ pc' \in {"archive", "publish", "gate"}
        /\ pc' = "archive" => subj = op /\ Retires
    BY <1>11 DEF FreeGate, history
  <2>2. pc' = "archive" => Action = "Stop" /\ "verified" \in terminal[op]
    <3> SUFFICES ASSUME pc' = "archive" PROVE Action = "Stop" /\ "verified" \in terminal[op]
      OBVIOUS
    <3>1. subj = op /\ TerminalName = "verified" /\ Action \in {"Stop", "Recover"}
      BY <2>1 DEF Retires
    <3>2. step # "Noop" /\ StepFits(step)
      BY <2>1, <3>1 DEF TerminalName, SafeInv, Admitted, Planned
    <3> QED
      BY <1>1, <2>1, <3>1, <3>2 DEF StepFits, Truthful
  <2> QED
    BY <1>2, <2>1, <2>2 DEF Truthful, Action
<1>12. CASE Around
  <2>1. UNCHANGED <<terminal, gate, begun, pc, op, subj, step>>
    BY <1>12, AroundKeeps
  <2>2. TerminalName' = TerminalName
    BY <2>1 DEF TerminalName
  <2>3. CASE MachineStep
    <3>1. NoteReached /\ reached \subseteq reached'
      BY <2>3, Noted DEF MachineStep
    <3>2. pc \in Effecting => gate.op = op /\ op \in begun
      BY <1>1 DEF Gated, Intent, SafeInv, BeginsOnce
    <3>3. pc' \in Effecting /\ ConvergedNow' => op' \in reached'
      BY <2>1, <3>1, <3>2, Noted
    <3> QED
      BY <1>1, <1>2, <2>1, <2>2, <3>1, <3>3 DEF Truthful, Action
  <2>4. CASE ~MachineStep
    <3>1. UNCHANGED <<svc, child, tun, net, release, config, baseline, reached>>
      BY <1>12, <2>4, AroundKeeps
    <3> QED
      BY <1>1, <1>2, <2>1, <2>2, <3>1 DEF Truthful, Action, ConvergedNow
  <2> QED
    BY <2>3, <2>4
<1> QED
  BY <1>4, <1>5, <1>6, <1>7, <1>8, <1>9, <1>10, <1>11, <1>12, StepKinds DEF Planning, Running

(* The inductive invariant holds.                                          *)
LEMMA WindowsSafe == Spec => [](Typed /\ SafeInv)
<1>1. Init => SafeInv
  <2> SUFFICES ASSUME Init PROVE SafeInv
    OBVIOUS
  <2>1. /\ pc = "idle" /\ child = "none" /\ rpc = NoRpc /\ begun = {} /\ archived = {}
        /\ tun = FALSE /\ baseline = NoBaseline /\ effects = [o \in Ops |-> 0]
        /\ terminal = [o \in Ops |-> {}]
    BY DEF Init, MachineInit
  <2>2. Admitted /\ Gated /\ Started
    BY <2>1 DEF Admitted, Gated, Started, Planned, Effecting, Settling
  <2>3. BeginsOnce /\ Baselines /\ Remembered /\ CaptureHasBaseline
    BY <2>1 DEF BeginsOnce, OneEffectPerOperation, Baselines, Remembered, CaptureHasBaseline,
       Effecting, Settling
  <2>4. PendingRecorded /\ Truthful
    BY <2>1 DEF PendingRecorded, TunPending, NoRpc, Truthful, VerifiedStartStopHappened, Effecting
  <2> QED
    BY <2>2, <2>3, <2>4 DEF SafeInv
<1>2. Typed /\ SafeInv /\ [Next]_vars => SafeInv'
  BY AdmittedNext, GatedNext, BeginsOnceNext, BaselinesNext, RememberedNext, PendingRecordedNext,
     CapturedNext, StartedNext, TruthfulNext DEF SafeInv
<1> QED
  BY <1>1, <1>2, WindowsTyped, PTL DEF Spec

(* begin_start_capture before the signed effect: our adapter is never in   *)
(* the kernel without the before-state of the foreign network on disk.     *)
THEOREM NoCaptureWithoutBaseline == Spec => []CaptureHasBaseline
<1>1. SafeInv => CaptureHasBaseline
  BY DEF SafeInv
<1> QED
  BY <1>1, WindowsSafe, PTL

(* An operation is consumed in one step of the controller, over the        *)
(* network the effect names.                                               *)
LEMMA OnlyConsumeUses ==
  ASSUME [Next]_vars, used' \ used # {} PROVE rpc.at = "verified" /\ Restored(rpc.before)
<1>1. CASE MachineStep
  BY <1>1 DEF MachineStep, ControllerStep, VerifyEffect, ConsumeEffect, MayConsume, LaunchChild,
     ObserveStartup, ConfirmChild, AdapterGone, Disturbance, ChildExits, ControllerDies,
     NetworkChanges
<1>2. CASE Preflight \/ Planning
  BY <1>2 DEF Preflight, Planning, Authorize, CheckConfig, PlanEffect, Resolve, machine
<1>3. CASE Running
  BY <1>3 DEF Running, CreateGate, CreateBegin, BeginStart, BeginConfigure, ReplaceConfig,
     OwnerStartsService, StartService, SendEffect, EffectAnswered, InstallRelease, StopEffect,
     StopService, StoreTerminal, FreeGate, ArchiveBaseline, ReadBack, machine
<1>4. CASE Leaving
  BY <1>4 DEF Leaving, SafetyStop, StopService, ConsumeRequest, Refuse, Dies, Leave, machine
<1>5. CASE Around /\ ~MachineStep
  BY <1>5 DEF Around, SubmitRequest, WithdrawRequest, GitAdvances, vars, machine
<1> QED
  BY <1>1, <1>2, <1>3, <1>4, <1>5, StepKinds

(* However late a signed effect reaches the controller, it is consumed     *)
(* over the network its own operation recorded, and only then launched.    *)
THEOREM CapturesAreDecided == Spec => CaptureDecidedOverRecordedNetwork
<1> DEFINE Consumes == used' \ used # {} /\ rpc.mode = "ManagedTun" /\ baseline # NoBaseline =>
                         rpc.op = baseline.op /\ Restored(baseline.net)
           Captures == child' = "tun" /\ child # "tun" =>
                         rpc.op \in used /\ baseline = [op |-> rpc.op, net |-> rpc.before]
<1>1. ASSUME Typed, SafeInv, [Next]_vars PROVE [Consumes /\ Captures]_vars
  <2>1. Captures
    BY <1>1, OnlyLaunchCaptures DEF SafeInv, PendingRecorded
  <2>2. ASSUME used' \ used # {}, rpc.mode = "ManagedTun"
        PROVE  rpc.op = baseline.op /\ Restored(baseline.net)
    <3>1. rpc.at = "verified" /\ Restored(rpc.before)
      BY <1>1, <2>2, OnlyConsumeUses
    <3>2. baseline = [op |-> rpc.op, net |-> rpc.before]
      BY <1>1, <2>2, <3>1 DEF SafeInv, PendingRecorded, TunPending
    <3> QED
      BY <3>1, <3>2
  <2> QED
    BY <2>1, <2>2
<1> QED
  BY <1>1, WindowsSafe, PTL DEF Spec, CaptureDecidedOverRecordedNetwork

(* archive_verified_network_baseline gives the before-state up only when   *)
(* it holds again and a STOP has its VERIFIED record.                      *)
THEOREM RetiredIsRestored == Spec => BaselineRetiredRestored
<1> DEFINE Done == baseline # NoBaseline /\ baseline' # baseline =>
                     /\ Restored(baseline.net)
                     /\ ActionOf[op] = "Stop" /\ "verified" \in terminal[op]
<1>1. ASSUME Typed, SafeInv, [Next]_vars PROVE [Done]_vars
  <2> SUFFICES ASSUME baseline # NoBaseline, baseline' # baseline
               PROVE  /\ Restored(baseline.net)
                      /\ ActionOf[op] = "Stop" /\ "verified" \in terminal[op]
    OBVIOUS
  <2>1. ArchiveBaseline
    <3>1. CASE Preflight \/ Planning
      BY <3>1 DEF Preflight, Planning, Authorize, CheckConfig, PlanEffect, Resolve, disk
    <3>2. CASE Running
      BY <3>2 DEF Running, CreateGate, CreateBegin, BeginStart, BeginConfigure, ReplaceConfig,
         OwnerStartsService, SendEffect, EffectAnswered, InstallRelease, StopEffect,
         StoreTerminal, FreeGate, ReadBack, disk
    <3>3. CASE Leaving \/ Around
      BY <3>3, LeavingEnds, AroundKeeps
    <3> QED
      BY <1>1, <3>1, <3>2, <3>3, StepKinds
  <2>2. Restored(baseline.net) /\ pc = "archive"
    BY <2>1 DEF ArchiveBaseline, MayArchive
  <2> QED
    BY <1>1, <2>2 DEF SafeInv, Truthful, Action
<1> QED
  BY <1>1, WindowsSafe, PTL DEF Spec, BaselineRetiredRestored

(* Every signed comment drives the Windows machine at most once: the BEGIN *)
(* record makes its operation ID single use.                               *)
THEOREM EffectsAtMostOnce == Spec => []OneEffectPerOperation
<1>1. SafeInv => OneEffectPerOperation
  BY DEF SafeInv, BeginsOnce
<1> QED
  BY <1>1, WindowsSafe, PTL

(* finish_after_protected_owner_check_once: a VERIFIED START or STOP means *)
(* that the machine was at its target after BEGIN.                         *)
THEOREM VerifiedStartStopIsTrue == Spec => []VerifiedStartStopHappened
<1>1. SafeInv => VerifiedStartStopHappened
  BY DEF SafeInv, Truthful
<1> QED
  BY <1>1, WindowsSafe, PTL
=============================================================================
