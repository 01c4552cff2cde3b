---------------------------- MODULE WindowsOwner ----------------------------
(***************************************************************************)
(* The Windows SYSTEM owner: windows_signed_host.rs with the journal of    *)
(* host_journal.rs.  A scheduled task takes the one request of the         *)
(* exchange, checks it against Git and against the machine, obtains the    *)
(* Worker's authorization, passes the resource gate and BEGIN, runs the    *)
(* one native effect, reads it back, stores the terminal, frees the gate,  *)
(* retires the network baseline of a stopped TUN and publishes a receipt.  *)
(* The owner lock admits one such process; it may die between any two      *)
(* steps.  A journal file is written and synced in one step here; the torn *)
(* files are the subject of HostJournal.                                   *)
(***************************************************************************)
EXTENDS WindowsController, Naturals

CONSTANTS ActionOf,  \* [Ops -> Actions]: what each signed comment asks for
          Targets    \* the Git states: mode, run state and release

ASSUME TargetAssumption ==
  /\ Targets # {}
  /\ Targets \subseteq [mode : Datapaths, run : RunStates, release : Releases]
  /\ ActionOf \in [Ops -> Actions]

VARIABLES
  target,    \* the Git target now
  request,   \* exchange/requests/host-intent.pb
  gate,      \* resource-*.pending.pb: the intent it holds
  begun,     \* operations with a BEGIN record
  terminal,  \* terminal records of each operation; "recovered" is a
             \* VERIFIED one that a later RECOVER wrote
  baseline,  \* network-baseline.active.pb: operation and network
  archived,  \* operations whose baseline is restored and archived
  checked,   \* operations with a config candidate file
  pc, op, src, pre, step, prior, subj,  \* the process
  effects, reached                      \* history

disk    == <<gate, begun, terminal, baseline, archived, checked>>
local   == <<op, src, pre, step, prior, subj>>
history == <<effects, reached>>
vars    == <<machine, target, request, disk, pc, local, history>>

Intent(o, s) == [op |-> o, src |-> s]
SomeTarget   == CHOOSE s \in Targets : TRUE
NoIntent     == Intent(NoOp, SomeTarget)
NoBaseline   == [op |-> NoOp, net |-> NoNet]
NoPreflight  == [net |-> NoNet, tun |-> FALSE, orig |-> NoOp]

Pcs == {"idle", "preflighted", "authorized", "checked", "gate", "begin",
        "effect", "configure", "start", "send", "await", "readback",
        "store", "unlock", "archive", "publish"}

Action == ActionOf[op]

Init ==
  /\ MachineInit
  /\ target \in Targets
  /\ request = NoIntent
  /\ gate = NoIntent /\ begun = {}
  /\ terminal = [o \in Ops |-> {}]
  /\ baseline = NoBaseline /\ archived = {} /\ checked = {}
  /\ pc = "idle" /\ op = NoOp /\ src = SomeTarget /\ pre = NoPreflight
  /\ step = "Blocked" /\ prior = NoRelease /\ subj = NoOp
  /\ effects = [o \in Ops |-> 0] /\ reached = {}

(* What a VERIFIED result says of the machine, for the intent that holds   *)
(* the gate.  A stopped machine is not asked for its sing-box process: the *)
(* readback of a stopped service does not look for one.                    *)
ConvergedNow ==
  /\ IF gate.src.run = "Stopped"
     THEN svc = "stopped" /\ ~tun
     ELSE /\ svc = "running" /\ child = ChildOf(gate.src.mode)
          /\ config = gate.src.mode /\ tun = (gate.src.mode = "ManagedTun")
  /\ ActionOf[gate.op] = "Apply" => release = gate.src.release
  /\ baseline # NoBaseline => net = baseline.net

(* History: the gated operation whose target state holds after the step.   *)
NoteReached ==
  reached' = reached \cup {o \in begun' \cap {gate'.op} : ConvergedNow'}

Return ==
  /\ pc' = "idle" /\ op' = NoOp /\ src' = SomeTarget /\ pre' = NoPreflight
  /\ step' = "Blocked" /\ prior' = NoRelease /\ subj' = NoOp
-----------------------------------------------------------------------------
(***************************************************************************)
(* The runner drops one intent for the Git state it saw; it never replaces *)
(* an uncertain one.  An operator may take a dead request away.            *)
(***************************************************************************)
SubmitRequest(o) ==
  /\ request = NoIntent
  /\ request' = Intent(o, target)
  /\ UNCHANGED <<machine, target, disk, pc, local, history>>

WithdrawRequest ==
  /\ request # NoIntent /\ pc = "idle"
  /\ request' = NoIntent
  /\ UNCHANGED <<machine, target, disk, pc, local, history>>

GitAdvances ==
  /\ target' \in Targets \ {target}
  /\ UNCHANGED <<machine, request, disk, pc, local, history>>

(* Broken on purpose: an operation is looked for by its gate only.         *)
UnusedByGate(o) == gate.op # o

(* Every operation ID is single use. *)
Unused(o) == o \notin begun /\ terminal[o] = {}

(* request_available: only RECOVER passes a pending gate.                  *)
RequestAvailable(o) ==
  /\ Unused(o)
  /\ gate # NoIntent => ActionOf[o] = "Recover"

OwnerState == Observed(TRUE).owner

(* preflight_existing_windows_route_capture: an active baseline admits     *)
(* only the OFF target, as a STOP of the exact running TUN or a RECOVER    *)
(* that finds the network restored; without one no TUN may be running.     *)
NetworkPreflight(a, s) ==
  IF baseline # NoBaseline
  THEN /\ s.mode = "ProxyOnly" /\ s.run = "Stopped"
       /\ \/ a = "Recover" /\ OwnerState = "Stopped" /\ Restored(baseline.net)
          \/ a = "Stop" /\ OwnerState = "Running" /\ config = "ManagedTun" /\ tun
  ELSE ~tun /\ (OwnerState # "Stopped" => config # "ManagedTun")

(* validate_windows_datapath_prebegin_with_admission: a ManagedTun target  *)
(* is staged on a stopped owner, or started from one.                      *)
DatapathAdmitted(a, s) ==
  s.mode = "ManagedTun" =>
    /\ OwnerState = "Stopped"
    /\ \/ a \in {"Stop", "Apply"} /\ s.run = "Stopped"
       \/ a = "Start" /\ s.run = "Running"

NeedsUpdate(a, s) == a = "Apply" /\ s.release # release
TunStart == Action = "Start" /\ src.mode = "ManagedTun"

(* The config an operation carries: none for STOP and for an update.       *)
Configured == Action # "Stop" /\ ~(Action = "Apply" /\ prior # src.release)

(* dispatch_if_present up to the Worker call.  prior keeps the installed   *)
(* release the authority was bound to.                                     *)
Preflight ==
  LET a == ActionOf[request.op] IN
  /\ pc = "idle" /\ request # NoIntent
  /\ RequestAvailable(request.op)
  /\ request.src = target
  /\ NetworkPreflight(a, target)
  /\ DatapathAdmitted(a, target)
  /\ NeedsUpdate(a, target) => Offline
  /\ pc' = "preflighted"
  /\ op' = request.op /\ src' = target /\ prior' = release
  /\ pre' = IF baseline # NoBaseline
            THEN [net |-> baseline.net, tun |-> a = "Stop", orig |-> baseline.op]
            ELSE [net |-> net, tun |-> FALSE, orig |-> NoOp]
  /\ UNCHANGED <<machine, target, request, disk, step, subj,
                 effects, reached>>

(* The pre-TUN probes and the one POST to the Worker.                      *)
Authorize ==
  /\ pc = "preflighted"
  /\ TunStart => Restored(pre.net)
  /\ pc' = "authorized"
  /\ UNCHANGED <<machine, target, request, disk, local, history>>

(* windows_config::validate creates its candidate once per operation; a    *)
(* TUN start then looks at the network once more before BEGIN.             *)
CheckConfig ==
  /\ pc = "authorized"
  /\ IF Configured /\ Action \in {"Apply", "Start"}
     THEN op \notin checked /\ checked' = checked \cup {op}
     ELSE UNCHANGED checked
  /\ TunStart => Restored(pre.net)
  /\ pc' = "checked"
  /\ UNCHANGED <<machine, target, request, gate, begun, terminal, baseline,
                 archived, local, history>>

(* WindowsNetworkPreflight::require_current *)
NetworkCurrent(effectDone) ==
  IF pre.tun /\ ~effectDone THEN Preserved(pre.net) ELSE Restored(pre.net)

-----------------------------------------------------------------------------
(***************************************************************************)
(* execute_after_protected_owner_check_once with a WindowsExecutionBinding *)
(* on a free gate: readback, plan, capability check.                       *)
(***************************************************************************)
ActionFitsTarget ==
  /\ Action = "Start" => src.run = "Running"
  /\ Action = "Stop" => src.run = "Stopped"

PlannerHost == [kind |-> "Windows", run |-> src.run, mode |-> src.mode]

(* The digest the plan expects: only an APPLY asks for the new release.    *)
ExpectedRelease == IF Action = "Apply" THEN src.release ELSE prior

PlanFor(obs) ==
  LET plan == ProposeSignedHostTransition(PlannerHost, obs, Action, ExpectedRelease) IN
  IF Action = "Apply" /\ plan.step = "Noop" /\ Configured /\ config # src.mode
  THEN IF obs.owner = "Stopped" THEN Plan("Configure", "StoppedConfigurationDrift")
       ELSE Block("NativeStateUnproven")
  ELSE plan

StepFits(s) ==
  /\ s # "Blocked"
  /\ Action = "Start" => s \in {"Start", "Noop"}
  /\ Action = "Stop" => s \in {"Stop", "Noop"}
  /\ Action = "Recover" => s = "Noop"

(* allow_step: what this owner can carry out, before BEGIN.                *)
StepAllowed(s) ==
  \/ s \in {"Noop", "Stop"}
  \/ s = "Start" /\ Configured /\ Offline
  \/ s = "ReplaceRelease" /\ NeedsUpdate(Action, src) /\ Offline
  \/ s = "Configure" /\ Configured /\ Offline

PlanEffect(r) ==
  LET plan == PlanFor(Observed(r)) IN
  /\ pc = "checked"
  /\ gate = NoIntent /\ Unused(op)
  /\ ActionFitsTarget
  /\ NetworkCurrent(FALSE)
  /\ release = prior
  /\ StepFits(plan.step) /\ StepAllowed(plan.step)
  /\ step' = plan.step /\ subj' = op
  /\ pc' = "gate"
  /\ UNCHANGED <<machine, target, request, disk, op, src, pre, prior, history>>

(* resolve_pending_native_recovery_once for a Windows host: bound to the   *)
(* installed release, so a release mismatch is never seen.                 *)
ReadOnlyConverged(obs) ==
  /\ obs.why = "none"
  /\ obs.owner = src.run
  /\ src.run = "Running" => obs.ready

MayResolve(r) ==
  /\ Action = "Recover" /\ Unused(op)
  /\ NetworkCurrent(FALSE)
  /\ config = src.mode
  /\ gate.op # op
  /\ ActionOf[gate.op] \in {"Apply", "Recover"}
  /\ gate.op \in begun
  /\ gate.src = src
  /\ ReadOnlyConverged(Observed(r))

(* A record RECOVER would have written itself lets it go on to the gate;   *)
(* one the operation left has another reason: TERMINAL_MISMATCH.           *)
Resolve(r) ==
  /\ pc = "checked"
  /\ gate # NoIntent
  /\ MayResolve(r)
  /\ subj' = gate.op /\ step' = "Noop"
  /\ "verified" \notin terminal[gate.op]
  /\ pc' = IF "recovered" \in terminal[gate.op] THEN "unlock" ELSE "store"
  /\ UNCHANGED <<machine, target, request, disk, op, src, pre, prior,
                 history>>

(* admit_after_protected_owner_check_once: the gate, then BEGIN.           *)
CreateGate ==
  /\ pc = "gate" /\ gate = NoIntent
  /\ gate' = Intent(op, src)
  /\ pc' = "begin"
  /\ UNCHANGED <<machine, target, request, begun, terminal, baseline, archived,
                 checked, local, history>>

CreateBegin ==
  /\ pc = "begin"
  /\ begun' = begun \cup {op}
  /\ pc' = IF step = "Noop" THEN "store" ELSE "effect"
  /\ UNCHANGED <<machine, target, request, gate, terminal, baseline, archived,
                 checked, local, effects>>
  /\ NoteReached
-----------------------------------------------------------------------------
(***************************************************************************)
(* apply_once.  START of a TUN records the network before anything can     *)
(* capture it; then the configuration, the service and the signed effect.  *)
(***************************************************************************)
CountEffect == effects' = [effects EXCEPT ![op] = IF @ = 2 THEN 2 ELSE @ + 1]

(* Broken on purpose: the baseline is left for later.                      *)
BeginStartNoBaseline ==
  /\ pc = "effect" /\ step = "Start"
  /\ CountEffect
  /\ pc' = "configure"
  /\ UNCHANGED <<machine, target, request, disk, local, reached>>

BeginStart ==
  /\ pc = "effect" /\ step = "Start"
  /\ IF src.mode = "ManagedTun"
     THEN /\ ~tun /\ baseline = NoBaseline
          /\ baseline' = [op |-> op, net |-> pre.net]
     ELSE UNCHANGED baseline
  /\ CountEffect
  /\ pc' = "configure"
  /\ UNCHANGED <<machine, target, request, gate, begun, terminal, archived,
                 checked, local, reached>>

BeginConfigure ==
  /\ pc = "effect" /\ step = "Configure"
  /\ CountEffect
  /\ pc' = "configure"
  /\ UNCHANGED <<machine, target, request, disk, local, reached>>

(* Broken on purpose: the file is written in place and may be torn.        *)
ReplaceConfigTorn ==
  /\ pc = "configure" /\ Offline
  /\ config' \in {src.mode, "torn"}
  /\ pc' = IF step = "Start" THEN "start" ELSE "readback"
  /\ UNCHANGED <<svc, child, tun, net, release, rpc, used, target, request, disk,
                 local, effects>>
  /\ NoteReached

(* windows_config::apply: the file is replaced in one rename.              *)
ReplaceConfig ==
  /\ pc = "configure" /\ Offline
  /\ config' = src.mode
  /\ pc' = IF step = "Start" THEN "start" ELSE "readback"
  /\ UNCHANGED <<svc, child, tun, net, release, rpc, used, target, request, disk, op, src, pre, step, prior, subj, effects>>
  /\ NoteReached

OwnerStartsService ==
  /\ pc = "start"
  /\ StartService
  /\ pc' = "send"
  /\ UNCHANGED <<target, request, disk, local, effects>>
  /\ NoteReached

SendEffect ==
  /\ pc = "send" /\ svc = "running"
  /\ rpc' = [at |-> "sent", op |-> op, mode |-> src.mode, before |-> pre.net]
  /\ pc' = "await"
  /\ UNCHANGED <<svc, child, tun, net, config, release, used, target, request,
                 disk, local, history>>

EffectAnswered ==
  /\ pc = "await" /\ rpc.at = "ok"
  /\ rpc' = NoRpc
  /\ pc' = "readback"
  /\ UNCHANGED <<svc, child, tun, net, config, release, used, target, request,
                 disk, op, src, pre, step, prior, subj, history>>

(* windows_update::apply: the installer switches the activation record.    *)
InstallRelease ==
  /\ pc = "effect" /\ step = "ReplaceRelease" /\ Offline
  /\ CountEffect
  /\ release' = src.release
  /\ pc' = "readback"
  /\ UNCHANGED <<svc, child, tun, net, config, rpc, used, target, request, disk, op, src, pre, step, prior, subj>>
  /\ NoteReached

(* The exact TUN is looked at again right before its service is stopped.   *)
StopEffect ==
  /\ pc = "effect" /\ step = "Stop"
  /\ pre.tun => NetworkCurrent(FALSE)
  /\ StopService
  /\ CountEffect
  /\ pc' = "readback"
  /\ UNCHANGED <<target, request, disk, op, src, pre, step, prior, subj>>
  /\ NoteReached

(***************************************************************************)
(* finish_after_protected_owner_check_once: what the readback must show.   *)
(***************************************************************************)
LiveTun == src.mode = "ManagedTun" /\ svc = "running"

(* Broken on purpose: the run state alone is read back.                    *)
PoststateProvenRunOnly(obs) == obs.owner = src.run

PoststateProven(obs) ==
  /\ IF LiveTun THEN Preserved(pre.net) ELSE NetworkCurrent(TRUE)
  /\ Action = "Apply" /\ Configured => config = src.mode
  /\ obs.why = "none"
  /\ obs.release = IF step = "Stop" THEN prior ELSE ExpectedRelease
  /\ obs.owner = src.run
  /\ src.run = "Running" => obs.ready

ReadBack(r) ==
  /\ pc = "readback"
  /\ gate = Intent(op, src) /\ op \in begun
  /\ PoststateProven(Observed(r))
  /\ pc' = "store"
  /\ UNCHANGED <<machine, target, request, disk, local, history>>

(* A live TUN whose control path cannot be proved is stopped at once; the  *)
(* operation stays unresolved.                                             *)
SafetyStop ==
  /\ pc = "readback" /\ LiveTun /\ Preserved(pre.net)
  /\ StopService
  /\ Return
  /\ UNCHANGED <<target, request, disk, effects, reached>>

(***************************************************************************)
(* store_native_terminal_and_unlock_once, for the operation itself or for  *)
(* the one RECOVER settles; then what follows the gate's release.          *)
(***************************************************************************)
TerminalName ==
  IF subj # op THEN "recovered" ELSE IF step = "Noop" THEN "observed" ELSE "verified"

StoreTerminal ==
  /\ pc = "store" /\ gate.op = subj /\ TerminalName \notin terminal[subj]
  /\ terminal' = [terminal EXCEPT ![subj] = @ \cup {TerminalName}]
  /\ pc' = "unlock"
  /\ UNCHANGED <<machine, target, request, gate, begun, baseline, archived,
                 checked, local, history>>

Retires == Action \in {"Stop", "Recover"} /\ TerminalName = "verified" /\ pre.orig # NoOp

FreeGate ==
  /\ pc = "unlock"
  /\ gate' = NoIntent
  /\ IF subj = op
     THEN pc' = (IF Retires THEN "archive" ELSE "publish") /\ UNCHANGED subj
     ELSE pc' = "gate" /\ subj' = op
  /\ UNCHANGED <<machine, target, request, begun, terminal, baseline, archived,
                 checked, op, src, pre, step, prior, history>>

(* Broken on purpose: the STOP's own readback is taken for the network.    *)
MayArchiveUnread == baseline.op = pre.orig /\ pre.orig \notin archived

(* archive_verified_network_baseline reads the network once more.          *)
MayArchive ==
  /\ baseline.op = pre.orig
  /\ Restored(baseline.net)
  /\ pre.orig \notin archived

ArchiveBaseline ==
  /\ pc = "archive" /\ MayArchive
  /\ archived' = archived \cup {baseline.op}
  /\ baseline' = NoBaseline
  /\ pc' = "publish"
  /\ UNCHANGED <<machine, target, request, gate, begun, terminal, checked, local, history>>

(* The receipt is published, then the request is taken off the exchange.   *)
ConsumeRequest ==
  /\ pc = "publish"
  /\ request' = NoIntent
  /\ Return
  /\ UNCHANGED <<machine, target, disk, history>>

(***************************************************************************)
(* A check refuses, a native call fails or times out, or the process dies: *)
(* every journal record stays, and the request too.                        *)
(***************************************************************************)
Leave ==
  /\ Return
  /\ UNCHANGED <<machine, target, request, disk, effects, reached>>

EffectRefused ==
  \/ pc = "effect" /\ step = "Start" /\ src.mode = "ManagedTun"
     /\ (tun \/ baseline # NoBaseline)
  \/ pc = "effect" /\ step = "Stop" /\ pre.tun /\ ~NetworkCurrent(FALSE)
  \/ pc = "effect" /\ step = "ReplaceRelease" /\ ~Offline
  \/ pc = "configure" /\ ~Offline
  \/ pc = "readback" /\ ~PoststateProven(Observed(TRUE))

Refuse ==
  /\ \/ pc \in {"preflighted", "authorized", "checked"}
     \/ EffectRefused
     \/ pc = "archive" /\ ~MayArchive
  /\ Leave

Dies == pc # "idle" /\ Leave

OwnerStep ==
  \/ Preflight \/ Authorize \/ CheckConfig
  \/ \E r \in BOOLEAN : PlanEffect(r) \/ Resolve(r) \/ ReadBack(r)
  \/ CreateGate \/ CreateBegin
  \/ BeginStart \/ BeginConfigure \/ ReplaceConfig \/ OwnerStartsService
  \/ SendEffect \/ EffectAnswered \/ InstallRelease \/ StopEffect \/ SafetyStop
  \/ StoreTerminal \/ FreeGate \/ ArchiveBaseline \/ ConsumeRequest
  \/ Refuse \/ Dies

MachineStep ==
  /\ ControllerStep \/ AdapterGone \/ Disturbance
  /\ UNCHANGED <<target, request, disk, pc, local, effects>>
  /\ NoteReached

Next ==
  \/ \E o \in Ops : SubmitRequest(o)
  \/ WithdrawRequest \/ GitAdvances
  \/ OwnerStep
  \/ MachineStep

Spec == Init /\ [][Next]_vars
-----------------------------------------------------------------------------
(* Records, labels and locals stay in their types.                         *)
TypeOK ==
  /\ svc \in {"stopped", "running"}
  /\ child \in {"none", "proxy", "tun", "orphan"}
  /\ tun \in BOOLEAN /\ net \in Nets /\ release \in Releases
  /\ config \in Datapaths \cup {"absent"}
  /\ rpc \in [at : {"none", "sent", "verified", "consumed", "starting", "launched",
                    "ok", "failed"},
              op : Ops \cup {NoOp}, mode : Datapaths, before : Nets \cup {NoNet}]
  /\ used \subseteq Ops
  /\ target \in Targets
  /\ {request, gate} \subseteq [op : Ops \cup {NoOp}, src : Targets]
  /\ begun \subseteq Ops /\ archived \subseteq Ops
  /\ checked \subseteq Ops
  /\ terminal \in [Ops -> SUBSET {"verified", "recovered", "observed"}]
  /\ baseline \in [op : Ops \cup {NoOp}, net : Nets \cup {NoNet}]
  /\ pc \in Pcs /\ op \in Ops \cup {NoOp} /\ subj \in Ops \cup {NoOp}
  /\ src \in Targets /\ prior \in Releases \cup {NoRelease}
  /\ pre \in [net : Nets \cup {NoNet}, tun : BOOLEAN, orig : Ops \cup {NoOp}]
  /\ step \in Steps
  /\ effects \in [Ops -> 0..2] /\ reached \subseteq Ops

(* No route is ever captured without the before-state of the foreign       *)
(* network on disk: while our adapter is in the kernel, with its child or  *)
(* without, the active baseline is that of an operation that has begun and *)
(* whose baseline is not archived.                                         *)
CaptureHasBaseline ==
  tun => baseline.op \in begun \ archived

(* The controller decides to capture only over the recorded network: it    *)
(* consumes a TUN effect, however late, only while the machine shows the   *)
(* network of the active baseline, which is the effect's own, and a child  *)
(* captures only for a consumed effect that names this baseline.  Between  *)
(* the two the network may still change: no code compares it with the      *)
(* effect again before the child is there.                                 *)
CaptureDecidedOverRecordedNetwork ==
  [][/\ used' \ used # {} /\ rpc.mode = "ManagedTun" /\ baseline # NoBaseline =>
          rpc.op = baseline.op /\ Restored(baseline.net)
     /\ child' = "tun" /\ child # "tun" =>
          rpc.op \in used /\ baseline = [op |-> rpc.op, net |-> rpc.before]]_vars

(* The before-state is given up only when the machine shows it restored    *)
(* and the STOP that restored it has its terminal record.                  *)
BaselineRetiredRestored ==
  [][baseline # NoBaseline /\ baseline' # baseline =>
       /\ Restored(baseline.net)
       /\ ActionOf[op] = "Stop" /\ "verified" \in terminal[op]]_vars

(* One signed comment drives the machine at most once, whatever dies and   *)
(* however often the task finds its request again.                         *)
OneEffectPerOperation == \A o \in Ops : effects[o] <= 1

(* A VERIFIED start or stop tells the truth: since its BEGIN there was a   *)
(* moment when, over the recorded network, the controller ran the exact    *)
(* child its target asks for, or its service was stopped and the adapter   *)
(* gone.  It does not say that a stopped controller left no process.       *)
VerifiedStartStopHappened ==
  \A o \in Ops : "verified" \in terminal[o] /\ ActionOf[o] \in {"Start", "Stop"}
                  => o \in reached

(* The same for every VERIFIED operation, as resolve_pending promises for  *)
(* the ones it settles: another release is never the original's success.   *)
VerifiedHappened ==
  \A o \in Ops : terminal[o] \cap {"verified", "recovered"} # {} => o \in reached
=============================================================================
