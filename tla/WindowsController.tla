-------------------------- MODULE WindowsController --------------------------
(***************************************************************************)
(* The Windows side the SYSTEM owner acts on: the SCM service of           *)
(* edge-controller, the sing-box child it launches from one signed effect  *)
(* (windows_native_runtime.rs, edge-local-runtime) and the kernel network  *)
(* both observe (windows_native_network.rs).                               *)
(*                                                                         *)
(* The routes, addresses, DNS and Cloudflare One adapter that are not ours *)
(* are one value of Nets; tun says whether our adapter is in the kernel,   *)
(* which may outlive the child that created it.  A configuration file is   *)
(* named by the datapath mode it was rendered for.                         *)
(***************************************************************************)
EXTENDS HostPlanner

CONSTANTS Ops,    \* operation IDs, one per signed comment
          NoOp,
          Nets,   \* foreign network identities
          NoNet

ASSUME OpAssumption == NoOp \notin Ops /\ NoNet \notin Nets

VARIABLES
  svc,      \* SCM state of the controller service
  child,    \* its sing-box process; "orphan" has lost its controller
  tun,      \* the managed TUN adapter is present
  net,      \* the foreign network as the kernel reports it
  config,   \* the runtime configuration on disk
  release,  \* the release of the activation record current.pb
  rpc,      \* the signed runtime effect in flight
  used      \* operation IDs this controller process has consumed

machine == <<svc, child, tun, net, config, release, rpc, used>>

Datapaths == {"ProxyOnly", "ManagedTun"}
ChildOf(mode) == IF mode = "ManagedTun" THEN "tun" ELSE "proxy"

NoRpc == [at |-> "none", op |-> NoOp, mode |-> "ProxyOnly", before |-> NoNet]
InFlight == rpc.at \in {"sent", "verified", "consumed", "starting", "launched"}

(* observe_native_network_identity fails while our adapter is present;     *)
(* observe_native_managed_tun needs it.                                    *)
Restored(before)  == ~tun /\ net = before
Preserved(before) == tun /\ net = before

(* system_native_observation: the readback of host-observe, with the SCM   *)
(* child ownership and the answer r of the readiness probe.                *)
Observed(r) ==
  LET running  == svc = "running"
      owned    == running /\ child \in {"proxy", "tun"}
      ownedTun == owned /\ config = "ManagedTun"
  IN [kind |-> "Windows",
      owner |-> IF running THEN "Running" ELSE "Stopped",
      proof |-> "ActivationRecord", release |-> release,
      readyProven |-> owned /\ r, ready |-> owned /\ r,
      why |-> IF (running /\ ~owned) \/ (tun /\ ~ownedTun)
              THEN "other" ELSE "none",
      fresh |-> TRUE]

(* require_offline_windows_owner *)
Offline == svc = "stopped" /\ child = "none" /\ ~tun

MachineInit ==
  /\ svc = "stopped" /\ child = "none" /\ tun = FALSE
  /\ net \in Nets
  /\ config = "absent"
  /\ release \in Releases
  /\ rpc = NoRpc
  /\ used = {}
-----------------------------------------------------------------------------
(***************************************************************************)
(* execute: the controller checks the effect against its own view of the   *)
(* network and of the file.  Under the owner gate it checks the network    *)
(* again and consumes the operation; then it looks for another child,      *)
(* launches its own, observes the startup and reads the poststate.  What   *)
(* the launch observes of the network is not compared with the effect.     *)
(***************************************************************************)
Answer(at) == rpc' = [rpc EXCEPT !.at = at]

VerifyEffect ==
  /\ rpc.at = "sent" /\ svc = "running"
  /\ Answer(IF Restored(rpc.before) /\ config = rpc.mode
            THEN "verified" ELSE "failed")
  /\ UNCHANGED <<svc, child, tun, net, config, release, used>>

(* Broken on purpose: the network is not looked at again.                  *)
MayConsumeUnchecked == rpc.op \notin used

(* The network just before start, and the replay set.                      *)
MayConsume == Restored(rpc.before) /\ rpc.op \notin used

ConsumeEffect ==
  /\ rpc.at = "verified" /\ svc = "running"
  /\ IF MayConsume THEN Answer("consumed") /\ used' = used \cup {rpc.op}
                   ELSE Answer("failed") /\ UNCHANGED used
  /\ UNCHANGED <<svc, child, tun, net, config, release>>

(* No other child, the file of the mode and, for a TUN, no stale adapter.  *)
MayLaunch ==
  /\ child = "none" /\ config = rpc.mode
  /\ rpc.mode = "ManagedTun" => ~tun

LaunchChild ==
  /\ rpc.at = "consumed" /\ svc = "running"
  /\ \/ /\ MayLaunch
        /\ child' = ChildOf(rpc.mode)
        /\ tun' = (tun \/ rpc.mode = "ManagedTun")
        /\ Answer("starting")
     \/ Answer("failed") /\ UNCHANGED <<child, tun>>
  /\ UNCHANGED <<svc, net, config, release, used>>

(* A rejected TUN child is killed, but its adapter may stay; a proxy whose *)
(* startup is not observed is left as it is.                               *)
StartupRejected ==
  /\ IF rpc.mode = "ManagedTun" THEN child' = "none" /\ tun' \in {FALSE, tun}
                                ELSE UNCHANGED <<child, tun>>
  /\ Answer("failed")

StartupObserved ==
  /\ child = ChildOf(rpc.mode)
  /\ rpc.mode = "ManagedTun" => tun
  /\ Answer("launched")
  /\ UNCHANGED <<child, tun>>

ObserveStartup ==
  /\ rpc.at = "starting" /\ svc = "running"
  /\ StartupObserved \/ StartupRejected
  /\ UNCHANGED <<svc, net, config, release, used>>

ChildPoststate(mode, before) ==
  IF mode = "ManagedTun" THEN Preserved(before) ELSE Restored(before)

ConfirmChild ==
  /\ rpc.at = "launched" /\ svc = "running"
  /\ Answer(IF ChildPoststate(rpc.mode, rpc.before) THEN "ok" ELSE "failed")
  /\ UNCHANGED <<svc, child, tun, net, config, release, used>>

(***************************************************************************)
(* SCM start and stop.  A start launches nothing: the service waits for a  *)
(* signed effect.  A stop drains the call in flight, then ends the one     *)
(* process of our configuration; SERVICE_STOPPED is reported also when     *)
(* that cleanup failed and the process is still there.  The adapter may be *)
(* seen a while longer.                                                    *)
(***************************************************************************)
StartService ==
  /\ svc' = "running"
  /\ rpc' = NoRpc /\ used' = {}
  /\ UNCHANGED <<child, tun, net, config, release>>

(* The child a controller leaves that exits without having ended it.       *)
Survivor == IF child = "proxy" THEN "orphan" ELSE child

StopService ==
  /\ svc = "running" /\ ~InFlight
  /\ svc' = "stopped"
  /\ child' \in {"none", Survivor}
  /\ tun' \in {FALSE, tun}
  /\ rpc' = NoRpc /\ used' = {}
  /\ UNCHANGED <<net, config, release>>

(***************************************************************************)
(* What happens to the machine by itself: the child exits, the controller  *)
(* dies (its job object takes a TUN child with it, sooner or later; a      *)
(* proxy is orphaned), a stale adapter goes away, the foreign network      *)
(* changes.                                                                *)
(***************************************************************************)
ChildExits ==
  /\ child # "none"
  /\ child' = "none"
  /\ tun' \in {FALSE, tun}
  /\ UNCHANGED <<svc, net, config, release, rpc, used>>

ControllerDies ==
  /\ svc = "running"
  /\ svc' = "stopped"
  /\ child' \in {Survivor} \cup (IF child = "tun" THEN {"none"} ELSE {})
  /\ tun' \in {FALSE, tun}
  /\ rpc' = IF InFlight THEN [rpc EXCEPT !.at = "failed"] ELSE rpc
  /\ used' = {}
  /\ UNCHANGED <<net, config, release>>

AdapterGone ==
  /\ tun /\ child # "tun"
  /\ tun' = FALSE
  /\ UNCHANGED <<svc, child, net, config, release, rpc, used>>

NetworkChanges ==
  /\ net' \in Nets \ {net}
  /\ UNCHANGED <<svc, child, tun, config, release, rpc, used>>

ControllerStep ==
  VerifyEffect \/ ConsumeEffect \/ LaunchChild \/ ObserveStartup \/ ConfirmChild
Disturbance    == ChildExits \/ ControllerDies \/ NetworkChanges
=============================================================================
