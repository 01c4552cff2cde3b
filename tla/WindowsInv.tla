----------------------------- MODULE WindowsInv -----------------------------
(***************************************************************************)
(* The inductive invariant behind the safety properties of WindowsOwner.   *)
(***************************************************************************)
EXTENDS WindowsOwner

(* Layer 0: the types, by who owns the state, and where an operation is    *)
(* named.                                                                  *)
RpcType == [at : {"none", "sent", "verified", "consumed", "starting", "launched",
                  "ok", "failed"},
            op : Ops \cup {NoOp}, mode : Datapaths, before : Nets \cup {NoNet}]
IntentType == [op : Ops \cup {NoOp}, src : Targets]
BaselineType == [op : Ops \cup {NoOp}, net : Nets \cup {NoNet}]
PreflightType == [net : Nets \cup {NoNet}, tun : BOOLEAN, orig : Ops \cup {NoOp}]

MachineTyped ==
  /\ svc \in {"stopped", "running"}
  /\ child \in {"none", "proxy", "tun", "orphan"}
  /\ tun \in BOOLEAN /\ net \in Nets /\ release \in Releases
  /\ config \in Datapaths \cup {"absent"}
  /\ rpc \in RpcType
  /\ rpc.at \in {"sent", "verified", "consumed"} => rpc.op \in Ops
  /\ used \subseteq Ops

DiskTyped ==
  /\ gate \in IntentType
  /\ begun \subseteq Ops /\ archived \subseteq Ops
  /\ checked \subseteq Ops
  /\ terminal \in [Ops -> SUBSET {"verified", "recovered", "observed"}]
  /\ baseline \in BaselineType

LocalTyped ==
  /\ pc \in Pcs /\ op \in Ops \cup {NoOp} /\ subj \in Ops \cup {NoOp}
  /\ src \in Targets /\ prior \in Releases \cup {NoRelease}
  /\ pre \in PreflightType
  /\ step \in Steps
  /\ pc # "idle" => op \in Ops
  /\ pc = "archive" => pre.orig \in Ops

OthersTyped ==
  /\ target \in Targets /\ request \in IntentType
  /\ request = NoIntent \/ request.op \in Ops
  /\ effects \in [Ops -> 0..2] /\ reached \subseteq Ops

Typed == MachineTyped /\ DiskTyped /\ LocalTyped /\ OthersTyped

Effecting == {"effect", "configure", "start", "send", "await", "readback"}
Settling  == {"store", "unlock"}
Planned   == {"gate", "begin"} \cup Effecting \cup Settling

(* Layer 1: what the preflight and the plan have fixed.  A TUN target is   *)
(* started by START alone.                                                 *)
TunAdmitted ==
  src.mode = "ManagedTun" =>
    \/ Action \in {"Stop", "Apply"} /\ src.run = "Stopped"
    \/ Action = "Start" /\ src.run = "Running"

Admitted ==
  /\ pc # "idle" => TunAdmitted
  /\ pc \in Planned => /\ StepFits(step) /\ ActionFitsTarget
                       /\ step = "Start" => src.run = "Running"
  /\ pc \in Effecting => step # "Noop"
  /\ pc \in {"start", "send", "await"} => step = "Start"

(* Layer 2: the gate is the process's own, or that of an APPLY or RECOVER  *)
(* it settles.                                                             *)
Gated ==
  /\ pc = "gate" => subj = op
  /\ pc \in {"begin"} \cup Effecting => gate = Intent(op, src) /\ subj = op
  /\ pc \in Settling =>
       /\ subj \in Ops /\ gate.op = subj
       /\ subj # op => ActionOf[subj] \in {"Apply", "Recover"}
  /\ pc = "archive" => gate = NoIntent

(* Layer 3: an operation has its effect after its BEGIN, and begins once.  *)
BeginsOnce ==
  /\ OneEffectPerOperation
  /\ \A o \in Ops \ begun : effects[o] = 0
  /\ pc \in {"gate", "begin"} \/ (pc \in Settling /\ subj # op) => op \notin begun
  /\ pc \in Effecting => op \in begun
  /\ pc = "effect" => effects[op] = 0

(* Layer 4: a TUN effect the controller has yet to carry out belongs to a  *)
(* START that holds the gate, and its before-state is the active baseline. *)
TunPending == rpc.at \in {"sent", "verified", "consumed"} /\ rpc.mode = "ManagedTun"

Baselines ==
  /\ archived \subseteq begun
  /\ baseline = NoBaseline \/ baseline.op \in begun \ archived
  /\ pc = "effect" => op \notin archived
  /\ /\ pc \in {"configure", "start", "send"}
     /\ step = "Start" /\ src.mode = "ManagedTun"
     => baseline = [op |-> op, net |-> pre.net]

(* The network a process works with is that of the active baseline.        *)
Remembered == pc # "idle" /\ baseline # NoBaseline => baseline.net = pre.net

PendingRecorded ==
  TunPending =>
    /\ gate.op = rpc.op /\ ActionOf[rpc.op] = "Start"
    /\ rpc.op \in begun
    /\ baseline = [op |-> rpc.op, net |-> rpc.before]
    /\ op = rpc.op => pc = "await"
    /\ rpc.at = "consumed" => rpc.op \in used

(* Layer 5: what a START finds at its readback.                            *)
Started ==
  /\ pc = "start" => svc = "stopped" /\ child = "none"
  /\ pc = "send" => child = "none" /\ rpc = NoRpc
  /\ pc = "await" => rpc.mode = src.mode
  /\ pc \in {"await", "readback"} /\ step = "Start" =>
       child \in {"none", "orphan", ChildOf(src.mode)}
  /\ pc = "readback" /\ step = "Start" => rpc = NoRpc
  /\ pc \in {"start", "send", "await", "readback"} /\ step = "Start" => config = src.mode

(* Layer 6: what is claimed was so; a baseline is retired for a STOP that  *)
(* has its record.                                                         *)
Truthful ==
  /\ pc \in Effecting /\ ConvergedNow => op \in reached
  /\ /\ pc = "store" /\ TerminalName = "verified"
     /\ ActionOf[subj] \in {"Start", "Stop"}
     => subj \in reached
  /\ pc = "unlock" => TerminalName \in terminal[subj]
  /\ pc = "archive" => Action = "Stop" /\ "verified" \in terminal[op]
  /\ VerifiedStartStopHappened

SafeInv == Admitted /\ Gated /\ BeginsOnce /\ Baselines /\ Remembered
             /\ PendingRecorded /\ CaptureHasBaseline /\ Started /\ Truthful
=============================================================================
