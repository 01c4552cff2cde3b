----------------------------- MODULE HostEnroll ------------------------------
(***************************************************************************)
(* host_enroll.rs on an enrolled VM: root replaces its trust snapshot, and *)
(* refresh_current also its own binary, each by a staged file and one      *)
(* atomic rename followed by a directory sync.  Both run under the owner   *)
(* lock, neither looks at nor touches a journal record.                    *)
(***************************************************************************)
EXTENDS HostAdmin

VARIABLES
  published,  \* the newest source GitHub publishes as main's release
  want,       \* the source a refreshing process fetched
  upgrade,    \* whether it also replaces the binary (refresh_current)
  dtrust,     \* trust.pb as a power loss would leave it
  dbinary     \* the binary as a power loss would leave it

enrollVars == <<published, want, upgrade, dtrust, dbinary>>

EnrollLabels ==
  {"trustRename", "trustSync", "binaryCheck", "binaryRename", "binarySync"}

EnrollInit ==
  /\ published \in Sources
  /\ trust \in 1..published
  /\ want = [p \in Procs |-> published]
  /\ upgrade = [p \in Procs |-> FALSE]
  /\ dtrust = trust
  /\ dbinary = binary

Publish ==
  /\ published < LastSource
  /\ published' = published + 1
  /\ UNCHANGED <<want, upgrade, dtrust, dbinary, pc, local, shared, history,
                 adminVars>>

(* enroll on an existing trust root: any release that is published, chosen *)
(* by the local caller, becomes the trust snapshot; the binary stays.      *)
EnrollSubmit(p, s) ==
  /\ pc[p] = "idle"
  /\ s <= published
  /\ Acquire(p)
  /\ Goto(p, "trustRename")
  /\ want' = [want EXCEPT ![p] = s]
  /\ upgrade' = [upgrade EXCEPT ![p] = FALSE]
  /\ UNCHANGED <<published, dtrust, dbinary, local, cache, disk, trust, binary,
                 phys, faults, history, adminVars>>

(* refresh_current: the release of the current main commit, never another. *)
RefreshSubmit(p) ==
  /\ pc[p] = "idle"
  /\ Acquire(p)
  /\ Goto(p, "trustRename")
  /\ want' = [want EXCEPT ![p] = published]
  /\ upgrade' = [upgrade EXCEPT ![p] = TRUE]
  /\ UNCHANGED <<published, dtrust, dbinary, local, cache, disk, trust, binary,
                 phys, faults, history, adminVars>>

(* An identical snapshot is not rewritten, and then not synced either.     *)
RenameTrust(p) ==
  /\ pc[p] = "trustRename"
  /\ trust' = want[p]
  /\ Goto(p, IF trust = want[p] THEN "binaryCheck" ELSE "trustSync")
  /\ UNCHANGED <<enrollVars, local, cache, disk, lock, binary, phys, faults,
                 history, adminVars>>

SyncTrust(p) ==
  /\ pc[p] = "trustSync"
  /\ dtrust' = trust
  /\ Goto(p, "binaryCheck")
  /\ UNCHANGED <<published, want, upgrade, dbinary, local, shared, history,
                 adminVars>>

BinaryCurrent(p) == ~upgrade[p] \/ binary = AgentOf[want[p]]

CheckBinary(p) ==
  /\ pc[p] = "binaryCheck"
  /\ \/ /\ BinaryCurrent(p)
        /\ Exit(p)
     \/ /\ ~BinaryCurrent(p)
        /\ Goto(p, "binaryRename")
        /\ UNCHANGED <<local, lock>>
  /\ UNCHANGED <<enrollVars, cache, disk, trust, binary, phys, faults, history,
                 adminVars>>

RenameBinary(p) ==
  /\ pc[p] = "binaryRename"
  /\ binary' = AgentOf[want[p]]
  /\ Goto(p, "binarySync")
  /\ UNCHANGED <<enrollVars, local, cache, disk, lock, trust, phys, faults,
                 history, adminVars>>

SyncBinary(p) ==
  /\ pc[p] = "binarySync"
  /\ dbinary' = binary
  /\ Exit(p)
  /\ UNCHANGED <<published, want, upgrade, dtrust, cache, disk, trust, binary,
                 phys, faults, history, adminVars>>

EnrollStep(p) ==
  \/ RenameTrust(p) \/ SyncTrust(p)
  \/ CheckBinary(p) \/ RenameBinary(p) \/ SyncBinary(p)
=============================================================================
