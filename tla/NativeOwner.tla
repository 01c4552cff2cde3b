----------------------------- MODULE NativeOwner -----------------------------
(***************************************************************************)
(* What the root processes of one VM share: the protected trust directory  *)
(* (the accepted Git source and the owner binary), the operation lock, and *)
(* the journal directory with the two views a file has: what a process     *)
(* reads now (cache) and what is certain to survive a power loss (disk).   *)
(* HostJournal, HostAdmin and HostEnroll are the processes' operations;    *)
(* VmOwner composes them.                                                  *)
(***************************************************************************)
EXTENDS HostPlanner, Naturals

CONSTANTS
  Procs,       \* root edge-agent processes (one per SSH or runner call)
  Nobody,      \* the value of the lock when no process holds it
  Ops,         \* operation IDs of signed host intents
  Admins,      \* operation IDs of signed ADMIN requests
  NoOp,        \* no operation
  Resources,   \* resource IDs of the registered host
  WholeHost,   \* the resource "sing-box", the whole application
  LastSource,  \* accepted Git revisions, oldest first, are 1..LastSource
  RunOf,       \* the run target of each source
  ReleaseOf,   \* the runtime digest each source is bound to
  AgentOf,     \* the edge-agent binary each source's ReleaseSet names
  ActionOf, ResourceOf, SourceOf,  \* the signed content of each intent
  AdminSourceOf,                   \* the ReleaseSet an ADMIN request names
  HostStates,  \* the native states this host can be in
  MaxFaults,   \* bound on crashes, power losses, failures and drift
  PowerMayFail \* whether a fault may be a power loss

Sources == 1..LastSource

ASSUME NamesAssumption ==
  /\ Nobody \notin Procs
  /\ NoOp \notin Ops /\ NoOp \notin Admins
  /\ WholeHost \in Resources
  /\ LastSource \in Nat \ {0}
  /\ MaxFaults \in Nat
  /\ PowerMayFail \in BOOLEAN

ASSUME SourceAssumption ==
  /\ RunOf \in [Sources -> RunStates]
  /\ ReleaseOf \in [Sources -> Releases]
  /\ DOMAIN AgentOf = Sources

(* validate_host_intent: only APPLY may name a single resource.            *)
ASSUME IntentAssumption ==
  /\ ActionOf \in [Ops -> {"Apply", "Recover"}]
  /\ ResourceOf \in [Ops -> Resources]
  /\ SourceOf \in [Ops -> Sources]
  /\ AdminSourceOf \in [Admins -> Sources]
  /\ \A o \in Ops : ActionOf[o] = "Recover" => ResourceOf[o] = WholeHost

(* A host state is what an exact, current readback of the VM would say.    *)
VmStates ==
  {s \in Observations :
     /\ s.kind = "Vm" /\ s.fresh /\ s.readyProven
     /\ ValidObservation(s)
     /\ s.owner \in RunStates
     /\ s.proof # "Unproven"
     /\ s.ready => s.owner = "Running" /\ s.why = "none"}

ASSUME HostStatesAssumption == HostStates \subseteq VmStates
-----------------------------------------------------------------------------
(***************************************************************************)
(* The journal directory.                                                  *)
(***************************************************************************)
Terminals == {"verified", "observed", "incomplete"}

Scope(r)   == <<"scope", r>>      \* resource-<hash>.pending.pb
Begin(o)   == <<"begin", o>>      \* <id>.pb
Term(t, o) == <<t, o>>            \* <id>.<terminal>.pb
Pending(a) == <<"pending", a>>    \* admin-<key>.pending.pb
Result(a)  == <<"result", a>>     \* admin-<key>.terminal.pb

PendingFiles == {Scope(r) : r \in Resources} \cup {Pending(a) : a \in Admins}
Files == PendingFiles \cup {Begin(o) : o \in Ops} \cup {Result(a) : a \in Admins}
           \cup {Term(t, o) : t \in Terminals, o \in Ops}

ResultReasons == {"NoFurtherAction", "RecoveredNativeRunning",
                  "RecoveredNativeStopped",
                  "StoppedReleaseDriftRequiresInstallTarget",
                  "HistoricalPartialRequiresFreshApply"}

(* Absent: no directory entry.  Torn: an entry whose bytes do not decode,  *)
(* as left by a crash between create_new and the write.                    *)
Marks == {"absent", "torn", "authorized", "request", "complete", "partial"}
Contents == Marks \cup ResultReasons \cup Ops

(* A scope file holds the intent it belongs to, which is not a mark.       *)
ASSUME ContentsAssumption == Ops \cap (Marks \cup ResultReasons) = {}

VARIABLES
  cache,   \* the journal files as every process reads them
  disk,    \* the journal files as a power loss would leave them at worst
  lock,    \* the holder of .native-host.lock (flock LOCK_EX | LOCK_NB)
  trust,   \* the source of trust.pb
  binary,  \* the installed edge-agent binary
  phys,    \* the native state of the host
  faults   \* faults so far, at most MaxFaults

shared == <<cache, disk, lock, trust, binary, phys, faults>>

Exists(f)  == cache[f] # "absent"
AnyPending == \E f \in PendingFiles : Exists(f)

(* fsync of the directory: every entry, and every removal, is durable; the *)
(* bytes of a file are durable only once that file was synced itself.      *)
EntriesSynced ==
  [f \in Files |-> IF cache[f] = "absent" THEN "absent"
                   ELSE IF disk[f] = "absent" THEN "torn" ELSE disk[f]]

CreateNew(f) ==
  /\ ~Exists(f)
  /\ cache' = [cache EXCEPT ![f] = "torn"]
  /\ UNCHANGED disk

WriteAll(f, bytes) ==
  /\ cache' = [cache EXCEPT ![f] = bytes]
  /\ UNCHANGED disk

SyncAll(f) ==
  /\ disk' = [EntriesSynced EXCEPT ![f] = cache[f]]
  /\ UNCHANGED cache

RemoveFile(f) ==
  /\ cache' = [cache EXCEPT ![f] = "absent"]
  /\ UNCHANGED disk

SyncDirectory ==
  /\ disk' = EntriesSynced
  /\ UNCHANGED cache

(* After a power loss a file is as it was last read, or as it was last     *)
(* synced, or present with lost bytes.                                     *)
Dirty == {f \in Files : cache[f] # disk[f]}

Survivors(f) ==
  {cache[f], disk[f]} \cup (IF Exists(f) THEN {"torn"} ELSE {})

JournalInit ==
  /\ cache = [f \in Files |-> "absent"]
  /\ disk = cache

OwnerInit ==
  /\ JournalInit
  /\ lock = Nobody
  /\ trust \in Sources
  /\ binary = AgentOf[trust]
  /\ phys \in HostStates
  /\ faults = 0

(* flock is taken without waiting and dropped by the kernel with the       *)
(* process, so it is never held by the dead.                               *)
Acquire(p) == lock = Nobody /\ lock' = p
Release(p) == lock = p /\ lock' = Nobody

(* apply and ADMIN both refuse to run an owner binary that is not the one  *)
(* the accepted ReleaseSet names.                                          *)
OwnerIsAccepted == binary = AgentOf[trust]

Fault == faults < MaxFaults /\ faults' = faults + 1
=============================================================================
