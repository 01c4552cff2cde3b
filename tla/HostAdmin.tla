------------------------------ MODULE HostAdmin ------------------------------
(***************************************************************************)
(* host_admin_native.rs: one Worker-signed ADMIN command, run as a root    *)
(* child under the same lock and journal as the signed host operations.    *)
(* Its pending record is durable before the child is spawned, its terminal *)
(* record is durable before the pending record is removed, and the pending *)
(* record stays when the child or one of its pipes ended incompletely.     *)
(***************************************************************************)
EXTENDS HostJournal

VARIABLES
  admin,  \* the ADMIN operation each process was called with
  whole,  \* exited, stdin fully written, both pipes read to EOF
  spawns  \* children spawned so far, per ADMIN operation

adminVars == <<admin, whole, spawns>>

AdminLabels ==
  {"adminLocked", "adminSigned", "pendCreate", "pendWrite", "pendSync",
   "spawn", "resultCreate", "resultWrite", "resultSync", "clear", "clearSync"}

AdminInit ==
  /\ admin = [p \in Procs |-> NoOp]
  /\ whole = [p \in Procs |-> FALSE]
  /\ spawns = [a \in Admins |-> 0]

(* Broken on purpose: only the records of this very command count.         *)
AdminAvailableAlone(a) ==
  /\ ~Exists(Pending(a))
  /\ ~Exists(Result(a))

(* independent_admin_operation_available: no pending record of any kind,   *)
(* and no record of this operation.                                        *)
AdminAvailable(a) ==
  /\ ~AnyPending
  /\ ~Exists(Pending(a))
  /\ ~Exists(Result(a))

AdminExit(p) ==
  /\ Exit(p)
  /\ admin' = [admin EXCEPT ![p] = NoOp]
  /\ whole' = [whole EXCEPT ![p] = FALSE]

AdminSubmit(p, a) ==
  /\ pc[p] = "idle"
  /\ Acquire(p)
  /\ Goto(p, "adminLocked")
  /\ admin' = [admin EXCEPT ![p] = a]
  /\ UNCHANGED <<whole, spawns, local, cache, disk, trust, binary, phys,
                 faults, history>>

MaySign(p) ==
  /\ AdminAvailable(admin[p])
  /\ AdminSourceOf[admin[p]] = trust
  /\ OwnerIsAccepted

(* Availability, trust and binary are checked before the Worker is asked   *)
(* for its one-shot signature ...                                          *)
AdminAuthorize(p) ==
  /\ pc[p] = "adminLocked"
  /\ MaySign(p)
  /\ Goto(p, "adminSigned")
  /\ UNCHANGED <<local, shared, history, adminVars>>

(* ... and availability once more after it.                                *)
AdminRecheck(p) ==
  /\ pc[p] = "adminSigned"
  /\ AdminAvailable(admin[p])
  /\ Goto(p, "pendCreate")
  /\ UNCHANGED <<local, shared, history, adminVars>>

CreatePending(p) ==
  /\ pc[p] = "pendCreate"
  /\ CreateNew(Pending(admin[p]))
  /\ Goto(p, "pendWrite")
  /\ UNCHANGED <<local, lock, trust, binary, phys, faults, history, adminVars>>

WritePending(p) ==
  /\ pc[p] = "pendWrite"
  /\ WriteAll(Pending(admin[p]), "request")
  /\ Goto(p, "pendSync")
  /\ UNCHANGED <<local, lock, trust, binary, phys, faults, history, adminVars>>

SyncPending(p) ==
  /\ pc[p] = "pendSync"
  /\ SyncAll(Pending(admin[p]))
  /\ Goto(p, "spawn")
  /\ UNCHANGED <<local, lock, trust, binary, phys, faults, history, adminVars>>

(* The root child may do anything to the host.  complete_execution then    *)
(* says whether all of it was seen to end.                                 *)
SpawnAndWait(p) ==
  /\ pc[p] = "spawn"
  /\ spawns' = [spawns EXCEPT ![admin[p]] = @ + 1]
  /\ phys' \in HostStates
  /\ reached' = NowReached(phys', cache)
  /\ \E complete \in BOOLEAN : whole' = [whole EXCEPT ![p] = complete]
  /\ Goto(p, "resultCreate")
  /\ UNCHANGED <<local, cache, disk, lock, trust, binary, faults, effects,
                 decided, admin>>

CreateResult(p) ==
  /\ pc[p] = "resultCreate"
  /\ CreateNew(Result(admin[p]))
  /\ Goto(p, "resultWrite")
  /\ UNCHANGED <<local, lock, trust, binary, phys, faults, history, adminVars>>

WriteResult(p) ==
  /\ pc[p] = "resultWrite"
  /\ WriteAll(Result(admin[p]), IF whole[p] THEN "complete" ELSE "partial")
  /\ Goto(p, "resultSync")
  /\ UNCHANGED <<local, lock, trust, binary, phys, faults, history, adminVars>>

(* An incomplete execution returns an error and keeps its pending record.  *)
SyncResult(p) ==
  /\ pc[p] = "resultSync"
  /\ SyncAll(Result(admin[p]))
  /\ \/ /\ whole[p]
        /\ Goto(p, "clear")
        /\ UNCHANGED <<local, lock, admin, whole>>
     \/ ~whole[p] /\ AdminExit(p)
  /\ UNCHANGED <<trust, binary, phys, faults, history, spawns>>

ClearPending(p) ==
  /\ pc[p] = "clear"
  /\ RemoveFile(Pending(admin[p]))
  /\ Goto(p, "clearSync")
  /\ UNCHANGED <<local, lock, trust, binary, phys, faults, history, adminVars>>

SyncClear(p) ==
  /\ pc[p] = "clearSync"
  /\ SyncDirectory
  /\ AdminExit(p)
  /\ UNCHANGED <<trust, binary, phys, faults, history, spawns>>

AdminRefuse(p) ==
  /\ \/ pc[p] = "adminLocked" /\ ~MaySign(p)
     \/ pc[p] = "adminSigned" /\ ~AdminAvailable(admin[p])
     \/ pc[p] = "pendCreate" /\ Exists(Pending(admin[p]))
     \/ pc[p] = "resultCreate" /\ Exists(Result(admin[p]))
  /\ AdminExit(p)
  /\ UNCHANGED <<cache, disk, trust, binary, phys, faults, history, spawns>>

AdminStep(p) ==
  \/ AdminAuthorize(p) \/ AdminRecheck(p) \/ AdminRefuse(p)
  \/ CreatePending(p) \/ WritePending(p) \/ SyncPending(p)
  \/ SpawnAndWait(p)
  \/ CreateResult(p) \/ WriteResult(p) \/ SyncResult(p)
  \/ ClearPending(p) \/ SyncClear(p)
=============================================================================
