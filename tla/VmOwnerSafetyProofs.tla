-------------------------- MODULE VmOwnerSafetyProofs ------------------------
(***************************************************************************)
(* Layer 4 of the invariant of VmOwner, the ADMIN records, and with it the *)
(* theorems on non-repeatability: at most one effect per operation, an     *)
(* unknown outcome keeps its gate, and no effect starts over an unknown.   *)
(* Then layer 5, what a VERIFIED record says of the host.                  *)
(***************************************************************************)
EXTENDS VmOwnerJournalProofs

AdminFiles == {Pending(a) : a \in Admins} \cup {Result(a) : a \in Admins}

(* An ADMIN record is a file, and no record of a signed host operation.    *)
LEMMA AdminFileNames ==
  /\ \A a \in Admins : /\ Pending(a) \in AdminFiles /\ Result(a) \in AdminFiles
                       /\ Pending(a) \in Files /\ Result(a) \in Files
                       /\ Pending(a) \in PendingFiles /\ Result(a) \notin PendingFiles
  /\ AdminFiles \subseteq Files
  /\ \A g \in AdminFiles : g \notin JournalFiles
<1>1. \A a \in Admins : Pending(a) \in Files /\ Result(a) \in Files /\ Pending(a) \in PendingFiles
  BY FilesExist
<1>2. \A a \in Admins : Result(a) \notin PendingFiles
  BY FileNames, PendingFileCases
<1>3. \A a \in Admins : Pending(a) \notin JournalFiles /\ Result(a) \notin JournalFiles
  BY FileNames, JournalFileCases
<1> QED
  BY <1>1, <1>2, <1>3 DEF AdminFiles

(* A step after which no process is in an ADMIN command.                   *)
LEMMA QuietAdmin ==
  ASSUME AdminInv, spawns' = spawns,
         \A f \in AdminFiles : Kept(f),
         \A q \in Procs : pc'[q] \notin AdminLabels
  PROVE  AdminInv'
<1>1. PendingOrComplete'
  BY AdminFileNames DEF AdminInv, PendingOrComplete, Kept
<1>2. AdminHeld' /\ AdminAlone'
  BY DEF AdminHeld, AdminAlone, AdminLabels
<1> QED
  BY <1>1, <1>2 DEF AdminInv

(* A signed host operation works on the records of its own journal.        *)
LEMMA ApplyStepAdmin ==
  ASSUME Typed, Exclusive, AdminInv, NEW p \in Procs, ApplyStep(p), UNCHANGED adminVars
  PROVE  AdminInv'
<1> USE DEF Authorize, PlanStep, Resolve, Refuse, CreateScope, WriteScope, SyncScope,
        CreateBegin, WriteBegin, SyncBegin, Effect, ReadBack, CreateTerminal,
        WriteTerminal, SyncTerminal, UnlockScope, SyncUnlock
<1>1. pc[p] \in ApplyLabels
  BY DEF ApplyStep, ApplyLabels
<1>2. \A q \in Procs : pc'[q] \notin AdminLabels
  <2>1. \E l \in ApplyLabels \cup {"idle"} : Goto(p, l)
    BY DEF ApplyStep, ApplyLabels, Exit
  <2> QED
    BY <1>1, <2>1, OneProcess DEF AdminLabels, ApplyLabels
<1>3. \A g \in AdminFiles : Kept(g)
  <2>1. CASE pc[p] \in PlannedLabels
    <3>1. \/ UNCHANGED <<cache, disk>> \/ SyncDirectory
          \/ \E f \in {ScopeFile(p), Begin(op[p]), TermFile(p)} :
               \/ CreateNew(f) \/ SyncAll(f) \/ RemoveFile(f)
               \/ \E c : WriteAll(f, c)
      BY DEF ApplyStep, shared
    <3>2. \A f \in {ScopeFile(p), Begin(op[p]), TermFile(p)} :
            f \in Files /\ f \notin AdminFiles
      BY <2>1, OwnFiles, AdminFileNames
    <3> QED
      BY <3>1, <3>2, FileOperations, AdminFileNames, NamesAssumption, FilesExist DEF Typed
  <2>2. CASE pc[p] \notin PlannedLabels
    <3>1. UNCHANGED <<cache, disk>>
      BY <2>2 DEF ApplyStep, shared, PlannedLabels, ApplyLabels
    <3> QED
      BY <3>1, FileOperations, AdminFileNames, NamesAssumption, FilesExist DEF Typed
  <2> QED
    BY <2>1, <2>2
<1> QED
  BY <1>2, <1>3, QuietAdmin DEF adminVars

(* An ADMIN command is spawned once, over its own durable pending record,  *)
(* which goes only after a durable complete result.                        *)
LEMMA AdminStepAdmin ==
  ASSUME Typed, Exclusive, AdminInv, NEW p \in Procs, AdminStep(p)
  PROVE  AdminInv'
<1> DEFINE a == admin[p]
<1>1. pc[p] \in AdminLabels
  BY DEF AdminStep, AdminLabels, AdminAuthorize, AdminRecheck, AdminRefuse,
     CreatePending, WritePending, SyncPending, SpawnAndWait, CreateResult,
     WriteResult, SyncResult, ClearPending, SyncClear
<1>2. /\ a \in Admins /\ Pending(a) \in Files /\ Result(a) \in Files
      /\ Pending(a) # Result(a) /\ spawns \in [Admins -> Nat]
  BY <1>1, AdminFileNames, FileNames DEF Typed, TypeOK, Bound
<1>3. pc[p] # "idle"
  BY <1>1 DEF AdminLabels
<1> HIDE DEF a
<1>4. ASSUME UNCHANGED <<cache, disk, spawns>>, \E l \in {"adminSigned", "idle"} : Goto(p, l)
      PROVE  AdminInv'
  BY <1>3, <1>4, OneProcess, FileOperations, AdminFileNames DEF Typed,
     AdminInv, PendingOrComplete, AdminHeld, AdminAlone
<1>5. CASE AdminAuthorize(p)
  BY <1>4, <1>5 DEF AdminAuthorize, shared, adminVars
<1>6. CASE AdminRefuse(p)
  BY <1>4, <1>6 DEF AdminRefuse, AdminExit, Exit
<1>7. CASE AdminRecheck(p)
  <2>1. pc'[p] = "pendCreate" /\ \A q \in Procs : pc'[q] # "idle" => q = p
    BY <1>3, <1>7, OneProcess DEF AdminRecheck
  <2>2. UNCHANGED <<cache, disk, admin, spawns>> /\ AdminAvailable(a)
    BY <1>7 DEF AdminRecheck, shared, adminVars, a
  <2>3. spawns[a] = 0
    BY <1>2, <2>2 DEF AdminInv, PendingOrComplete, AdminAvailable, Exists
  <2>4. AdminAlone'
    BY <2>1, <2>2, <2>3 DEF AdminAlone, AdminAvailable, AnyPending, Exists, a
  <2>5. AdminHeld' /\ PendingOrComplete'
    BY <2>1, <2>2 DEF AdminInv, AdminHeld, PendingOrComplete
  <2> QED
    BY <2>4, <2>5 DEF AdminInv
<1>8. CASE CreatePending(p)
  <2>1. pc'[p] = "pendWrite" /\ \A q \in Procs : pc'[q] # "idle" => q = p
    BY <1>3, <1>8, OneProcess DEF CreatePending
  <2>2. UNCHANGED <<admin, spawns>> /\ spawns[a] = 0
    BY <1>8 DEF CreatePending, adminVars, a, AdminInv, AdminAlone
  <2>3. \A g \in Files \ {Pending(a)} : Kept(g)
    BY <1>2, <1>8, FileOperations DEF CreatePending, Typed, a
  <2>4. PendingOrComplete'
    BY <1>2, <2>2, <2>3, AdminFileNames, FileNames DEF AdminInv, PendingOrComplete, Kept
  <2>5. AdminAlone'
    BY <1>8, <2>1, <2>2, <2>3, FilesExist DEF CreatePending, AdminInv, AdminAlone, Exists, Kept, a
  <2>6. AdminHeld'
    BY <2>1 DEF AdminHeld
  <2> QED
    BY <2>4, <2>5, <2>6 DEF AdminInv
<1>9. CASE WritePending(p)
  <2>1. pc'[p] = "pendSync" /\ \A q \in Procs : pc'[q] # "idle" => q = p
    BY <1>3, <1>9, OneProcess DEF WritePending
  <2>2. UNCHANGED <<admin, spawns>> /\ spawns[a] = 0
    BY <1>9 DEF WritePending, adminVars, a, AdminInv, AdminAlone
  <2>3. (\A g \in Files \ {Pending(a)} : Kept(g)) /\ cache'[Pending(a)] = "request"
    BY <1>2, <1>9, FileOperations DEF WritePending, Typed, a
  <2>4. PendingOrComplete'
    BY <1>2, <2>2, <2>3, AdminFileNames, FileNames DEF AdminInv, PendingOrComplete, Kept
  <2>5. AdminAlone'
    BY <1>9, <2>1, <2>2, <2>3, FilesExist DEF WritePending, AdminInv, AdminAlone, Exists, Kept, a
  <2>6. AdminHeld'
    BY <2>1, <2>2, <2>3 DEF AdminHeld, a
  <2> QED
    BY <2>4, <2>5, <2>6 DEF AdminInv
<1>10. CASE SyncPending(p)
  <2>1. pc'[p] = "spawn" /\ \A q \in Procs : pc'[q] # "idle" => q = p
    BY <1>3, <1>10, OneProcess DEF SyncPending
  <2>2. UNCHANGED <<admin, spawns>> /\ spawns[a] = 0 /\ cache[Pending(a)] = "request"
    BY <1>10 DEF SyncPending, adminVars, a, AdminInv, AdminAlone, AdminHeld
  <2>3. /\ \A g \in Files \ {Pending(a)} : Kept(g)
        /\ cache' = cache /\ disk'[Pending(a)] = cache[Pending(a)]
    BY <1>2, <1>10, FileOperations DEF SyncPending, Typed, a
  <2>4. PendingOrComplete'
    BY <1>2, <2>2, <2>3, AdminFileNames, FileNames DEF AdminInv, PendingOrComplete, Kept
  <2>5. AdminAlone'
    BY <1>10, <2>1, <2>2, <2>3 DEF SyncPending, AdminInv, AdminAlone, Exists, a
  <2>6. AdminHeld'
    BY <2>1, <2>2, <2>3 DEF AdminHeld, a
  <2> QED
    BY <2>4, <2>5, <2>6 DEF AdminInv
<1>11. CASE SpawnAndWait(p)
  <2>1. pc'[p] = "resultCreate" /\ \A q \in Procs : pc'[q] # "idle" => q = p
    BY <1>3, <1>11, OneProcess DEF SpawnAndWait
  <2>2. UNCHANGED <<cache, disk, admin>> /\ spawns[a] = 0
    BY <1>11 DEF SpawnAndWait, a, AdminInv, AdminAlone
  <2>3. cache[Pending(a)] = "request" /\ disk[Pending(a)] = "request"
    BY <1>11 DEF SpawnAndWait, a, AdminInv, AdminHeld
  <2>4. spawns'[a] = 1 /\ \A b \in Admins \ {a} : spawns'[b] = spawns[b]
    BY <1>2, <1>11, <2>2 DEF SpawnAndWait, a
  <2>5. PendingOrComplete'
    BY <2>2, <2>3, <2>4 DEF AdminInv, PendingOrComplete
  <2>6. AdminHeld' /\ AdminAlone'
    BY <2>1, <2>2, <2>3 DEF AdminHeld, AdminAlone, a
  <2> QED
    BY <2>5, <2>6 DEF AdminInv
<1>12. CASE CreateResult(p)
  <2>1. pc'[p] = "resultWrite" /\ \A q \in Procs : pc'[q] # "idle" => q = p
    BY <1>3, <1>12, OneProcess DEF CreateResult
  <2>2. UNCHANGED <<admin, spawns>>
    BY <1>12 DEF CreateResult, adminVars
  <2>3. cache[Pending(a)] = "request" /\ disk[Pending(a)] = "request"
    BY <1>12 DEF CreateResult, a, AdminInv, AdminHeld
  <2>4. \A g \in Files \ {Result(a)} : Kept(g)
    BY <1>2, <1>12, FileOperations DEF CreateResult, Typed, a
  <2>5. PendingOrComplete'
    BY <1>2, <2>2, <2>3, <2>4, AdminFileNames, FileNames DEF AdminInv, PendingOrComplete, Kept
  <2>6. AdminHeld' /\ AdminAlone'
    BY <1>2, <2>1, <2>2, <2>3, <2>4 DEF AdminHeld, AdminAlone, a, Kept
  <2> QED
    BY <2>5, <2>6 DEF AdminInv
<1>13. CASE WriteResult(p)
  <2>1. pc'[p] = "resultSync" /\ \A q \in Procs : pc'[q] # "idle" => q = p
    BY <1>3, <1>13, OneProcess DEF WriteResult
  <2>2. UNCHANGED <<admin, whole, spawns>>
    BY <1>13 DEF WriteResult, adminVars
  <2>3. cache[Pending(a)] = "request" /\ disk[Pending(a)] = "request"
    BY <1>13 DEF WriteResult, a, AdminInv, AdminHeld
  <2>4. /\ \A g \in Files \ {Result(a)} : Kept(g)
        /\ cache'[Result(a)] = (IF whole[p] THEN "complete" ELSE "partial")
    BY <1>2, <1>13, FileOperations DEF WriteResult, Typed, a
  <2>5. PendingOrComplete'
    BY <1>2, <2>2, <2>3, <2>4, AdminFileNames, FileNames DEF AdminInv, PendingOrComplete, Kept
  <2>6. AdminHeld' /\ AdminAlone'
    BY <1>2, <2>1, <2>2, <2>3, <2>4 DEF AdminHeld, AdminAlone, a, Kept
  <2> QED
    BY <2>5, <2>6 DEF AdminInv
<1>14. CASE SyncResult(p)
  <2>1. cache[Pending(a)] = "request" /\ disk[Pending(a)] = "request"
    BY <1>14 DEF SyncResult, a, AdminInv, AdminHeld
  <2>2. /\ \A g \in Files \ {Result(a)} : Kept(g)
        /\ cache' = cache /\ disk'[Result(a)] = cache[Result(a)]
    BY <1>2, <1>14, FileOperations DEF SyncResult, Typed, a
  <2>3. PendingOrComplete'
    <3>1. spawns' = spawns
      BY <1>14 DEF SyncResult
    <3> QED
      BY <1>2, <2>1, <2>2, <3>1, AdminFileNames, FileNames DEF AdminInv, PendingOrComplete, Kept
  <2>4. CASE AdminExit(p)
    BY <1>3, <2>3, <2>4, OneProcess DEF AdminExit, Exit, AdminInv, AdminHeld, AdminAlone
  <2>5. CASE whole[p] /\ Goto(p, "clear") /\ UNCHANGED admin
    <3>1. pc'[p] = "clear" /\ \A q \in Procs : pc'[q] # "idle" => q = p
      BY <1>3, <2>5, OneProcess
    <3>2. cache[Result(a)] = "complete"
      BY <1>14, <2>5 DEF SyncResult, AdminInv, AdminHeld, a
    <3> QED
      BY <2>2, <2>3, <2>5, <3>1, <3>2 DEF AdminInv, AdminHeld, AdminAlone, a
  <2> QED
    BY <1>14, <2>4, <2>5 DEF SyncResult
<1>15. CASE ClearPending(p)
  <2>1. pc'[p] = "clearSync" /\ \A q \in Procs : pc'[q] # "idle" => q = p
    BY <1>3, <1>15, OneProcess DEF ClearPending
  <2>2. UNCHANGED <<admin, spawns>>
    BY <1>15 DEF ClearPending, adminVars
  <2>3. cache[Result(a)] = "complete" /\ disk[Result(a)] = "complete"
    BY <1>15 DEF ClearPending, a, AdminInv, AdminHeld
  <2>4. \A g \in Files \ {Pending(a)} : Kept(g)
    BY <1>2, <1>15, FileOperations DEF ClearPending, Typed, a
  <2>5. PendingOrComplete'
    BY <1>2, <2>2, <2>3, <2>4, AdminFileNames, FileNames DEF AdminInv, PendingOrComplete, Kept
  <2>6. AdminHeld' /\ AdminAlone'
    BY <1>2, <2>1, <2>2, <2>3, <2>4 DEF AdminHeld, AdminAlone, a, Kept
  <2> QED
    BY <2>5, <2>6 DEF AdminInv
<1>16. CASE SyncClear(p)
  <2>1. \A q \in Procs : pc'[q] = "idle"
    BY <1>3, <1>16, OneProcess DEF SyncClear, AdminExit, Exit
  <2>2. (\A g \in Files : Kept(g)) /\ spawns' = spawns
    BY <1>2, <1>16, FileOperations DEF SyncClear, Typed
  <2> QED
    BY <2>1, <2>2, AdminFileNames, QuietAdmin DEF AdminLabels
<1> QED
  BY <1>5, <1>6, <1>7, <1>8, <1>9, <1>10, <1>11, <1>12, <1>13, <1>14, <1>15,
     <1>16 DEF AdminStep

(* Every other step leaves the ADMIN records alone, but for a power loss,  *)
(* which keeps what was synced.                                            *)
LEMMA AdminNext ==
  ASSUME Typed, Exclusive, AdminInv, [Next]_vars
  PROVE  AdminInv'
<1> USE DEF adminVars
<1>1. ASSUME NEW p \in Procs, EnrollStep(p) PROVE AdminInv'
  <2>1. \A q \in Procs : pc'[q] \notin AdminLabels
    BY <1>1, OneProcess DEF EnrollStep, RenameTrust, SyncTrust, CheckBinary,
       RenameBinary, SyncBinary, Exit, AdminLabels
  <2>2. UNCHANGED <<cache, disk, spawns>>
    BY <1>1 DEF EnrollStep, RenameTrust, SyncTrust, CheckBinary, RenameBinary,
       SyncBinary, shared
  <2> QED
    BY <2>1, <2>2, FileOperations, FilesExist, AdminFileNames, NamesAssumption,
       QuietAdmin DEF Typed
<1>2. ASSUME NEW p \in Procs, JournalSubmit(p) \/ AdminCall(p) \/ EnrollCall(p) \/ Abort(p)
      PROVE  AdminInv'
  <2>1. \A q \in Procs : pc'[q] \notin AdminLabels \ {"adminLocked"}
    <3>1. CASE Abort(p)
      BY <3>1, OneProcess DEF Abort, AdminExit, Exit, AdminLabels
    <3>2. CASE lock = Nobody /\ \E l \in {"locked", "adminLocked", "trustRename"} : Goto(p, l)
      BY <3>2, NamesAssumption DEF Exclusive, Goto, Typed, TypeOK, AdminLabels
    <3> QED
      BY <1>2, <3>1, <3>2 DEF JournalSubmit, Submit, AdminCall, AdminSubmit,
         EnrollCall, EnrollSubmit, RefreshSubmit, Acquire
  <2>2. UNCHANGED <<cache, disk, spawns>>
    BY <1>2 DEF JournalSubmit, Submit, AdminCall, AdminSubmit, EnrollCall,
       EnrollSubmit, RefreshSubmit, Abort
  <2> QED
    BY <2>1, <2>2 DEF AdminInv, PendingOrComplete, AdminHeld, AdminAlone, AdminLabels
<1>3. CASE PowerLoss
  <2>1. spawns' = spawns /\ \A q \in Procs : pc'[q] = "idle"
    BY <1>3 DEF PowerLoss
  <2>2. PendingOrComplete'
    BY <1>3, <2>1, PowerLossFiles, AdminFileNames DEF AdminInv, PendingOrComplete, Typed
  <2> QED
    BY <2>1, <2>2 DEF AdminInv, AdminHeld, AdminAlone
<1>4. CASE Drift \/ Publish \/ UNCHANGED vars
  <2>1. UNCHANGED <<cache, disk, pc, admin, whole, spawns>>
    BY <1>4 DEF Drift, Publish, vars, shared
  <2> QED
    BY <2>1 DEF AdminInv, PendingOrComplete, AdminHeld, AdminAlone, Exists
<1> QED
  BY <1>1, <1>2, <1>3, <1>4, ApplyStepAdmin, AdminStepAdmin
     DEF Next, ProcStep, JournalStep, AdminProgress

(* All layers up to the ADMIN records hold in every state.                 *)
LEMMA OwnerInvariant ==
  Spec => [](Typed /\ Exclusive /\ Accepted /\ JournalInv /\ AdminInv)
<1>1. Init => AdminInv
  <2> SUFFICES ASSUME Init PROVE AdminInv
    OBVIOUS
  <2>1. (\A p \in Procs : pc[p] = "idle") /\ (\A a \in Admins : spawns[a] = 0)
    BY DEF Init, JournalOwnerInit, AdminInit
  <2> QED
    BY <2>1 DEF AdminInv, PendingOrComplete, AdminHeld, AdminAlone
<1>2. Typed /\ Exclusive /\ AdminInv /\ [Next]_vars => AdminInv'
  BY AdminNext
<1> QED
  BY <1>1, <1>2, OwnerSafe, JournalSafe, PTL DEF Spec

(* ARCHITECTURE.md, non-repeatability: apply_once runs at most once per    *)
(* operation ID and never for a RECOVER, and an ADMIN child is spawned at  *)
(* most once, whatever is replayed, killed, lost or recovered.             *)
THEOREM EffectsAtMostOnce == Spec => []AtMostOnce
<1>1. JournalInv /\ AdminInv => AtMostOnce
  BY DEF JournalInv, RanOnce, AdminInv, PendingOrComplete, AtMostOnce
<1> QED
  BY <1>1, OwnerInvariant, PTL

(* UNKNOWN_NO_REPLAY: an effect of unknown outcome keeps its gate and its  *)
(* BEGIN, an ADMIN command its pending record, in memory and on disk.      *)
THEOREM UnknownAlwaysKeepsGate == Spec => []UnknownKeepsGate
<1>1. JournalInv /\ AdminInv => UnknownKeepsGate
  BY DEF JournalInv, RanOnce, UnknownGated, Unsettled, AdminInv,
     PendingOrComplete, AdminUnsettled, UnknownKeepsGate
<1> QED
  BY <1>1, OwnerInvariant, PTL

(* The scan of host_journal.rs 934-950 and the ADMIN availability check:   *)
(* no effect and no ADMIN child starts while the outcome of another one is *)
(* unknown.                                                                *)
THEOREM NoEffectStartsOverUnknown == Spec => NoEffectOverUnknown
<1> DEFINE Safe == Typed /\ Exclusive /\ Accepted /\ JournalInv /\ AdminInv
<1>1. ASSUME Safe, NEW o \in Ops, Unsettled(o)
      PROVE  /\ Scope(ResourceOf[o]) \in PendingFiles /\ Exists(Scope(ResourceOf[o]))
             /\ cache[Scope(ResourceOf[o])] = o
  BY <1>1, FilesExist, IntentAssumption, ContentsAssumption
     DEF JournalInv, UnknownGated, Exists, Marks
<1>2. ASSUME Safe, NEW a \in Admins, AdminUnsettled(a)
      PROVE  Pending(a) \in PendingFiles /\ Exists(Pending(a))
  BY <1>2, FilesExist DEF AdminInv, PendingOrComplete, AdminUnsettled, Exists
<1>3. ASSUME Safe, [Next]_vars, NEW o \in Ops, effects'[o] # effects[o]
      PROVE  /\ \A q \in Ops \ {o} : ~Unsettled(q)
             /\ \A a \in Admins : ~AdminUnsettled(a)
  <2>1. PICK p \in Procs : Effect(p)
    BY <1>3, OnlyEffectRuns
  <2>2. op[p] = o /\ pc[p] = "effect"
    BY <1>3, <2>1 DEF Effect, Typed, TypeOK
  <2>3. cache[ScopeFile(p)] = o /\ \A f \in PendingFiles : Exists(f) => f = ScopeFile(p)
    BY <1>3, <2>2 DEF JournalInv, ScopeHeld, Alone, OnlyOwnScopePending, PlannedLabels, ApplyLabels
  <2> QED
    BY <1>1, <1>2, <1>3, <2>3, FileNames DEF ScopeFile
<1>4. ASSUME Safe, [Next]_vars, NEW a \in Admins, spawns'[a] # spawns[a]
      PROVE  /\ \A q \in Ops : ~Unsettled(q)
             /\ \A b \in Admins \ {a} : ~AdminUnsettled(b)
  <2>1. PICK p \in Procs : SpawnAndWait(p)
    BY <1>4, OnlyEffectRuns
  <2>2. admin[p] = a /\ pc[p] = "spawn"
    BY <1>4, <2>1 DEF SpawnAndWait, Typed, TypeOK
  <2>3. \A f \in PendingFiles : Exists(f) => f = Pending(a)
    BY <1>4, <2>2 DEF AdminInv, AdminAlone
  <2> QED
    BY <1>1, <1>2, <1>4, <2>3, FileNames
<1>5. Safe /\ [Next]_vars =>
        [/\ \A o \in Ops : effects'[o] # effects[o] =>
               /\ \A q \in Ops \ {o} : ~Unsettled(q)
               /\ \A a \in Admins : ~AdminUnsettled(a)
         /\ \A a \in Admins : spawns'[a] # spawns[a] =>
               /\ \A q \in Ops : ~Unsettled(q)
               /\ \A b \in Admins \ {a} : ~AdminUnsettled(b)]_vars
  BY <1>3, <1>4
<1> QED
  BY <1>5, OwnerInvariant, PTL DEF Spec, NoEffectOverUnknown

(***************************************************************************)
(* Layer 5: a VERIFIED record is only written for an operation whose       *)
(* target state was really reached.                                        *)
(***************************************************************************)


(* What was reached stays reached, and a step that changes the host looks  *)
(* at every begun operation again.                                         *)
LEMMA ReachedByNow ==
  ASSUME NEW s, NEW files, reached' = NowReached(s, files)
  PROVE  /\ reached \subseteq reached'
         /\ \A o \in Ops : files[Begin(o)] = "authorized" /\ Converged(o, s) => o \in reached'
  BY DEF NowReached

(* propose_host_transition never stops a host that should run.             *)
LEMMA StopPlansStoppedTarget ==
  ASSUME NEW h, NEW s, NEW a, NEW exp,
         ProposeSignedHostTransition(h, s, a, exp).step = "Stop"
  PROVE  h.run = "Stopped"
  BY DEF ProposeSignedHostTransition, ProposeHostTransition, AbsentPlan,
     InstalledPlan, StoppedTargetPlan, RunningTargetPlan, Plan, Block

(* The host changes only in a step that remembers what it reached.         *)
LEMMA ReachedFollowsHost ==
  ASSUME [Next]_vars
  PROVE  \/ phys' = phys /\ reached' = reached
         \/ reached' = NowReached(phys', cache')
<1> USE DEF history, shared
<1>1. CASE PowerLoss \/ Drift \/ Publish \/ UNCHANGED vars
  BY <1>1 DEF PowerLoss, Drift, Publish, vars
<1>2. ASSUME NEW p \in Procs, JournalSubmit(p) \/ AdminCall(p) \/ EnrollCall(p) \/ Abort(p)
      PROVE  phys' = phys /\ reached' = reached
  BY <1>2 DEF JournalSubmit, Submit, AdminCall, AdminSubmit, EnrollCall,
     RefreshSubmit, EnrollSubmit, Abort
<1>3. ASSUME NEW p \in Procs, ApplyStep(p)
      PROVE  (phys' = phys /\ reached' = reached) \/ reached' = NowReached(phys', cache')
  <2>1. CASE Effect(p) \/ WriteBegin(p)
    BY <2>1 DEF Effect, WriteBegin
  <2> QED
    BY <1>3, <2>1 DEF ApplyStep, Authorize, PlanStep, Resolve, Refuse, CreateScope,
       WriteScope, SyncScope, CreateBegin, SyncBegin, ReadBack,
       CreateTerminal, WriteTerminal, SyncTerminal, UnlockScope, SyncUnlock
<1>4. ASSUME NEW p \in Procs, AdminStep(p)
      PROVE  (phys' = phys /\ reached' = reached) \/ reached' = NowReached(phys', cache')
  BY <1>4 DEF AdminStep, AdminAuthorize, AdminRecheck, AdminRefuse,
     CreatePending, WritePending, SyncPending, SpawnAndWait, CreateResult,
     WriteResult, SyncResult, ClearPending, SyncClear
<1>5. ASSUME NEW p \in Procs, EnrollStep(p) PROVE phys' = phys /\ reached' = reached
  BY <1>5 DEF EnrollStep, RenameTrust, SyncTrust, CheckBinary, RenameBinary, SyncBinary
<1> QED
  BY <1>1, <1>2, <1>3, <1>4, <1>5 DEF Next, ProcStep, JournalStep, AdminProgress

(* A step that leaves the BEGINs and the VERIFIED records alone, and after *)
(* which no process is past its checks.                                    *)
LEMMA QuietResult ==
  ASSUME ResultInv, [Next]_vars,
         \A f \in JournalFiles : Kept(f),
         \A q \in Procs : pc'[q] \notin PlannedLabels
  PROVE  ResultInv'
<1>1. reached \subseteq reached'
  BY ReachedFollowsHost, ReachedByNow
<1>2. ReachedKept'
  BY ReachedFollowsHost, ReachedByNow, FilesExist DEF ResultInv, ReachedKept, Converged, Kept
<1>3. VerifiedKept'
  BY <1>1, FilesExist DEF ResultInv, VerifiedKept, Kept, Terminals
<1>4. SubjectReached'
  BY DEF SubjectReached, PlannedLabels, ApplyLabels
<1> QED
  BY <1>2, <1>3, <1>4 DEF ResultInv

(* One step of a signed host operation.                                    *)
LEMMA ApplyStepResult ==
  ASSUME Typed, Exclusive, Accepted, JournalInv, ResultInv, [Next]_vars,
         NEW p \in Procs, ApplyStep(p)
  PROVE  ResultInv'
<1>1. reached \subseteq reached'
  BY ReachedFollowsHost, ReachedByNow
<1>2. ASSUME NEW l \in {"authorized", "idle"}, Goto(p, l), pc[p] # "idle",
             UNCHANGED <<cache, disk>> \/ SyncDirectory
      PROVE  ResultInv'
  <2>1. \A q \in Procs : pc'[q] \notin PlannedLabels
    BY <1>2, OneProcess DEF PlannedLabels, ApplyLabels
  <2>2. \A g \in JournalFiles : Kept(g)
    BY <1>2, FileOperations, FilesExist, NamesAssumption DEF Typed
  <2> QED
    BY <2>1, <2>2, QuietResult
<1>3. CASE Authorize(p) \/ Refuse(p)
  BY <1>2, <1>3 DEF Authorize, Refuse, Exit, shared
<1>4. CASE PlanStep(p)
  <2>1. pc'[p] = "scopeCreate" /\ \A q \in Procs : pc'[q] # "idle" => q = p
    BY <1>4, OneProcess DEF PlanStep
  <2>2. UNCHANGED <<cache, disk, phys, reached, op>> /\ pc[p] = "authorized"
    BY <1>4 DEF PlanStep, shared, history
  <2>3. ReachedKept' /\ VerifiedKept'
    BY <2>2 DEF ResultInv, ReachedKept, VerifiedKept, Converged
  <2>4. step'[p] = "Stop" => RunOf[SourceOf[op[p]]] = "Stopped"
    <3>1. step'[p] = PlanFor(p).step
      BY <1>4 DEF PlanStep, Typed, TypeOK
    <3>2. PlanFor(p).step = "Stop" => TargetHost(trust).run = "Stopped"
      BY StopPlansStoppedTarget DEF PlanFor
    <3>3. TargetHost(trust).run = RunOf[SourceOf[op[p]]]
      BY <2>2 DEF TargetHost, Accepted, ApplyLabels
    <3> QED
      BY <3>1, <3>2, <3>3
  <2>5. SubjectReached'
    BY <2>1, <2>2, <2>4 DEF SubjectReached, PlannedLabels, ApplyLabels
  <2> QED
    BY <2>3, <2>5 DEF ResultInv
<1>5. CASE Resolve(p)
  <2>1. pc'[p] \in {"unlock", "termCreate"} /\ \A q \in Procs : pc'[q] # "idle" => q = p
    BY <1>5, OneProcess DEF Resolve
  <2>2. UNCHANGED <<cache, disk, phys, reached, op>> /\ pc[p] = "authorized"
    BY <1>5 DEF Resolve, shared, history
  <2>3. ReachedKept' /\ VerifiedKept'
    BY <2>2 DEF ResultInv, ReachedKept, VerifiedKept, Converged
  <2>4. subj'[p] = Original(p) /\ step'[p] = "Noop" /\ tname'[p] = Verdict(p).terminal
    BY <1>5 DEF Resolve, Typed, TypeOK
  <2>5. Verdict(p).terminal = "verified" => Original(p) \in reached
    <3>1. /\ Original(p) \in Ops /\ cache[Begin(Original(p))] = "authorized"
          /\ VerdictProven(p) /\ SourceOf[op[p]] = trust
      BY <1>5, <2>2 DEF Resolve, MayResolve, OriginalBegun, Accepted, ApplyLabels
    <3>2. Verdict(p).terminal = "verified" => ~Incomplete(p)
      BY DEF Verdict
    <3>3. ~Incomplete(p) => Converged(Original(p), phys)
      BY <3>1 DEF VerdictProven, ReadOnlyConverged, Incomplete, Converged
    <3> QED
      BY <3>1, <3>2, <3>3 DEF ResultInv, ReachedKept
  <2>6. SubjectReached'
    BY <2>1, <2>2, <2>4, <2>5 DEF SubjectReached, PlannedLabels, ApplyLabels
  <2> QED
    BY <2>3, <2>6 DEF ResultInv
<1>6. ASSUME pc[p] \in PlannedLabels, UNCHANGED <<local, phys, reached>>,
             NEW f \in {ScopeFile(p), Begin(op[p])},
             NEW l \in PlannedLabels \ {"effect", "readback", "termCreate", "termWrite"},
             Goto(p, l),
             CreateNew(f) \/ RemoveFile(f) \/ SyncAll(f) \/ WriteAll(f, op[p])
      PROVE  ResultInv'
  <2>1. pc'[p] = l /\ \A q \in Procs : pc'[q] # "idle" => q = p
    BY <1>6, OneProcess DEF PlannedLabels, ApplyLabels
  <2>2. /\ \A g \in Files \ {f} : Kept(g)
        /\ cache'[f] \in {"torn", "absent", cache[f], op[p]}
    BY <1>6, OwnFiles, FileOperations DEF Typed
  <2>3. \A o \in Ops : cache'[Begin(o)] = "authorized" => cache[Begin(o)] = "authorized"
    <3>1. op[p] # "authorized"
      BY <1>6, OwnFiles, ContentsAssumption DEF Marks
    <3> QED
      BY <2>2, <3>1, FilesExist DEF Kept
  <2>4. ReachedKept'
    BY <1>6, <2>3 DEF ResultInv, ReachedKept, Converged
  <2>5. VerifiedKept'
    BY <1>6, <2>2, OwnFiles, FilesExist, FileNames DEF ResultInv, VerifiedKept, Kept, Terminals, ScopeFile
  <2>6. SubjectReached'
    BY <1>6, <2>1 DEF ResultInv, SubjectReached, local, PlannedLabels, ApplyLabels
  <2> QED
    BY <2>4, <2>5, <2>6 DEF ResultInv
<1>7. CASE CreateScope(p) \/ WriteScope(p) \/ SyncScope(p) \/ CreateBegin(p) \/ UnlockScope(p)
  BY <1>6, <1>7 DEF CreateScope, WriteScope, SyncScope, CreateBegin, UnlockScope,
     history, PlannedLabels, ApplyLabels
<1>8. CASE WriteBegin(p)
  <2>1. pc'[p] = "beginSync" /\ \A q \in Procs : pc'[q] # "idle" => q = p
    BY <1>8, OneProcess DEF WriteBegin
  <2>2. pc[p] \in PlannedLabels
    BY <1>8 DEF WriteBegin, PlannedLabels, ApplyLabels
  <2>3. \A g \in Files \ {Begin(op[p])} : Kept(g)
    BY <1>8, <2>2, OwnFiles, FileOperations DEF Typed, WriteBegin
  <2>4. phys' = phys /\ reached' = NowReached(phys', cache')
    BY <1>8 DEF WriteBegin
  <2>5. ReachedKept'
    BY <2>4, ReachedByNow DEF ReachedKept, Converged
  <2>6. VerifiedKept'
    BY <1>1, <2>2, <2>3, FilesExist, FileNames DEF ResultInv, VerifiedKept, Kept, Terminals
  <2>7. SubjectReached'
    BY <1>8, <2>1, <2>2 DEF WriteBegin, ResultInv, SubjectReached, local, PlannedLabels, ApplyLabels
  <2> QED
    BY <2>5, <2>6, <2>7 DEF ResultInv
<1>9. CASE SyncBegin(p)
  <2>1. pc'[p] \in {"termCreate", "effect"} /\ \A q \in Procs : pc'[q] # "idle" => q = p
    BY <1>9, OneProcess DEF SyncBegin
  <2>2. pc[p] \in PlannedLabels
    BY <1>9 DEF SyncBegin, PlannedLabels, ApplyLabels
  <2>3. (\A g \in Files \ {Begin(op[p])} : Kept(g)) /\ cache' = cache
    BY <1>9, <2>2, OwnFiles, FileOperations DEF Typed, SyncBegin
  <2>4. UNCHANGED <<phys, reached, op, step>> /\ subj'[p] = op[p] /\ tname'[p] = "observed"
    BY <1>9 DEF SyncBegin, history, Typed, TypeOK
  <2>5. ReachedKept'
    BY <2>3, <2>4 DEF ResultInv, ReachedKept, Converged
  <2>6. VerifiedKept'
    BY <1>1, <2>2, <2>3, FilesExist, FileNames DEF ResultInv, VerifiedKept, Kept, Terminals
  <2>7. SubjectReached'
    BY <2>1, <2>2, <2>4 DEF ResultInv, SubjectReached, PlannedLabels, ApplyLabels
  <2> QED
    BY <2>5, <2>6, <2>7 DEF ResultInv
<1>10. CASE Effect(p)
  <2>1. pc'[p] = "readback" /\ \A q \in Procs : pc'[q] # "idle" => q = p
    BY <1>10, OneProcess DEF Effect
  <2>2. UNCHANGED <<cache, disk, subj, op, step>> /\ reached' = NowReached(phys', cache')
    BY <1>10 DEF Effect, local
  <2>3. ReachedKept' /\ VerifiedKept'
    BY <1>1, <2>2, ReachedByNow DEF ResultInv, ReachedKept, VerifiedKept, Converged
  <2>4. SubjectReached'
    BY <1>10, <2>1, <2>2 DEF Effect, ResultInv, SubjectReached, PlannedLabels, ApplyLabels
  <2> QED
    BY <2>3, <2>4 DEF ResultInv
<1>11. CASE ReadBack(p)
  <2>1. pc'[p] = "termCreate" /\ \A q \in Procs : pc'[q] # "idle" => q = p
    BY <1>11, OneProcess DEF ReadBack
  <2>2. UNCHANGED <<cache, disk, subj, op, step, phys, reached>> /\ pc[p] = "readback"
    BY <1>11 DEF ReadBack, shared, history
  <2>3. ReachedKept' /\ VerifiedKept'
    BY <2>2 DEF ResultInv, ReachedKept, VerifiedKept, Converged
  <2>4. op[p] \in Ops /\ subj[p] = op[p] /\ SourceOf[op[p]] = trust
    BY <2>2 DEF Typed, Bound, ApplyLabels, ResultInv, SubjectReached, Accepted
  <2>5. step[p] = "Stop" => RunOf[trust] = "Stopped"
    BY <2>2, <2>4 DEF ResultInv, SubjectReached, PlannedLabels, ApplyLabels
  <2>6. Converged(op[p], phys)
    BY <1>11, <2>4, <2>5 DEF ReadBack, MayFinish, PoststateProven, Converged
  <2>7. op[p] \in reached
    BY <1>11, <2>4, <2>6 DEF ReadBack, MayFinish, ResultInv, ReachedKept
  <2>8. SubjectReached'
    BY <2>1, <2>2, <2>4, <2>5, <2>7 DEF SubjectReached, PlannedLabels, ApplyLabels
  <2> QED
    BY <2>3, <2>8 DEF ResultInv
<1>12. CASE CreateTerminal(p) \/ WriteTerminal(p) \/ SyncTerminal(p)
  <2>1. /\ pc'[p] \in {"termWrite", "termSync", "unlock"}
        /\ pc'[p] = "termWrite" => pc[p] = "termCreate"
        /\ \A q \in Procs : pc'[q] # "idle" => q = p
    BY <1>12, OneProcess DEF CreateTerminal, WriteTerminal, SyncTerminal
  <2>2. pc[p] \in PlannedLabels
    BY <1>12 DEF CreateTerminal, WriteTerminal, SyncTerminal, PlannedLabels, ApplyLabels
  <2>3. \A g \in Files \ {TermFile(p)} : Kept(g)
    BY <1>12, <2>2, OwnFiles, FileOperations DEF Typed, CreateTerminal, WriteTerminal, SyncTerminal
  <2>4. UNCHANGED <<local, phys, reached>>
    BY <1>12 DEF CreateTerminal, WriteTerminal, SyncTerminal, history
  <2>5. ReachedKept'
    BY <2>2, <2>3, <2>4, OwnFiles, FilesExist DEF ResultInv, ReachedKept, Converged, Kept
  <2>6. VerifiedKept'
    <3>1. TermFile(p) = Term(tname[p], subj[p])
      BY DEF TermFile
    <3>2. ASSUME tname[p] = "verified",
                 cache'[TermFile(p)] # "absent" \/ disk'[TermFile(p)] # "absent"
          PROVE  subj[p] \in reached
      <4>1. CASE CreateTerminal(p) \/ WriteTerminal(p)
        BY <3>2, <4>1 DEF CreateTerminal, WriteTerminal, ResultInv, SubjectReached
      <4>2. CASE SyncTerminal(p)
        <5>1. cache' = cache /\ disk'[TermFile(p)] = cache[TermFile(p)]
          BY <2>2, <4>2, OwnFiles, FileOperations DEF Typed, SyncTerminal
        <5> QED
          BY <2>2, <3>1, <3>2, <5>1, OwnFiles DEF ResultInv, VerifiedKept
      <4> QED
        BY <1>12, <4>1, <4>2
    <3> QED
      BY <2>3, <2>4, <3>1, <3>2, FilesExist, FileNames
         DEF ResultInv, VerifiedKept, Kept, Terminals
  <2>7. SubjectReached'
    BY <2>1, <2>2, <2>4 DEF ResultInv, SubjectReached, local, PlannedLabels, ApplyLabels
  <2> QED
    BY <2>5, <2>6, <2>7 DEF ResultInv
<1>13. CASE SyncUnlock(p)
  <2>1. CASE Exit(p)
    BY <1>2, <1>13, <2>1 DEF SyncUnlock, Exit
  <2>2. CASE Goto(p, "scopeCreate") /\ UNCHANGED <<local, lock>>
    <3>1. pc'[p] = "scopeCreate" /\ \A q \in Procs : pc'[q] # "idle" => q = p
      BY <1>13, <2>2, OneProcess DEF SyncUnlock
    <3>2. (\A g \in Files : Kept(g)) /\ cache' = cache /\ UNCHANGED <<phys, reached>>
      BY <1>13, FileOperations, FilesExist, NamesAssumption DEF Typed, SyncUnlock, history
    <3>3. ReachedKept' /\ VerifiedKept'
      BY <3>2, FilesExist DEF ResultInv, ReachedKept, VerifiedKept, Converged, Kept, Terminals
    <3>4. SubjectReached'
      BY <1>13, <2>2, <3>1 DEF SyncUnlock, ResultInv, SubjectReached, local,
         PlannedLabels, ApplyLabels
    <3> QED
      BY <3>3, <3>4 DEF ResultInv
  <2> QED
    BY <1>13, <2>1, <2>2 DEF SyncUnlock
<1> QED
  BY <1>3, <1>4, <1>5, <1>7, <1>8, <1>9, <1>10, <1>11, <1>12, <1>13 DEF ApplyStep

(* The other steps: an ADMIN child, a refresh, a crash, a power loss and   *)
(* drift write no BEGIN and no terminal record.                            *)
LEMMA ResultNext ==
  ASSUME Typed, Exclusive, Accepted, JournalInv, ResultInv, [Next]_vars
  PROVE  ResultInv'
<1>1. ASSUME NEW p \in Procs, AdminStep(p) PROVE ResultInv'
  <2> USE DEF AdminAuthorize, AdminRecheck, AdminRefuse, CreatePending,
          WritePending, SyncPending, SpawnAndWait, CreateResult, WriteResult,
          SyncResult, ClearPending, SyncClear
  <2>1. pc[p] \in AdminLabels
    BY <1>1 DEF AdminStep, AdminLabels
  <2>2. admin[p] \in Admins
    BY <2>1 DEF Typed, Bound
  <2>3. \A q \in Procs : pc'[q] \notin PlannedLabels
    <3>1. \E l \in AdminLabels \cup {"idle"} : Goto(p, l)
      BY <1>1 DEF AdminStep, AdminLabels, AdminExit, Exit
    <3> QED
      BY <2>1, <3>1, OneProcess DEF AdminLabels, PlannedLabels, ApplyLabels
  <2>4. \A g \in JournalFiles : Kept(g)
    <3>1. /\ Pending(admin[p]) \in Files \ JournalFiles
          /\ Result(admin[p]) \in Files \ JournalFiles /\ JournalFiles \subseteq Files
      BY <2>2, AdminFileNames, FilesExist
    <3>2. \/ UNCHANGED <<cache, disk>>
          \/ CreateNew(Pending(admin[p])) \/ \E c : WriteAll(Pending(admin[p]), c)
          \/ SyncAll(Pending(admin[p])) \/ RemoveFile(Pending(admin[p]))
          \/ CreateNew(Result(admin[p])) \/ \E c : WriteAll(Result(admin[p]), c)
          \/ SyncAll(Result(admin[p])) \/ SyncDirectory
      BY <1>1 DEF AdminStep, shared
    <3> QED
      BY <3>1, <3>2, FileOperations DEF Typed
  <2> QED
    BY <2>3, <2>4, QuietResult
<1>2. ASSUME UNCHANGED <<cache, disk>>, \A q \in Procs : pc'[q] \notin PlannedLabels
      PROVE  ResultInv'
  BY <1>2, FileOperations, FilesExist, NamesAssumption, QuietResult DEF Typed
<1>3. ASSUME NEW p \in Procs, EnrollStep(p) PROVE ResultInv'
  <2>1. \A q \in Procs : pc'[q] \notin PlannedLabels
    BY <1>3, OneProcess DEF EnrollStep, RenameTrust, SyncTrust, CheckBinary,
       RenameBinary, SyncBinary, Exit, PlannedLabels, ApplyLabels
  <2>2. UNCHANGED <<cache, disk>>
    BY <1>3 DEF EnrollStep, RenameTrust, SyncTrust, CheckBinary, RenameBinary,
       SyncBinary, shared
  <2> QED
    BY <1>2, <2>1, <2>2
<1>4. ASSUME NEW p \in Procs, JournalSubmit(p) \/ AdminCall(p) \/ EnrollCall(p) \/ Abort(p)
      PROVE  ResultInv'
  <2>1. \A q \in Procs : pc'[q] \notin PlannedLabels
    <3>1. CASE Abort(p)
      BY <3>1, OneProcess DEF Abort, AdminExit, Exit, PlannedLabels, ApplyLabels
    <3>2. CASE lock = Nobody /\ \E l \in {"locked", "adminLocked", "trustRename"} : Goto(p, l)
      BY <3>2, NamesAssumption DEF Exclusive, Goto, Typed, TypeOK, PlannedLabels, ApplyLabels
    <3> QED
      BY <1>4, <3>1, <3>2 DEF JournalSubmit, Submit, AdminCall, AdminSubmit,
         EnrollCall, EnrollSubmit, RefreshSubmit, Acquire
  <2>2. UNCHANGED <<cache, disk>>
    BY <1>4 DEF JournalSubmit, Submit, AdminCall, AdminSubmit, EnrollCall,
       EnrollSubmit, RefreshSubmit, Abort
  <2> QED
    BY <1>2, <2>1, <2>2
<1>5. CASE PowerLoss
  <2>1. reached' = NowReached(phys', cache') /\ \A q \in Procs : pc'[q] = "idle"
    BY <1>5 DEF PowerLoss
  <2>2. reached \subseteq reached' /\ ReachedKept'
    BY <2>1, ReachedByNow DEF ReachedKept, Converged
  <2>3. VerifiedKept'
    <3> SUFFICES ASSUME NEW o \in Ops,
                        \/ cache'[Term("verified", o)] # "absent"
                        \/ disk'[Term("verified", o)] # "absent"
                 PROVE  o \in reached'
      BY DEF VerifiedKept
    <3>1. Term("verified", o) \in Files
      BY FilesExist DEF Terminals
    <3>2. cache[Term("verified", o)] # "absent" \/ disk[Term("verified", o)] # "absent"
      BY <1>5, <3>1, PowerLossFiles DEF Typed
    <3> QED
      BY <2>2, <3>2 DEF ResultInv, VerifiedKept
  <2>4. SubjectReached'
    BY <2>1 DEF SubjectReached, PlannedLabels, ApplyLabels
  <2> QED
    BY <2>2, <2>3, <2>4 DEF ResultInv
<1>6. CASE Drift \/ Publish \/ UNCHANGED vars
  <2>1. UNCHANGED <<cache, disk, pc, op, subj, step, tname>>
    BY <1>6 DEF Drift, Publish, vars, shared, local
  <2>2. reached \subseteq reached'
    BY ReachedFollowsHost, ReachedByNow
  <2>3. ReachedKept'
    BY <2>1, ReachedFollowsHost, ReachedByNow DEF ResultInv, ReachedKept, Converged
  <2>4. VerifiedKept' /\ SubjectReached'
    BY <2>1, <2>2 DEF ResultInv, VerifiedKept, SubjectReached
  <2> QED
    BY <2>3, <2>4 DEF ResultInv
<1> QED
  BY <1>1, <1>3, <1>4, <1>5, <1>6, ApplyStepResult
     DEF Next, ProcStep, JournalStep, AdminProgress

(* All layers up to the results hold in every state.                       *)
LEMMA ResultSafe == Spec => []ResultInv
<1>1. Init => ResultInv
  <2> SUFFICES ASSUME Init PROVE ResultInv
    OBVIOUS
  <2>1. /\ \A p \in Procs : pc[p] = "idle"
        /\ \A f \in Files : cache[f] = "absent" /\ disk[f] = "absent"
    BY DEF Init, OwnerInit, JournalInit, JournalOwnerInit
  <2> QED
    BY <2>1, FilesExist DEF ResultInv, ReachedKept, VerifiedKept, SubjectReached,
       PlannedLabels, ApplyLabels, Terminals
<1>2. Typed /\ Exclusive /\ Accepted /\ JournalInv /\ ResultInv /\ [Next]_vars => ResultInv'
  BY ResultNext
<1> QED
  BY <1>1, <1>2, OwnerInvariant, PTL DEF Spec

(* finish_after_protected_owner_check_once and RECOVER alike: a VERIFIED   *)
(* record, durable or not, belongs to an operation whose target state the  *)
(* host was really in since its BEGIN, although the readback, the record   *)
(* and the recovery may be cut by crashes and power losses anywhere.       *)
THEOREM VerifiedIsNeverAssumed == Spec => []VerifiedWasReached
<1>1. ResultInv => VerifiedWasReached
  BY DEF ResultInv, VerifiedKept, VerifiedWasReached, Exists
<1> QED
  BY <1>1, ResultSafe, PTL
=============================================================================
