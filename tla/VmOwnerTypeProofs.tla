-------------------------- MODULE VmOwnerTypeProofs --------------------------
(***************************************************************************)
(* Layers 1 and 2 of the invariant of VmOwner: types, and the sequence the *)
(* owner lock forces.                                                      *)
(***************************************************************************)
EXTENDS VmOwnerInv, TLAPS

(* A directory sync leaves contents on disk.                               *)
LEMMA EntriesSyncedType ==
  ASSUME cache \in [Files -> Contents], disk \in [Files -> Contents]
  PROVE  EntriesSynced \in [Files -> Contents]
  BY DEF EntriesSynced, Contents, Marks

(* The planner only proposes steps.                                        *)
LEMMA PlanStepType ==
  ASSUME NEW h, NEW o, NEW a, NEW exp
  PROVE  ProposeSignedHostTransition(h, o, a, exp).step \in Steps
  BY DEF ProposeSignedHostTransition, ProposeHostTransition, AbsentPlan,
     InstalledPlan, StoppedTargetPlan, RunningTargetPlan, Plan, Block, Steps

(* The release a host state shows is a release or none.                    *)
LEMMA HostStateType ==
  ASSUME NEW s \in HostStates
  PROVE  s.release \in Releases \cup {NoRelease}
  BY HostStatesAssumption DEF VmStates, Observations

(* The owner starts with typed state and no operation under way.           *)
LEMMA TypedInit == Init => Typed
  BY NamesAssumption, SourceAssumption, IntentAssumption
     DEF Init, OwnerInit, JournalInit, EnrollInit, JournalOwnerInit, AdminInit,
         Typed, TypeOK, Bound, Contents, Marks, Labels, Steps, Terminals,
         ResultReasons, ApplyLabels, PlannedLabels, AdminLabels, EnrollLabels, Sources

(* Every step of every handler keeps the types, and a process that moves   *)
(* on from submission keeps the operation it was called with.              *)
LEMMA TypedNext == Typed /\ [Next]_vars => Typed'
<1> SUFFICES ASSUME Typed, [Next]_vars PROVE Typed'
  OBVIOUS
<1> USE DEF Typed, TypeOK, Bound, Labels, ApplyLabels, PlannedLabels, AdminLabels, EnrollLabels,
            Goto, shared, local, history, adminVars, enrollVars
<1>1. EntriesSynced \in [Files -> Contents]
  BY EntriesSyncedType
<1>2. phys.release \in Releases \cup {NoRelease}
  BY HostStateType
<1>3. \A p \in Procs : PlanFor(p).step \in Steps
  BY PlanStepType DEF PlanFor
<1>j1. ASSUME NEW p \in Procs, Authorize(p), UNCHANGED <<adminVars, enrollVars>> PROVE Typed'
  BY <1>1, <1>j1 DEF Authorize
<1>j2. ASSUME NEW p \in Procs, PlanStep(p), UNCHANGED <<adminVars, enrollVars>> PROVE Typed'
  BY <1>2, <1>3, <1>j2 DEF PlanStep
<1>j3. ASSUME NEW p \in Procs, Resolve(p), UNCHANGED <<adminVars, enrollVars>> PROVE Typed'
  BY <1>1, <1>j3 DEF Resolve, MayResolve, OriginalBegun, Original, Verdict, ReadOnlyReason, Terminals, ResultReasons, Steps
<1>j4. ASSUME NEW p \in Procs, Refuse(p), UNCHANGED <<adminVars, enrollVars>> PROVE Typed'
  BY <1>1, <1>j4 DEF Refuse, Exit, Release, Steps, Terminals, ResultReasons
<1>j5. ASSUME NEW p \in Procs, CreateScope(p), UNCHANGED <<adminVars, enrollVars>> PROVE Typed'
  BY <1>1, <1>j5 DEF CreateScope, CreateNew, Contents, Marks
<1>j6. ASSUME NEW p \in Procs, WriteScope(p), UNCHANGED <<adminVars, enrollVars>> PROVE Typed'
  BY <1>1, <1>j6 DEF WriteScope, WriteAll, Contents
<1>j7. ASSUME NEW p \in Procs, SyncScope(p), UNCHANGED <<adminVars, enrollVars>> PROVE Typed'
  BY <1>1, <1>j7 DEF SyncScope, SyncAll
<1>j8. ASSUME NEW p \in Procs, CreateBegin(p), UNCHANGED <<adminVars, enrollVars>> PROVE Typed'
  BY <1>1, <1>j8 DEF CreateBegin, CreateNew, Contents, Marks
<1>j9. ASSUME NEW p \in Procs, WriteBegin(p), UNCHANGED <<adminVars, enrollVars>> PROVE Typed'
  BY <1>1, <1>j9 DEF WriteBegin, WriteAll, NowReached, Contents, Marks
<1>j10. ASSUME NEW p \in Procs, SyncBegin(p), UNCHANGED <<adminVars, enrollVars>> PROVE Typed'
  BY <1>1, <1>j10 DEF SyncBegin, SyncAll, Terminals
<1>j11. ASSUME NEW p \in Procs, Effect(p), UNCHANGED <<adminVars, enrollVars>> PROVE Typed'
  BY <1>1, <1>j11 DEF Effect, NowReached
<1>j12. ASSUME NEW p \in Procs, ReadBack(p), UNCHANGED <<adminVars, enrollVars>> PROVE Typed'
  BY <1>1, <1>j12 DEF ReadBack, Terminals, ResultReasons
<1>j13. ASSUME NEW p \in Procs, CreateTerminal(p), UNCHANGED <<adminVars, enrollVars>> PROVE Typed'
  BY <1>1, <1>j13 DEF CreateTerminal, CreateNew, Contents, Marks
<1>j14. ASSUME NEW p \in Procs, WriteTerminal(p), UNCHANGED <<adminVars, enrollVars>> PROVE Typed'
  BY <1>1, <1>j14 DEF WriteTerminal, WriteAll, Contents
<1>j15. ASSUME NEW p \in Procs, SyncTerminal(p), UNCHANGED <<adminVars, enrollVars>> PROVE Typed'
  BY <1>1, <1>j15 DEF SyncTerminal, SyncAll
<1>j16. ASSUME NEW p \in Procs, UnlockScope(p), UNCHANGED <<adminVars, enrollVars>> PROVE Typed'
  BY <1>1, <1>j16 DEF UnlockScope, RemoveFile, Contents, Marks
<1>j17. ASSUME NEW p \in Procs, SyncUnlock(p), UNCHANGED <<adminVars, enrollVars>> PROVE Typed'
  <2>1. CASE Exit(p)
    BY <1>1, <1>j17, <2>1 DEF SyncUnlock, SyncDirectory, Exit, Release, Steps,
       Terminals, ResultReasons
  <2>2. CASE Goto(p, "scopeCreate") /\ UNCHANGED <<local, lock>>
    BY <1>1, <1>j17, <2>2 DEF SyncUnlock, SyncDirectory
  <2> QED
    BY <1>j17, <2>1, <2>2 DEF SyncUnlock
<1>a1. ASSUME NEW p \in Procs, AdminAuthorize(p), UNCHANGED enrollVars PROVE Typed'
  BY <1>1, <1>a1 DEF AdminAuthorize
<1>a2. ASSUME NEW p \in Procs, AdminRecheck(p), UNCHANGED enrollVars PROVE Typed'
  BY <1>1, <1>a2 DEF AdminRecheck
<1>a3. ASSUME NEW p \in Procs, AdminRefuse(p), UNCHANGED enrollVars PROVE Typed'
  BY <1>1, <1>a3 DEF AdminRefuse, AdminExit, Exit, Release, Steps, Terminals, ResultReasons
<1>a4. ASSUME NEW p \in Procs, CreatePending(p), UNCHANGED enrollVars PROVE Typed'
  BY <1>1, <1>a4 DEF CreatePending, CreateNew, Contents, Marks
<1>a5. ASSUME NEW p \in Procs, WritePending(p), UNCHANGED enrollVars PROVE Typed'
  BY <1>1, <1>a5 DEF WritePending, WriteAll, Contents, Marks
<1>a6. ASSUME NEW p \in Procs, SyncPending(p), UNCHANGED enrollVars PROVE Typed'
  BY <1>1, <1>a6 DEF SyncPending, SyncAll
<1>a7. ASSUME NEW p \in Procs, SpawnAndWait(p), UNCHANGED enrollVars PROVE Typed'
  BY <1>1, <1>a7 DEF SpawnAndWait, NowReached
<1>a8. ASSUME NEW p \in Procs, CreateResult(p), UNCHANGED enrollVars PROVE Typed'
  BY <1>1, <1>a8 DEF CreateResult, CreateNew, Contents, Marks
<1>a9. ASSUME NEW p \in Procs, WriteResult(p), UNCHANGED enrollVars PROVE Typed'
  BY <1>1, <1>a9 DEF WriteResult, WriteAll, Contents, Marks
<1>a10. ASSUME NEW p \in Procs, SyncResult(p), UNCHANGED enrollVars PROVE Typed'
  <2>1. CASE AdminExit(p)
    BY <1>1, <1>a10, <2>1 DEF SyncResult, SyncAll, AdminExit, Exit, Release, Steps,
       Terminals, ResultReasons
  <2>2. CASE Goto(p, "clear") /\ UNCHANGED <<local, lock, admin, whole>>
    BY <1>1, <1>a10, <2>2 DEF SyncResult, SyncAll
  <2> QED
    BY <1>a10, <2>1, <2>2 DEF SyncResult
<1>a11. ASSUME NEW p \in Procs, ClearPending(p), UNCHANGED enrollVars PROVE Typed'
  BY <1>1, <1>a11 DEF ClearPending, RemoveFile, Contents, Marks
<1>a12. ASSUME NEW p \in Procs, SyncClear(p), UNCHANGED enrollVars PROVE Typed'
  BY <1>1, <1>a12 DEF SyncClear, SyncDirectory, AdminExit, Exit, Release, Steps, Terminals, ResultReasons
<1>e1. ASSUME NEW p \in Procs, RenameTrust(p) PROVE Typed'
  BY <1>1, <1>e1 DEF RenameTrust
<1>e2. ASSUME NEW p \in Procs, SyncTrust(p) PROVE Typed'
  BY <1>1, <1>e2 DEF SyncTrust
<1>e3. ASSUME NEW p \in Procs, CheckBinary(p) PROVE Typed'
  <2>1. CASE Exit(p)
    BY <1>1, <1>e3, <2>1 DEF CheckBinary, Exit, Release, Steps,
       Terminals, ResultReasons
  <2>2. CASE Goto(p, "binaryRename") /\ UNCHANGED <<local, lock>>
    BY <1>1, <1>e3, <2>2 DEF CheckBinary
  <2> QED
    BY <1>e3, <2>1, <2>2 DEF CheckBinary
<1>e4. ASSUME NEW p \in Procs, RenameBinary(p) PROVE Typed'
  BY <1>1, <1>e4 DEF RenameBinary
<1>e5. ASSUME NEW p \in Procs, SyncBinary(p) PROVE Typed'
  BY <1>1, <1>e5 DEF SyncBinary, Exit, Release, Steps, Terminals, ResultReasons
<1>s1. ASSUME NEW p \in Procs, NEW o \in Ops, Submit(p, o), UNCHANGED <<adminVars, enrollVars>>
       PROVE  Typed'
  BY <1>s1 DEF Submit, Acquire
<1>s2. ASSUME NEW p \in Procs, NEW a \in Admins, AdminSubmit(p, a), UNCHANGED enrollVars
       PROVE  Typed'
  BY <1>s2 DEF AdminSubmit, Acquire
<1>s3. ASSUME NEW p \in Procs, NEW s \in Sources, EnrollSubmit(p, s) PROVE Typed'
  BY <1>s3 DEF EnrollSubmit, Acquire
<1>s4. ASSUME NEW p \in Procs, RefreshSubmit(p) PROVE Typed'
  BY <1>s4 DEF RefreshSubmit, Acquire
<1>f1. ASSUME NEW p \in Procs, Abort(p) PROVE Typed'
  BY <1>f1, NamesAssumption DEF Abort, Fault, AdminExit, Exit, Release, Steps,
     Terminals, ResultReasons
<1>f2. CASE PowerLoss
  <2>1. cache' \in [Files -> Contents] /\ disk' \in [Files -> Contents]
    <3>1. PICK kept \in [Dirty -> UNION {Survivors(f) : f \in Dirty}] :
            /\ \A f \in Dirty : kept[f] \in Survivors(f)
            /\ cache' = [f \in Files |-> IF f \in Dirty THEN kept[f] ELSE cache[f]]
            /\ disk' = cache'
      BY <1>f2 DEF PowerLoss
    <3>2. \A f \in Dirty : kept[f] \in Contents
      BY <3>1 DEF Dirty, Survivors, Contents, Marks
    <3> QED
      BY <3>1, <3>2
  <2>2. trust' \in Sources /\ dtrust' \in Sources /\ faults' \in 0..MaxFaults
        /\ phys' \in HostStates /\ reached' \subseteq Ops
    BY <1>f2, NamesAssumption DEF PowerLoss, Fault, NowReached
  <2> QED
    BY <1>f2, <2>1, <2>2 DEF PowerLoss, Steps, Terminals, ResultReasons
<1>f3. CASE Drift
  BY <1>f3, NamesAssumption DEF Drift, Fault, NowReached
<1>f4. CASE Publish
  BY <1>f4, NamesAssumption DEF Publish, Sources
<1>f5. CASE UNCHANGED vars
  BY <1>f5 DEF vars
<1> QED
  BY <1>j1, <1>j2, <1>j3, <1>j4, <1>j5, <1>j6, <1>j7, <1>j8, <1>j9, <1>j10, <1>j11, <1>j12, <1>j13, <1>j14, <1>j15, <1>j16, <1>j17,
     <1>a1, <1>a2, <1>a3, <1>a4, <1>a5, <1>a6, <1>a7, <1>a8, <1>a9, <1>a10, <1>a11, <1>a12,
     <1>e1, <1>e2, <1>e3, <1>e4, <1>e5,
     <1>s1, <1>s2, <1>s3, <1>s4, <1>f1, <1>f2, <1>f3, <1>f4, <1>f5
     DEF Next, ProcStep, JournalSubmit, JournalStep, AdminCall, AdminProgress,
         EnrollCall, ApplyStep, AdminStep, EnrollStep

(* Every state of the owner has its type: processes, journal files, trust  *)
(* and counters, whatever is submitted, killed or lost.                    *)
THEOREM TypeCorrect == Spec => []TypeOK
<1>1. Init => Typed
  BY TypedInit
<1>2. Typed /\ [Next]_vars => Typed'
  BY TypedNext
<1>3. Typed => TypeOK
  BY DEF Typed
<1> QED
  BY <1>1, <1>2, <1>3, PTL DEF Spec

(* Every step keeps the lock exclusive, and no refresh can replace the     *)
(* source or the binary under an authorized operation.                     *)
LEMMA OwnerNext == Typed /\ Exclusive /\ Accepted /\ [Next]_vars => (Exclusive /\ Accepted)'
<1> SUFFICES ASSUME Typed, Exclusive, Accepted, [Next]_vars PROVE (Exclusive /\ Accepted)'
  OBVIOUS
<1> USE NamesAssumption DEF Typed, TypeOK, Exclusive, Accepted, OwnerIsAccepted, ApplyLabels,
            Goto, shared, local, history
<1>j1. ASSUME NEW p \in Procs, Authorize(p) PROVE (Exclusive /\ Accepted)'
  BY <1>j1 DEF Authorize, MayAuthorize
<1>j2. ASSUME NEW p \in Procs, PlanStep(p) PROVE (Exclusive /\ Accepted)'
  BY <1>j2 DEF PlanStep
<1>j3. ASSUME NEW p \in Procs, Resolve(p) PROVE (Exclusive /\ Accepted)'
  BY <1>j3 DEF Resolve
<1>j4. ASSUME NEW p \in Procs, Refuse(p) PROVE (Exclusive /\ Accepted)'
  BY <1>j4 DEF Refuse, Exit, Release
<1>j5. ASSUME NEW p \in Procs, CreateScope(p) PROVE (Exclusive /\ Accepted)'
  BY <1>j5 DEF CreateScope
<1>j6. ASSUME NEW p \in Procs, WriteScope(p) PROVE (Exclusive /\ Accepted)'
  BY <1>j6 DEF WriteScope
<1>j7. ASSUME NEW p \in Procs, SyncScope(p) PROVE (Exclusive /\ Accepted)'
  BY <1>j7 DEF SyncScope
<1>j8. ASSUME NEW p \in Procs, CreateBegin(p) PROVE (Exclusive /\ Accepted)'
  BY <1>j8 DEF CreateBegin
<1>j9. ASSUME NEW p \in Procs, WriteBegin(p) PROVE (Exclusive /\ Accepted)'
  BY <1>j9 DEF WriteBegin
<1>j10. ASSUME NEW p \in Procs, SyncBegin(p) PROVE (Exclusive /\ Accepted)'
  BY <1>j10 DEF SyncBegin
<1>j11. ASSUME NEW p \in Procs, Effect(p) PROVE (Exclusive /\ Accepted)'
  BY <1>j11 DEF Effect
<1>j12. ASSUME NEW p \in Procs, ReadBack(p) PROVE (Exclusive /\ Accepted)'
  BY <1>j12 DEF ReadBack
<1>j13. ASSUME NEW p \in Procs, CreateTerminal(p) PROVE (Exclusive /\ Accepted)'
  BY <1>j13 DEF CreateTerminal
<1>j14. ASSUME NEW p \in Procs, WriteTerminal(p) PROVE (Exclusive /\ Accepted)'
  BY <1>j14 DEF WriteTerminal
<1>j15. ASSUME NEW p \in Procs, SyncTerminal(p) PROVE (Exclusive /\ Accepted)'
  BY <1>j15 DEF SyncTerminal
<1>j16. ASSUME NEW p \in Procs, UnlockScope(p) PROVE (Exclusive /\ Accepted)'
  BY <1>j16 DEF UnlockScope
<1>j17. ASSUME NEW p \in Procs, SyncUnlock(p) PROVE (Exclusive /\ Accepted)'
  BY <1>j17 DEF SyncUnlock, Exit, Release
<1>a1. ASSUME NEW p \in Procs, AdminAuthorize(p) PROVE (Exclusive /\ Accepted)'
  BY <1>a1 DEF AdminAuthorize
<1>a2. ASSUME NEW p \in Procs, AdminRecheck(p) PROVE (Exclusive /\ Accepted)'
  BY <1>a2 DEF AdminRecheck
<1>a3. ASSUME NEW p \in Procs, AdminRefuse(p) PROVE (Exclusive /\ Accepted)'
  BY <1>a3 DEF AdminRefuse, AdminExit, Exit, Release
<1>a4. ASSUME NEW p \in Procs, CreatePending(p) PROVE (Exclusive /\ Accepted)'
  BY <1>a4 DEF CreatePending
<1>a5. ASSUME NEW p \in Procs, WritePending(p) PROVE (Exclusive /\ Accepted)'
  BY <1>a5 DEF WritePending
<1>a6. ASSUME NEW p \in Procs, SyncPending(p) PROVE (Exclusive /\ Accepted)'
  BY <1>a6 DEF SyncPending
<1>a7. ASSUME NEW p \in Procs, SpawnAndWait(p) PROVE (Exclusive /\ Accepted)'
  BY <1>a7 DEF SpawnAndWait
<1>a8. ASSUME NEW p \in Procs, CreateResult(p) PROVE (Exclusive /\ Accepted)'
  BY <1>a8 DEF CreateResult
<1>a9. ASSUME NEW p \in Procs, WriteResult(p) PROVE (Exclusive /\ Accepted)'
  BY <1>a9 DEF WriteResult
<1>a10. ASSUME NEW p \in Procs, SyncResult(p) PROVE (Exclusive /\ Accepted)'
  BY <1>a10 DEF SyncResult, AdminExit, Exit, Release
<1>a11. ASSUME NEW p \in Procs, ClearPending(p) PROVE (Exclusive /\ Accepted)'
  BY <1>a11 DEF ClearPending
<1>a12. ASSUME NEW p \in Procs, SyncClear(p) PROVE (Exclusive /\ Accepted)'
  BY <1>a12 DEF SyncClear, AdminExit, Exit, Release
<1>e1. ASSUME NEW p \in Procs, RenameTrust(p) PROVE (Exclusive /\ Accepted)'
  BY <1>e1 DEF RenameTrust
<1>e2. ASSUME NEW p \in Procs, SyncTrust(p) PROVE (Exclusive /\ Accepted)'
  BY <1>e2 DEF SyncTrust
<1>e3. ASSUME NEW p \in Procs, CheckBinary(p) PROVE (Exclusive /\ Accepted)'
  BY <1>e3 DEF CheckBinary, Exit, Release
<1>e4. ASSUME NEW p \in Procs, RenameBinary(p) PROVE (Exclusive /\ Accepted)'
  BY <1>e4 DEF RenameBinary
<1>e5. ASSUME NEW p \in Procs, SyncBinary(p) PROVE (Exclusive /\ Accepted)'
  BY <1>e5 DEF SyncBinary, Exit, Release
<1>s1. ASSUME NEW p \in Procs, NEW o \in Ops, Submit(p, o) PROVE (Exclusive /\ Accepted)'
  BY <1>s1 DEF Submit, Acquire
<1>s2. ASSUME NEW p \in Procs, NEW a \in Admins, AdminSubmit(p, a) PROVE (Exclusive /\ Accepted)'
  BY <1>s2 DEF AdminSubmit, Acquire
<1>s3. ASSUME NEW p \in Procs, NEW s \in Sources, EnrollSubmit(p, s) PROVE (Exclusive /\ Accepted)'
  BY <1>s3 DEF EnrollSubmit, Acquire
<1>s4. ASSUME NEW p \in Procs, RefreshSubmit(p) PROVE (Exclusive /\ Accepted)'
  BY <1>s4 DEF RefreshSubmit, Acquire
<1>f1. ASSUME NEW p \in Procs, Abort(p) PROVE (Exclusive /\ Accepted)'
  BY <1>f1 DEF Abort, AdminExit, Exit, Release
<1>f2. CASE PowerLoss
  BY <1>f2 DEF PowerLoss
<1>f3. CASE Drift
  BY <1>f3 DEF Drift
<1>f4. CASE Publish
  BY <1>f4 DEF Publish
<1>f5. CASE UNCHANGED vars
  BY <1>f5 DEF vars
<1> QED
  BY <1>j1, <1>j2, <1>j3, <1>j4, <1>j5, <1>j6, <1>j7, <1>j8, <1>j9, <1>j10, <1>j11, <1>j12, <1>j13, <1>j14, <1>j15, <1>j16, <1>j17,
     <1>a1, <1>a2, <1>a3, <1>a4, <1>a5, <1>a6, <1>a7, <1>a8, <1>a9, <1>a10, <1>a11, <1>a12,
     <1>e1, <1>e2, <1>e3, <1>e4, <1>e5,
     <1>s1, <1>s2, <1>s3, <1>s4, <1>f1, <1>f2, <1>f3, <1>f4, <1>f5
     DEF Next, ProcStep, JournalSubmit, JournalStep, AdminCall, AdminProgress,
         EnrollCall, ApplyStep, AdminStep, EnrollStep

(* Layers 1 and 2 hold in every reachable state.                           *)
LEMMA OwnerSafe == Spec => [](Typed /\ Exclusive /\ Accepted)
<1>1. Init => Typed /\ Exclusive /\ Accepted
  BY TypedInit, NamesAssumption DEF Init, OwnerInit, JournalOwnerInit,
     Exclusive, Accepted, ApplyLabels
<1>2. Typed /\ Exclusive /\ Accepted /\ [Next]_vars => (Typed /\ Exclusive /\ Accepted)'
  BY TypedNext, OwnerNext
<1> QED
  BY <1>1, <1>2, PTL DEF Spec

(* The only step that invokes a native effect is Effect, and the only one  *)
(* that spawns an ADMIN child is SpawnAndWait.                             *)
LEMMA OnlyEffectRuns ==
  ASSUME [Next]_vars
  PROVE  \/ effects' = effects /\ spawns' = spawns
         \/ \E p \in Procs : Effect(p) /\ spawns' = spawns
         \/ \E p \in Procs : SpawnAndWait(p) /\ effects' = effects
<1> USE DEF history, adminVars
<1>1. CASE PowerLoss \/ Drift \/ Publish \/ UNCHANGED vars
  BY <1>1 DEF PowerLoss, Drift, Publish, vars
<1>2. ASSUME NEW p \in Procs, JournalSubmit(p) \/ AdminCall(p) \/ EnrollCall(p) \/ Abort(p)
      PROVE  effects' = effects /\ spawns' = spawns
  BY <1>2 DEF JournalSubmit, Submit, AdminCall, AdminSubmit, EnrollCall,
     RefreshSubmit, EnrollSubmit, Abort
<1>3. ASSUME NEW p \in Procs, ApplyStep(p) PROVE effects' = effects \/ Effect(p)
  BY <1>3 DEF ApplyStep, Authorize, PlanStep, Resolve, Refuse, CreateScope,
     WriteScope, SyncScope, CreateBegin, WriteBegin, SyncBegin, ReadBack,
     CreateTerminal, WriteTerminal, SyncTerminal, UnlockScope, SyncUnlock
<1>4. ASSUME NEW p \in Procs, AdminStep(p)
      PROVE  effects' = effects /\ (spawns' = spawns \/ SpawnAndWait(p))
  BY <1>4 DEF AdminStep, AdminAuthorize, AdminRecheck, AdminRefuse,
     CreatePending, WritePending, SyncPending, SpawnAndWait, CreateResult,
     WriteResult, SyncResult, ClearPending, SyncClear
<1>5. ASSUME NEW p \in Procs, EnrollStep(p) PROVE effects' = effects /\ spawns' = spawns
  BY <1>5 DEF EnrollStep, RenameTrust, SyncTrust, CheckBinary, RenameBinary, SyncBinary
<1> QED
  BY <1>1, <1>2, <1>3, <1>4, <1>5 DEF Next, ProcStep, JournalStep, AdminProgress

(* host_native.rs, OWNER_RELEASE_DRIFT: an effect only runs from the       *)
(* binary and the source that trust.pb accepts.  The check is made once,   *)
(* after the lock is taken; it still holds at the effect because a refresh *)
(* needs the same lock.                                                    *)
THEOREM EffectsAreAccepted == Spec => EffectUnderAcceptedSource
<1>1. Typed /\ Exclusive /\ Accepted /\ [Next]_vars =>
        [\A o \in Ops : effects'[o] # effects[o] =>
           trust = SourceOf[o] /\ binary = AgentOf[trust]]_vars
  <2> SUFFICES ASSUME Typed, Accepted, [Next]_vars,
                      NEW o \in Ops, effects'[o] # effects[o]
               PROVE  trust = SourceOf[o] /\ binary = AgentOf[trust]
    OBVIOUS
  <2>1. PICK p \in Procs : Effect(p)
    BY OnlyEffectRuns
  <2>2. op[p] = o /\ pc[p] = "effect"
    BY <2>1 DEF Effect, Typed, TypeOK
  <2> QED
    BY <2>2 DEF Accepted, OwnerIsAccepted, ApplyLabels
<1> QED
  BY <1>1, OwnerSafe, PTL DEF Spec, EffectUnderAcceptedSource
=============================================================================
