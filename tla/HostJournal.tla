----------------------------- MODULE HostJournal -----------------------------
(***************************************************************************)
(* host_journal.rs as the VM root agent drives it (host_native.rs, apply): *)
(* one signed APPLY or RECOVER is checked, planned from the owner's own    *)
(* readback, admitted by a durable resource gate and a durable BEGIN,      *)
(* executed at most once, read back, and settled by a durable terminal     *)
(* that precedes the release of the gate.  Every file operation is three   *)
(* steps (create_new, write_all, sync_all with the directory), so a crash  *)
(* can fall between any two of them.                                       *)
(*                                                                         *)
(* The kind is Vm throughout: no WindowsExecutionBinding, and the planner  *)
(* host has the mode Unspecified.                                          *)
(***************************************************************************)
EXTENDS NativeOwner

VARIABLES
  pc,      \* where each process stands
  op,      \* the operation it was called with
  subj,    \* the operation whose record it is settling
  step,    \* the planned step
  prev,    \* the release observed before the effect
  tname,   \* the terminal record being written ...
  reason,  \* ... and the typed reason it carries
  effects, \* native invocations so far, per operation
  reached, \* operations whose target state held at some time since BEGIN
  decided  \* operations a process has written a terminal record for

local   == <<op, subj, step, prev, tname, reason>>
history == <<effects, reached, decided>>

ApplyLabels ==
  {"locked", "authorized", "scopeCreate", "scopeWrite", "scopeSync",
   "beginCreate", "beginWrite", "beginSync", "effect", "readback",
   "termCreate", "termWrite", "termSync", "unlock", "unlockSync"}

Goto(p, l) == pc' = [pc EXCEPT ![p] = l]

ScopeFile(p) == Scope(ResourceOf[op[p]])

TargetHost(s) == [kind |-> "Vm", run |-> RunOf[s], mode |-> "Unspecified"]

(* The state a VERIFIED result for o claims: the run target of its source, *)
(* ready and at its release if running; a STOP keeps what was installed.   *)
Converged(o, s) ==
  LET src == SourceOf[o] IN
  /\ s.owner = RunOf[src]
  /\ s.proof = "ApplicationBundle"
  /\ s.why = "none"
  /\ RunOf[src] = "Running" => s.ready /\ s.release = ReleaseOf[src]

(* History: the begun operations whose target holds in state s.            *)
NowReached(s, files) ==
  reached \cup {o \in Ops : files[Begin(o)] = "authorized" /\ Converged(o, s)}

JournalOwnerInit ==
  /\ pc = [p \in Procs |-> "idle"]
  /\ op = [p \in Procs |-> NoOp]
  /\ subj = [p \in Procs |-> NoOp]
  /\ step = [p \in Procs |-> "Blocked"]
  /\ prev = [p \in Procs |-> NoRelease]
  /\ tname = [p \in Procs |-> "observed"]
  /\ reason = [p \in Procs |-> "NoFurtherAction"]
  /\ effects = [o \in Ops |-> 0]
  /\ reached = {}
  /\ decided = {}

(* The process returns, and its locals and its lock go with it.            *)
Exit(p) ==
  /\ Goto(p, "idle")
  /\ op' = [op EXCEPT ![p] = NoOp]
  /\ subj' = [subj EXCEPT ![p] = NoOp]
  /\ step' = [step EXCEPT ![p] = "Blocked"]
  /\ prev' = [prev EXCEPT ![p] = NoRelease]
  /\ tname' = [tname EXCEPT ![p] = "observed"]
  /\ reason' = [reason EXCEPT ![p] = "NoFurtherAction"]
  /\ Release(p)
-----------------------------------------------------------------------------
(***************************************************************************)
(* apply: take the owner lock without waiting, refuse a fresh mutation     *)
(* while any pending record exists, check trust, binary and source, and    *)
(* obtain the Worker's authorization with one POST.                        *)
(***************************************************************************)
Submit(p, o) ==
  /\ pc[p] = "idle"
  /\ Acquire(p)
  /\ Goto(p, "locked")
  /\ op' = [op EXCEPT ![p] = o]
  /\ UNCHANGED <<subj, step, prev, tname, reason, cache, disk, trust, binary,
                 phys, faults, history>>

(* Broken on purpose: any owner binary will do ...                         *)
MayAuthorizeAnyBinary(p) ==
  /\ AnyPending => ActionOf[op[p]] = "Recover"
  /\ SourceOf[op[p]] = trust

(* ... or a pending record keeps RECOVER out as well.                      *)
MayAuthorizeNoRecover(p) ==
  /\ ~AnyPending
  /\ SourceOf[op[p]] = trust
  /\ OwnerIsAccepted

MayAuthorize(p) ==
  /\ AnyPending => ActionOf[op[p]] = "Recover"
  /\ SourceOf[op[p]] = trust
  /\ OwnerIsAccepted

Authorize(p) ==
  /\ pc[p] = "locked"
  /\ MayAuthorize(p)
  /\ Goto(p, "authorized")
  /\ UNCHANGED <<local, shared, history>>

(***************************************************************************)
(* execute_after_protected_owner_check_once, up to the admission.          *)
(***************************************************************************)
(* Broken on purpose: the gates of other resources do not matter.          *)
OtherScopesIgnored(p) == TRUE

OnlyOwnScopePending(p) ==
  \A f \in PendingFiles : Exists(f) => f = ScopeFile(p)

Unused(o) == ~Exists(Begin(o))

PlanFor(p) ==
  ProposeSignedHostTransition(TargetHost(trust), phys, ActionOf[op[p]],
                              ReleaseOf[trust])

(* Broken on purpose: RECOVER may execute what it plans.                   *)
StepAdmittedForRecover(p, s) ==
  /\ s # "Blocked"
  /\ ResourceOf[op[p]] # WholeHost => s = "ReplaceRelease"

(* The step the owner may execute: never Blocked, RECOVER only inspects,   *)
(* and a scoped intent only replaces its one resource.                     *)
StepAdmitted(p, s) ==
  /\ s # "Blocked"
  /\ ActionOf[op[p]] = "Recover" => s = "Noop"
  /\ ResourceOf[op[p]] # WholeHost => s = "ReplaceRelease"

MayPlan(p) ==
  /\ OnlyOwnScopePending(p)
  /\ Unused(op[p])
  /\ ~Exists(ScopeFile(p))
  /\ StepAdmitted(p, PlanFor(p).step)

(* A fresh readback, the plan, and for an effect the owner's own           *)
(* preflight: the operation goes on to its admission.                      *)
PlanStep(p) ==
  /\ pc[p] = "authorized"
  /\ MayPlan(p)
  /\ step' = [step EXCEPT ![p] = PlanFor(p).step]
  /\ prev' = [prev EXCEPT ![p] = phys.release]
  /\ subj' = [subj EXCEPT ![p] = op[p]]
  /\ Goto(p, "scopeCreate")
  /\ UNCHANGED <<op, tname, reason, shared, history>>

(***************************************************************************)
(* resolve_pending_native_recovery_once: a RECOVER that finds its scope    *)
(* pending adjudicates the operation that left it, from a fresh readback.  *)
(***************************************************************************)
Original(p) == cache[ScopeFile(p)]

(* Broken on purpose: the gate alone is taken for the operation.           *)
OriginalGated(p) ==
  /\ Original(p) \in Ops
  /\ Original(p) # op[p]

OriginalBegun(p) ==
  /\ Original(p) \in Ops
  /\ Original(p) # op[p]
  /\ cache[Begin(Original(p))] = "authorized"

(* Broken on purpose: the old operation may be of another source.          *)
IncompleteAnySource(p) ==
  \/ phys.release # ReleaseOf[trust]
  \/ phys.owner = "Running" /\ ~phys.ready /\ KnownRuntimeOnlyReasons(phys)

(* The old operation cannot be verified: its source is not the current     *)
(* one, another release is installed, or its datapath is still degraded.   *)
Incomplete(p) ==
  \/ SourceOf[Original(p)] # SourceOf[op[p]]
  \/ phys.release # ReleaseOf[trust]
  \/ phys.owner = "Running" /\ ~phys.ready /\ KnownRuntimeOnlyReasons(phys)

(* verify_historical_partial_recovery_state *)
KnownHistoricalBaseline ==
  /\ RunOf[trust] = "Running"
  /\ \/ phys.owner = "Running" /\ KnownRuntimeOnlyReasons(phys)
     \/ KnownPartialBaseline(TargetHost(trust), phys)
  /\ phys.proof = "ApplicationBundle"
  /\ phys.release = ReleaseOf[trust] => ~phys.ready /\ KnownRuntimeOnlyReasons(phys)

(* verify_read_only_recovery_state *)
ReadOnlyConverged ==
  /\ phys.why = "none"
  /\ phys.proof = "ApplicationBundle"
  /\ phys.owner = RunOf[trust]
  /\ RunOf[trust] = "Running" => phys.ready /\ phys.release = ReleaseOf[trust]

ReadOnlyReason ==
  IF RunOf[trust] = "Running" THEN "RecoveredNativeRunning"
  ELSE IF phys.release = ReleaseOf[trust] THEN "RecoveredNativeStopped"
  ELSE "StoppedReleaseDriftRequiresInstallTarget"

(* The terminal and the reason the readback allows for the old operation.  *)
Verdict(p) ==
  IF Incomplete(p)
  THEN [terminal |-> "incomplete", reason |-> "HistoricalPartialRequiresFreshApply"]
  ELSE [terminal |-> "verified", reason |-> ReadOnlyReason]

VerdictProven(p) ==
  IF Incomplete(p)
  THEN ActionOf[Original(p)] = "Apply" /\ KnownHistoricalBaseline
  ELSE ReadOnlyConverged

OppositeTerminal(t) == IF t = "incomplete" THEN "verified" ELSE "incomplete"

(* Broken on purpose: the opposite terminal is not looked for.             *)
TerminalAgreesOneSided(p) ==
  cache[Term(Verdict(p).terminal, Original(p))] \in {"absent", Verdict(p).reason}

(* A terminal of the same name must carry exactly this verdict.            *)
TerminalAgrees(p) ==
  LET v == Verdict(p) IN
  /\ ~Exists(Term(OppositeTerminal(v.terminal), Original(p)))
  /\ cache[Term(v.terminal, Original(p))] \in {"absent", v.reason}

MayResolve(p) ==
  /\ OnlyOwnScopePending(p)
  /\ Unused(op[p])
  /\ Exists(ScopeFile(p))
  /\ ActionOf[op[p]] = "Recover"
  /\ OriginalBegun(p)
  /\ VerdictProven(p)
  /\ TerminalAgrees(p)

(* A stored terminal only needs its gate removed; otherwise it is written. *)
Resolve(p) ==
  /\ pc[p] = "authorized"
  /\ MayResolve(p)
  /\ subj' = [subj EXCEPT ![p] = Original(p)]
  /\ tname' = [tname EXCEPT ![p] = Verdict(p).terminal]
  /\ reason' = [reason EXCEPT ![p] = Verdict(p).reason]
  /\ step' = [step EXCEPT ![p] = "Noop"]
  /\ Goto(p, IF Exists(Term(Verdict(p).terminal, Original(p)))
             THEN "unlock" ELSE "termCreate")
  /\ UNCHANGED <<op, prev, shared, history>>

(***************************************************************************)
(* admit_after_protected_owner_check_once: the gate of the resource, then  *)
(* the BEGIN of the operation, each durable before the next step.          *)
(***************************************************************************)
MayAdmit(p) == Unused(op[p]) /\ ~Exists(ScopeFile(p))

CreateScope(p) ==
  /\ pc[p] = "scopeCreate"
  /\ MayAdmit(p)
  /\ CreateNew(ScopeFile(p))
  /\ Goto(p, "scopeWrite")
  /\ UNCHANGED <<local, lock, trust, binary, phys, faults, history>>

(* Broken on purpose: the gate names its resource, not its operation.      *)
WriteScopeResource(p) ==
  /\ pc[p] = "scopeWrite"
  /\ WriteAll(ScopeFile(p), ResourceOf[op[p]])
  /\ Goto(p, "scopeSync")
  /\ UNCHANGED <<local, lock, trust, binary, phys, faults, history>>

WriteScope(p) ==
  /\ pc[p] = "scopeWrite"
  /\ WriteAll(ScopeFile(p), op[p])
  /\ Goto(p, "scopeSync")
  /\ UNCHANGED <<local, lock, trust, binary, phys, faults, history>>

(* Broken on purpose: the gate is written but never synced.                *)
SyncScopeNot(p) ==
  /\ pc[p] = "scopeSync"
  /\ Goto(p, "beginCreate")
  /\ UNCHANGED <<local, shared, history>>

SyncScope(p) ==
  /\ pc[p] = "scopeSync"
  /\ SyncAll(ScopeFile(p))
  /\ Goto(p, "beginCreate")
  /\ UNCHANGED <<local, lock, trust, binary, phys, faults, history>>

CreateBegin(p) ==
  /\ pc[p] = "beginCreate"
  /\ CreateNew(Begin(op[p]))
  /\ Goto(p, "beginWrite")
  /\ UNCHANGED <<local, lock, trust, binary, phys, faults, history>>

WriteBegin(p) ==
  /\ pc[p] = "beginWrite"
  /\ WriteAll(Begin(op[p]), "authorized")
  /\ reached' = NowReached(phys, cache')
  /\ Goto(p, "beginSync")
  /\ UNCHANGED <<local, lock, trust, binary, phys, faults, effects, decided>>

(* A NOOP, and the RECOVER intent itself, settle as OBSERVED at once; any  *)
(* other step goes on to its single native invocation.                     *)
SyncBegin(p) ==
  /\ pc[p] = "beginSync"
  /\ SyncAll(Begin(op[p]))
  /\ subj' = [subj EXCEPT ![p] = op[p]]
  /\ tname' = [tname EXCEPT ![p] = "observed"]
  /\ Goto(p, IF step[p] = "Noop" THEN "termCreate" ELSE "effect")
  /\ UNCHANGED <<op, step, prev, reason, lock, trust, binary, phys, faults,
                 history>>

(***************************************************************************)
(* apply_once: the one native invocation.  What it leaves behind, complete *)
(* or not, is some state of the host; an error return is an Abort.         *)
(***************************************************************************)
Effect(p) ==
  /\ pc[p] = "effect"
  /\ effects' = [effects EXCEPT ![op[p]] = @ + 1]
  /\ phys' \in HostStates
  /\ reached' = NowReached(phys', cache)
  /\ Goto(p, "readback")
  /\ UNCHANGED <<local, cache, disk, lock, trust, binary, faults, decided>>

(* Broken on purpose: a running owner need not be ready.                   *)
PoststateUnready(p) ==
  /\ phys.proof = "ApplicationBundle"
  /\ phys.release = (IF step[p] = "Stop" THEN prev[p] ELSE ReleaseOf[trust])
  /\ phys.owner = RunOf[trust]

(***************************************************************************)
(* finish_after_protected_owner_check_once: the gate and BEGIN must still  *)
(* be this operation's, and a fresh readback must show the poststate.      *)
(***************************************************************************)
PoststateProven(p) ==
  /\ phys.why = "none"
  /\ phys.proof = "ApplicationBundle"
  /\ phys.release = (IF step[p] = "Stop" THEN prev[p] ELSE ReleaseOf[trust])
  /\ phys.owner = RunOf[trust]
  /\ RunOf[trust] = "Running" => phys.ready

MayFinish(p) ==
  /\ cache[ScopeFile(p)] = op[p]
  /\ cache[Begin(op[p])] = "authorized"
  /\ PoststateProven(p)

ReadBack(p) ==
  /\ pc[p] = "readback"
  /\ MayFinish(p)
  /\ tname' = [tname EXCEPT ![p] = "verified"]
  /\ reason' = [reason EXCEPT ![p] =
       IF step[p] = "Stop" /\ prev[p] # ReleaseOf[trust]
       THEN "StoppedReleaseDriftRequiresInstallTarget" ELSE "NoFurtherAction"]
  /\ Goto(p, "termCreate")
  /\ UNCHANGED <<op, subj, step, prev, shared, history>>

(***************************************************************************)
(* store_native_terminal_and_unlock_once: the result is durable before the *)
(* gate it belongs to is removed.                                          *)
(***************************************************************************)
TermFile(p) == Term(tname[p], subj[p])

MayStore(p) ==
  /\ cache[ScopeFile(p)] = subj[p]
  /\ ~Exists(TermFile(p))

CreateTerminal(p) ==
  /\ pc[p] = "termCreate"
  /\ MayStore(p)
  /\ CreateNew(TermFile(p))
  /\ Goto(p, "termWrite")
  /\ UNCHANGED <<local, lock, trust, binary, phys, faults, history>>

WriteTerminal(p) ==
  /\ pc[p] = "termWrite"
  /\ WriteAll(TermFile(p), reason[p])
  /\ decided' = decided \cup {subj[p]}
  /\ Goto(p, "termSync")
  /\ UNCHANGED <<local, lock, trust, binary, phys, faults, effects, reached>>

SyncTerminal(p) ==
  /\ pc[p] = "termSync"
  /\ SyncAll(TermFile(p))
  /\ Goto(p, "unlock")
  /\ UNCHANGED <<local, lock, trust, binary, phys, faults, history>>

UnlockScope(p) ==
  /\ pc[p] = "unlock"
  /\ RemoveFile(ScopeFile(p))
  /\ Goto(p, "unlockSync")
  /\ UNCHANGED <<local, lock, trust, binary, phys, faults, history>>

(* The operation the process was called with is done; a RECOVER that has   *)
(* settled an older one now admits its own intent.                         *)
SyncUnlock(p) ==
  /\ pc[p] = "unlockSync"
  /\ SyncDirectory
  /\ \/ /\ subj[p] = op[p]
        /\ Exit(p)
     \/ /\ subj[p] # op[p]
        /\ Goto(p, "scopeCreate")
        /\ UNCHANGED <<local, lock>>
  /\ UNCHANGED <<trust, binary, phys, faults, history>>

(* Every error return: a guard of the code does not hold.  What was        *)
(* written stays as it is, the gate included.                              *)
Refuse(p) ==
  /\ \/ pc[p] = "locked" /\ ~MayAuthorize(p)
     \/ pc[p] = "authorized" /\ ~MayPlan(p) /\ ~MayResolve(p)
     \/ pc[p] = "scopeCreate" /\ ~MayAdmit(p)
     \/ pc[p] = "beginCreate" /\ Exists(Begin(op[p]))
     \/ pc[p] = "readback" /\ ~MayFinish(p)
     \/ pc[p] = "termCreate" /\ ~MayStore(p)
  /\ Exit(p)
  /\ UNCHANGED <<cache, disk, trust, binary, phys, faults, history>>

ApplyStep(p) ==
  \/ Authorize(p) \/ PlanStep(p) \/ Resolve(p) \/ Refuse(p)
  \/ CreateScope(p) \/ WriteScope(p) \/ SyncScope(p)
  \/ CreateBegin(p) \/ WriteBegin(p) \/ SyncBegin(p)
  \/ Effect(p) \/ ReadBack(p)
  \/ CreateTerminal(p) \/ WriteTerminal(p) \/ SyncTerminal(p)
  \/ UnlockScope(p) \/ SyncUnlock(p)
=============================================================================
