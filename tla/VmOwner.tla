------------------------------ MODULE VmOwner -------------------------------
(***************************************************************************)
(* The native owner of one VM: any number of root edge-agent processes     *)
(* running signed host operations (HostJournal), signed ADMIN commands     *)
(* (HostAdmin) and trust or binary refreshes (HostEnroll), with process    *)
(* crashes, power losses, I/O and network failures, and a host that drifts *)
(* by itself.  An operation may be submitted again at any time.            *)
(***************************************************************************)
EXTENDS HostEnroll

vars == <<shared, pc, local, history, adminVars, enrollVars>>

Init ==
  /\ OwnerInit
  /\ EnrollInit
  /\ JournalOwnerInit
  /\ AdminInit

(* A process is killed, an I/O operation fails, or GitHub, the Worker, the *)
(* clock or Docker refuses: the process ends where it stands, the files    *)
(* stay as they are, and the kernel drops the lock.                        *)
Abort(p) ==
  /\ pc[p] # "idle"
  /\ Fault
  /\ AdminExit(p)
  /\ UNCHANGED <<cache, disk, trust, binary, phys, history, spawns, enrollVars>>

(* Power is lost: all processes end and unsynced changes may be lost.      *)
PowerLoss ==
  /\ PowerMayFail
  /\ Fault
  /\ \E kept \in [Dirty -> UNION {Survivors(f) : f \in Dirty}] :
       /\ \A f \in Dirty : kept[f] \in Survivors(f)
       /\ cache' = [f \in Files |-> IF f \in Dirty THEN kept[f] ELSE cache[f]]
       /\ disk' = cache'
  /\ trust' \in {trust, dtrust} /\ dtrust' = trust'
  /\ binary' \in {binary, dbinary} /\ dbinary' = binary'
  /\ phys' \in HostStates
  /\ reached' = NowReached(phys', cache')
  /\ lock' = Nobody
  /\ pc' = [p \in Procs |-> "idle"]
  /\ op' = [p \in Procs |-> NoOp]
  /\ subj' = [p \in Procs |-> NoOp]
  /\ step' = [p \in Procs |-> "Blocked"]
  /\ prev' = [p \in Procs |-> NoRelease]
  /\ tname' = [p \in Procs |-> "observed"]
  /\ reason' = [p \in Procs |-> "NoFurtherAction"]
  /\ admin' = [p \in Procs |-> NoOp]
  /\ whole' = [p \in Procs |-> FALSE]
  /\ UNCHANGED <<effects, decided, spawns, published, want, upgrade>>

(* A container exits, a datapath breaks or heals, an operator intervenes,  *)
(* or an effect whose process died completes late.                         *)
Drift ==
  /\ Fault
  /\ phys' \in HostStates \ {phys}
  /\ reached' = NowReached(phys', cache)
  /\ UNCHANGED <<cache, disk, lock, trust, binary, pc, local, effects,
                 decided, adminVars, enrollVars>>

JournalSubmit(p) == \E o \in Ops : Submit(p, o) /\ UNCHANGED <<adminVars, enrollVars>>
JournalStep(p)   == ApplyStep(p) /\ UNCHANGED <<adminVars, enrollVars>>
AdminCall(p)     == \E a \in Admins : AdminSubmit(p, a) /\ UNCHANGED enrollVars
AdminProgress(p) == AdminStep(p) /\ UNCHANGED enrollVars
EnrollCall(p)    == RefreshSubmit(p) \/ \E s \in Sources : EnrollSubmit(p, s)

ProcStep(p) == JournalStep(p) \/ AdminProgress(p) \/ EnrollStep(p)

Next ==
  \/ \E p \in Procs : \/ JournalSubmit(p) \/ AdminCall(p) \/ EnrollCall(p)
                      \/ ProcStep(p) \/ Abort(p)
  \/ Publish \/ PowerLoss \/ Drift

Spec == Init /\ [][Next]_vars

(* A started process goes on until it returns, and an operation that a     *)
(* caller keeps submitting gets the lock again and again: no process keeps *)
(* it for ever, and the runner's submissions are not starved.              *)
FairSpec ==
  /\ Spec
  /\ \A p \in Procs : WF_vars(ProcStep(p))
  /\ \A p \in Procs, o \in Ops :
       SF_vars(Submit(p, o) /\ UNCHANGED <<adminVars, enrollVars>>)
-----------------------------------------------------------------------------
Labels == {"idle"} \cup ApplyLabels \cup AdminLabels \cup EnrollLabels

TypeOK ==
  /\ cache \in [Files -> Contents] /\ disk \in [Files -> Contents]
  /\ lock \in Procs \cup {Nobody}
  /\ trust \in Sources /\ dtrust \in Sources /\ published \in Sources
  /\ phys \in HostStates
  /\ faults \in 0..MaxFaults
  /\ pc \in [Procs -> Labels]
  /\ op \in [Procs -> Ops \cup {NoOp}] /\ subj \in [Procs -> Ops \cup {NoOp}]
  /\ step \in [Procs -> Steps]
  /\ prev \in [Procs -> Releases \cup {NoRelease}]
  /\ tname \in [Procs -> Terminals] /\ reason \in [Procs -> ResultReasons]
  /\ effects \in [Ops -> Nat] /\ reached \subseteq Ops /\ decided \subseteq Ops
  /\ admin \in [Procs -> Admins \cup {NoOp}] /\ whole \in [Procs -> BOOLEAN]
  /\ spawns \in [Admins -> Nat]
  /\ want \in [Procs -> Sources] /\ upgrade \in [Procs -> BOOLEAN]

(* The native effect of o ran, and nobody ever wrote how it ended.         *)
Unsettled(o) == effects[o] > 0 /\ o \notin decided

AdminUnsettled(a) == spawns[a] > 0 /\ disk[Result(a)] # "complete"

(* ARCHITECTURE.md, non-repeatability: whatever is replayed, killed, lost  *)
(* or recovered, apply_once runs at most once per operation ID, the root   *)
(* child of an ADMIN command is spawned at most once, and a RECOVER never  *)
(* invokes the native mutator.                                             *)
AtMostOnce ==
  /\ \A o \in Ops : effects[o] <= 1
  /\ \A a \in Admins : spawns[a] <= 1
  /\ \A o \in Ops : effects[o] > 0 => ActionOf[o] = "Apply"

(* An effect of unknown outcome keeps its gate and its BEGIN, on disk as   *)
(* well as in memory: no crash, power loss or later operation can free the *)
(* resource before a result was written.  An ADMIN command keeps its       *)
(* pending record until a complete result is durable.                      *)
UnknownKeepsGate ==
  /\ \A o \in Ops : Unsettled(o) =>
       /\ cache[Scope(ResourceOf[o])] = o /\ disk[Scope(ResourceOf[o])] = o
       /\ cache[Begin(o)] = "authorized" /\ disk[Begin(o)] = "authorized"
  /\ \A a \in Admins : AdminUnsettled(a) =>
       cache[Pending(a)] = "request" /\ disk[Pending(a)] = "request"

(* No effect and no ADMIN child starts while the outcome of another one is *)
(* unknown, across scopes, processes, crashes and the two journal paths.   *)
NoEffectOverUnknown ==
  [][/\ \A o \in Ops : effects'[o] # effects[o] =>
          /\ \A q \in Ops \ {o} : ~Unsettled(q)
          /\ \A a \in Admins : ~AdminUnsettled(a)
     /\ \A a \in Admins : spawns'[a] # spawns[a] =>
          /\ \A q \in Ops : ~Unsettled(q)
          /\ \A b \in Admins \ {a} : ~AdminUnsettled(b)]_vars

(* A VERIFIED result is never an assumption: since the operation's BEGIN   *)
(* the host was really in the state its source asks for.                   *)
VerifiedWasReached ==
  \A o \in Ops : Exists(Term("verified", o)) => o \in reached

(* As long as the power does not fail, no operation is ever classified as  *)
(* incomplete and verified as well, by RECOVER or by its own process.      *)
NoConflictingTerminals ==
  \A o \in Ops : ~(Exists(Term("verified", o)) /\ Exists(Term("incomplete", o)))

(* As long as the power does not fail, an operation that has any terminal  *)
(* record never runs its effect, even if its process was killed between    *)
(* any two file operations and RECOVER settled it.                         *)
SettledNeverRuns ==
  [][\A o \in Ops : effects'[o] # effects[o] =>
       \A t \in Terminals : ~Exists(Term(t, o))]_vars

(* An effect only runs from the binary and the source that trust.pb        *)
(* accepts, although a refresh replaces the two in two steps and may be    *)
(* cut between them.                                                       *)
EffectUnderAcceptedSource ==
  [][\A o \in Ops : effects'[o] # effects[o] =>
       trust = SourceOf[o] /\ binary = AgentOf[trust]]_vars
-----------------------------------------------------------------------------
(* The old operation o can be adjudicated: its gate is the only pending    *)
(* record, no terminal was begun, the host is where the current source     *)
(* wants it, and a RECOVER of that source has not been used yet.           *)
Recoverable(o) ==
  /\ Unsettled(o)
  /\ \A f \in PendingFiles : Exists(f) => f = Scope(ResourceOf[o])
  /\ \A t \in Terminals : ~Exists(Term(t, o))
  /\ SourceOf[o] = trust /\ OwnerIsAccepted
  /\ ReadOnlyConverged /\ phys.release = ReleaseOf[trust]
  /\ \E v \in Ops : /\ ActionOf[v] = "Recover" /\ SourceOf[v] = trust
                    /\ ResourceOf[v] = ResourceOf[o] /\ Unused(v)

(* An unknown outcome is not for ever: a host that stays converged and a   *)
(* RECOVER that is submitted again and again settle it in the end.         *)
RecoverableIsSettled == \A o \in Ops : ~<>[]Recoverable(o)

(***************************************************************************)
(* Promises of the code's comments that the code does not keep.            *)
(***************************************************************************)
Durable(f) == disk[f] \notin {"absent", "torn"}

(* "A crash after terminal sync but before unlocking the scope is          *)
(* recoverable, only with the same new physical owner proof": a RECOVER    *)
(* that finds the durable VERIFIED record of the pending operation, and    *)
(* the same converged host, may release its gate.                          *)
CrashAfterTerminalIsRecoverable ==
  \A p \in Procs :
    /\ pc[p] = "authorized" /\ ActionOf[op[p]] = "Recover" /\ Unused(op[p])
    /\ OnlyOwnScopePending(p) /\ OriginalBegun(p)
    /\ Durable(Term("verified", Original(p)))
    /\ ~Incomplete(p) /\ ReadOnlyConverged
    => MayResolve(p)

(* "The result is durable BEFORE its resource gate is released": once an   *)
(* effect ran and its gate is gone, some result of it is on disk.          *)
ResultDurableBeforeRelease ==
  \A o \in Ops : effects[o] > 0 /\ cache[Scope(ResourceOf[o])] # o =>
    \E t \in Terminals : Durable(Term(t, o))

(* "signed RECOVER paths remain the way to ... reconcile an unknown        *)
(* mutation" after a retained ADMIN BEGIN: while a fresh RECOVER is there  *)
(* to be submitted, its pending record does not stay for ever.             *)
AdminUnknownIsReconciled ==
  \A a \in Admins :
    ~<>[](/\ Exists(Pending(a))
          /\ \E v \in Ops : /\ ActionOf[v] = "Recover" /\ Unused(v)
                            /\ SourceOf[v] = trust)
=============================================================================
