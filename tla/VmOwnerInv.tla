------------------------------ MODULE VmOwnerInv -----------------------------
(***************************************************************************)
(* The inductive invariant behind the safety properties of VmOwner, in the *)
(* layers the proofs establish one after the other.  A process label says  *)
(* how far an operation has come, and each layer says what the shared      *)
(* state must look like for a process that has come that far.              *)
(***************************************************************************)
EXTENDS VmOwnerRefinement

(* Past the checks of execute_after_protected_owner_check_once.            *)
PlannedLabels == ApplyLabels \ {"locked", "authorized"}

(* Layer 1: a process in the middle of an operation knows which one.       *)
Bound ==
  \A p \in Procs :
    /\ pc[p] \in ApplyLabels => op[p] \in Ops
    /\ pc[p] \in PlannedLabels => subj[p] \in Ops
    /\ pc[p] \in AdminLabels => admin[p] \in Admins

Typed == TypeOK /\ Bound

(* Layer 2: the lock makes the owner's operations sequential, and the      *)
(* source and binary an operation was authorized for stay in place.        *)
Exclusive == \A p \in Procs : pc[p] # "idle" <=> lock = p

Accepted ==
  \A p \in Procs : pc[p] \in ApplyLabels \ {"locked"} =>
    SourceOf[op[p]] = trust /\ OwnerIsAccepted

(* Layer 3: the journal.  What a process at each label has made durable... *)
ScopeHeld ==
  \A p \in Procs :
    /\ pc[p] = "scopeWrite" => cache[ScopeFile(p)] = "torn"
    /\ pc[p] = "scopeSync" => cache[ScopeFile(p)] = op[p]
    /\ pc[p] \in {"beginCreate", "beginWrite", "beginSync", "effect", "readback"} =>
         cache[ScopeFile(p)] = op[p] /\ disk[ScopeFile(p)] = op[p]
    /\ pc[p] \in {"termWrite", "termSync", "unlock"} => cache[ScopeFile(p)] = subj[p]

BeginHeld ==
  \A p \in Procs :
    /\ pc[p] = "beginSync" => cache[Begin(op[p])] = "authorized"
    /\ pc[p] \in {"effect", "readback"} =>
         cache[Begin(op[p])] = "authorized" /\ disk[Begin(op[p])] = "authorized"

(* ... what it knows of the other pending records, of its operation ...    *)
Alone == \A p \in Procs : pc[p] \in PlannedLabels => OnlyOwnScopePending(p)

NotYetRun ==
  \A p \in Procs :
    /\ pc[p] \in {"beginWrite", "beginSync", "effect"} => effects[op[p]] = 0
    /\ pc[p] \in PlannedLabels /\ step[p] # "Noop" => ActionOf[op[p]] = "Apply"
    /\ pc[p] = "effect" => step[p] # "Noop"

SubjectDecided ==
  \A p \in Procs : pc[p] \in {"termSync", "unlock"} => subj[p] \in decided

(* ... and what the journal says of every operation that ran.              *)
RanOnce ==
  \A o \in Ops :
    /\ effects[o] <= 1
    /\ effects[o] > 0 => /\ ActionOf[o] = "Apply"
                         /\ cache[Begin(o)] = "authorized"
                         /\ disk[Begin(o)] = "authorized"

UnknownGated ==
  \A o \in Ops : Unsettled(o) =>
    cache[Scope(ResourceOf[o])] = o /\ disk[Scope(ResourceOf[o])] = o

Written(f) == cache[f] \notin {"absent", "torn"} \/ disk[f] \notin {"absent", "torn"}

TerminalsDecided ==
  \A o \in Ops, t \in Terminals : Written(Term(t, o)) => o \in decided

JournalInv ==
  /\ ScopeHeld /\ BeginHeld /\ Alone /\ NotYetRun /\ SubjectDecided
  /\ RanOnce /\ UnknownGated /\ TerminalsDecided

(* Layer 4: the ADMIN records.                                             *)
PendingOrComplete ==
  \A a \in Admins :
    /\ spawns[a] <= 1
    /\ spawns[a] > 0 =>
         \/ cache[Pending(a)] = "request" /\ disk[Pending(a)] = "request"
         \/ cache[Result(a)] = "complete" /\ disk[Result(a)] = "complete"

AdminHeld ==
  \A p \in Procs :
    /\ pc[p] = "pendSync" => cache[Pending(admin[p])] = "request"
    /\ pc[p] \in {"spawn", "resultCreate", "resultWrite", "resultSync"} =>
         cache[Pending(admin[p])] = "request" /\ disk[Pending(admin[p])] = "request"
    /\ pc[p] = "resultSync" /\ whole[p] => cache[Result(admin[p])] = "complete"
    /\ pc[p] \in {"clear", "clearSync"} =>
         cache[Result(admin[p])] = "complete" /\ disk[Result(admin[p])] = "complete"

AdminAlone ==
  \A p \in Procs :
    pc[p] \in {"pendCreate", "pendWrite", "pendSync", "spawn"} =>
      /\ spawns[admin[p]] = 0
      /\ \A f \in PendingFiles : Exists(f) => f = Pending(admin[p])

AdminInv == PendingOrComplete /\ AdminHeld /\ AdminAlone

(* Layer 5: a target state that holds after BEGIN is remembered, so only   *)
(* what was reached is ever called verified.                               *)
ReachedKept ==
  \A o \in Ops : cache[Begin(o)] = "authorized" /\ Converged(o, phys) => o \in reached

VerifiedKept ==
  \A o \in Ops :
    cache[Term("verified", o)] # "absent" \/ disk[Term("verified", o)] # "absent"
      => o \in reached

(* A process that runs or checks its own effect will settle that very      *)
(* operation, a STOP was only planned for a stopped target, and a VERIFIED *)
(* record is only begun for what was reached.                              *)
SubjectReached ==
  \A p \in Procs :
    /\ pc[p] \in {"effect", "readback"} => subj[p] = op[p]
    /\ pc[p] \in PlannedLabels /\ step[p] = "Stop" => RunOf[SourceOf[op[p]]] = "Stopped"
    /\ pc[p] \in {"termCreate", "termWrite"} /\ tname[p] = "verified" => subj[p] \in reached

ResultInv == ReachedKept /\ VerifiedKept /\ SubjectReached

(* Layer 6, as long as the power does not fail: a gate names an operation  *)
(* of its own resource, a terminal record follows a BEGIN, an operation    *)
(* under way has none of its records before it writes them ...             *)
GatesAreOwn == \A r \in Resources, o \in Ops : cache[Scope(r)] = o => ResourceOf[o] = r

RecordsBegun ==
  \A o \in Ops, t \in Terminals : Exists(Term(t, o)) => cache[Begin(o)] = "authorized"

Fresh ==
  \A p \in Procs :
    /\ pc[p] \in {"scopeWrite", "scopeSync", "beginCreate"} => ~Exists(Begin(op[p]))
    /\ pc[p] = "beginWrite" => cache[Begin(op[p])] = "torn"
    /\ pc[p] \in {"beginWrite", "beginSync", "effect", "readback"} =>
         \A t \in Terminals : ~Exists(Term(t, op[p]))

(* ... what is being settled was begun, ran if it is called more than an   *)
(* observation, and has no opposite record ...                             *)
Settling == {"termCreate", "termWrite", "termSync", "unlock"}

SubjectOpen ==
  \A p \in Procs :
    /\ pc[p] \in Settling =>
         /\ cache[Begin(subj[p])] = "authorized"
         /\ tname[p] = "observed" => effects[subj[p]] = 0
    /\ pc[p] = "termCreate" /\ tname[p] # "observed" =>
         ~Exists(Term(OppositeTerminal(tname[p]), subj[p]))
    /\ pc[p] = "termWrite" => Exists(TermFile(p))
    /\ pc[p] \in {"termSync", "unlock"} => Readable(TermFile(p))

(* ... and what was begun has its gate or a terminal record.               *)
OutcomeKept ==
  \A o \in Ops : Readable(Begin(o)) =>
    Gated(o) \/ \E t \in Terminals : Readable(Term(t, o))

SettleInv ==
  /\ GatesAreOwn /\ RecordsBegun /\ Fresh /\ SubjectOpen /\ OutcomeKept
  /\ NoConflictingTerminals
=============================================================================
