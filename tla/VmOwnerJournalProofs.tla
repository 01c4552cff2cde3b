------------------------- MODULE VmOwnerJournalProofs ------------------------
(***************************************************************************)
(* Layer 3 of the invariant of VmOwner: the journal.  A step changes one   *)
(* file at most, so most of the invariant is carried over by what a file   *)
(* operation leaves alone (Kept), and since only the holder of the lock    *)
(* moves, only that process's own label has to be looked at.               *)
(***************************************************************************)
EXTENDS VmOwnerTypeProofs

JournalFiles == {Scope(r) : r \in Resources} \cup {Begin(o) : o \in Ops}
                  \cup {Term(t, o) : t \in Terminals, o \in Ops}

(* What a step leaves of a file it does not write, although it may sync    *)
(* the directory the file is in.                                           *)
Kept(g) ==
  /\ cache'[g] = cache[g]
  /\ cache[g] = disk[g] => disk'[g] = disk[g]
  /\ disk'[g] \in {disk[g], "absent", "torn"}
  /\ disk'[g] # "absent" => cache[g] # "absent" \/ disk[g] # "absent"

(* File names are distinct and name files.                                 *)
LEMMA FileNames ==
  /\ \A r, s : Scope(r) = Scope(s) => r = s
  /\ \A o, q : Begin(o) = Begin(q) => o = q
  /\ \A t, u, o, q : Term(t, o) = Term(u, q) => t = u /\ o = q
  /\ \A a, b : Pending(a) = Pending(b) => a = b
  /\ \A a, b : Result(a) = Result(b) => a = b
  /\ \A r, x : /\ Scope(r) # Begin(x) /\ Scope(r) # Pending(x) /\ Scope(r) # Result(x)
               /\ Begin(r) # Pending(x) /\ Begin(r) # Result(x) /\ Pending(r) # Result(x)
  /\ \A t \in Terminals : \A o, x : /\ Term(t, o) # Scope(x) /\ Term(t, o) # Begin(x)
                                    /\ Term(t, o) # Pending(x) /\ Term(t, o) # Result(x)
  BY DEF Scope, Begin, Term, Pending, Result, Terminals

(* Every record the journal names is a file of the model.                  *)
LEMMA FilesExist ==
  /\ \A r \in Resources : Scope(r) \in PendingFiles /\ Scope(r) \in JournalFiles
  /\ \A o \in Ops : Begin(o) \in JournalFiles
  /\ \A t \in Terminals, o \in Ops : Term(t, o) \in JournalFiles
  /\ \A a \in Admins : Pending(a) \in PendingFiles /\ Result(a) \in Files
  /\ JournalFiles \subseteq Files /\ PendingFiles \subseteq Files
  BY DEF JournalFiles, PendingFiles, Files

(* A journal file is a gate, a BEGIN or a terminal record ...              *)
LEMMA JournalFileCases ==
  ASSUME NEW g \in JournalFiles
  PROVE  \/ \E r \in Resources : g = Scope(r)
         \/ \E o \in Ops : g = Begin(o)
         \/ \E t \in Terminals, o \in Ops : g = Term(t, o)
  BY DEF JournalFiles

(* ... and a pending file is a gate or an ADMIN pending record.            *)
LEMMA PendingFileCases ==
  ASSUME NEW g \in PendingFiles
  PROVE  \/ \E r \in Resources : g = Scope(r)
         \/ \E a \in Admins : g = Pending(a)
  BY DEF PendingFiles

(* What each file operation does, file by file.                            *)
LEMMA FileOperations ==
  ASSUME TypeOK, NEW f \in Files
  PROVE  /\ CreateNew(f) => /\ \A g \in Files \ {f} : Kept(g)
                            /\ ~Exists(f) /\ cache'[f] = "torn" /\ disk' = disk
         /\ \A c : WriteAll(f, c) => /\ \A g \in Files \ {f} : Kept(g)
                                     /\ cache'[f] = c /\ disk' = disk
         /\ SyncAll(f) => /\ \A g \in Files \ {f} : Kept(g)
                          /\ cache' = cache /\ disk'[f] = cache[f]
         /\ RemoveFile(f) => /\ \A g \in Files \ {f} : Kept(g)
                             /\ cache'[f] = "absent" /\ disk' = disk
         /\ SyncDirectory => /\ \A g \in Files : Kept(g)
                             /\ cache' = cache
         /\ UNCHANGED <<cache, disk>> => \A g \in Files : Kept(g)
  BY DEF TypeOK, CreateNew, WriteAll, SyncAll, RemoveFile, SyncDirectory,
     EntriesSynced, Kept, Exists

(* After a power loss a file that was synced is as it was, and no other    *)
(* file holds anything it did not hold before.                             *)
LEMMA PowerLossFiles ==
  ASSUME TypeOK, PowerLoss, NEW g \in Files
  PROVE  /\ disk'[g] = cache'[g]
         /\ cache[g] = disk[g] => cache'[g] = cache[g]
         /\ cache'[g] \in {cache[g], disk[g], "torn"}
         /\ cache'[g] # "absent" => cache[g] # "absent" \/ disk[g] # "absent"
<1>1. PICK kept \in [Dirty -> UNION {Survivors(f) : f \in Dirty}] :
        /\ \A f \in Dirty : kept[f] \in Survivors(f)
        /\ cache' = [f \in Files |-> IF f \in Dirty THEN kept[f] ELSE cache[f]]
        /\ disk' = cache'
  BY DEF PowerLoss
<1> QED
  BY <1>1 DEF Dirty, Survivors, Exists

(***************************************************************************)
(* The parts of JournalInv that are about operations.                      *)
(***************************************************************************)
LEMMA RanOnceKept ==
  ASSUME RanOnce, effects' = effects, \A o \in Ops : Kept(Begin(o))
  PROVE  RanOnce'
  BY DEF RanOnce, Kept

(* A gate that is left alone still guards its unsettled operation.         *)
LEMMA UnknownGatedKept ==
  ASSUME UnknownGated, effects' = effects, decided \subseteq decided',
         \A r \in Resources : Kept(Scope(r))
  PROVE  UnknownGated'
  BY IntentAssumption DEF UnknownGated, Unsettled, Kept

(* A step that leaves the terminal records alone settles nothing.          *)
LEMMA TerminalsDecidedKept ==
  ASSUME TerminalsDecided, decided \subseteq decided',
         \A t \in Terminals, o \in Ops : Kept(Term(t, o))
  PROVE  TerminalsDecided'
  BY DEF TerminalsDecided, Written, Kept

(* A step after which no process is past its checks.                       *)
LEMMA QuietJournal ==
  ASSUME JournalInv, effects' = effects, decided' = decided,
         \A f \in JournalFiles : Kept(f),
         \A q \in Procs : pc'[q] \notin PlannedLabels
  PROVE  JournalInv'
<1>1. RanOnce' /\ UnknownGated' /\ TerminalsDecided'
  BY FilesExist, RanOnceKept, UnknownGatedKept, TerminalsDecidedKept DEF JournalInv
<1>2. ScopeHeld' /\ BeginHeld' /\ Alone' /\ NotYetRun' /\ SubjectDecided'
  BY DEF ScopeHeld, BeginHeld, Alone, NotYetRun, SubjectDecided, PlannedLabels, ApplyLabels
<1> QED
  BY <1>1, <1>2 DEF JournalInv

(* Only the holder of the lock is in the middle of an operation.           *)
LEMMA OthersIdle ==
  ASSUME Exclusive, NEW p \in Procs, pc[p] # "idle"
  PROVE  \A q \in Procs \ {p} : pc[q] = "idle"
  BY DEF Exclusive

(* For a step of one process it is enough to look at that process.         *)
LEMMA OneProcess ==
  ASSUME Typed, Exclusive, NEW p \in Procs, NEW l, pc[p] # "idle", Goto(p, l)
  PROVE  /\ pc'[p] = l
         /\ \A q \in Procs : pc'[q] # "idle" => q = p
  BY OthersIdle DEF Typed, TypeOK, Goto

(* The steps that settle what to do, without a file operation.             *)
LEMMA PlanStepJournal ==
  ASSUME Typed, Exclusive, JournalInv, NEW p \in Procs, PlanStep(p)
  PROVE  JournalInv'
<1> USE DEF PlanStep, shared, history
<1>1. pc'[p] = "scopeCreate" /\ \A q \in Procs : pc'[q] # "idle" => q = p
  BY OneProcess
<1>2. RanOnce' /\ UnknownGated' /\ TerminalsDecided'
  BY DEF JournalInv, RanOnce, UnknownGated, Unsettled, TerminalsDecided, Written
<1>3. ScopeHeld' /\ BeginHeld' /\ SubjectDecided'
  BY <1>1 DEF ScopeHeld, BeginHeld, SubjectDecided
<1>4. Alone'
  BY <1>1 DEF Alone, MayPlan, OnlyOwnScopePending, ScopeFile, Exists, PlannedLabels, ApplyLabels
<1>5. NotYetRun'
  <2>1. step'[p] # "Noop" => ActionOf[op'[p]] # "Recover"
    <3> HIDE DEF PlanStep
    <3>1. step'[p] = PlanFor(p).step /\ op' = op
      BY DEF PlanStep, Typed, TypeOK
    <3>2. StepAdmitted(p, PlanFor(p).step)
      BY DEF PlanStep, MayPlan
    <3> QED
      BY <3>1, <3>2 DEF StepAdmitted
  <2>2. op'[p] \in Ops
    BY DEF Typed, Bound, ApplyLabels
  <2> QED
    BY <1>1, <2>1, <2>2, IntentAssumption DEF NotYetRun, PlannedLabels, ApplyLabels
<1> QED
  BY <1>2, <1>3, <1>4, <1>5 DEF JournalInv

(* RECOVER takes over the pending operation and changes no record.         *)
LEMMA ResolveJournal ==
  ASSUME Typed, Exclusive, JournalInv, NEW p \in Procs, Resolve(p)
  PROVE  JournalInv'
<1> USE DEF Resolve, shared, history
<1>1. pc'[p] \in {"unlock", "termCreate"} /\ \A q \in Procs : pc'[q] # "idle" => q = p
  BY OneProcess
<1>2. RanOnce' /\ UnknownGated' /\ TerminalsDecided'
  BY DEF JournalInv, RanOnce, UnknownGated, Unsettled, TerminalsDecided, Written
<1>3. subj'[p] = Original(p) /\ step'[p] = "Noop" /\ Original(p) \in Ops
  BY DEF Typed, TypeOK, MayResolve, OriginalBegun
<1>4. ScopeHeld' /\ BeginHeld'
  BY <1>1, <1>3 DEF ScopeHeld, BeginHeld, Original, ScopeFile
<1>5. Alone' /\ NotYetRun'
  BY <1>1, <1>3 DEF Alone, NotYetRun, MayResolve, OnlyOwnScopePending, ScopeFile, Exists,
     PlannedLabels, ApplyLabels
<1>6. SubjectDecided'
  <2>1. pc'[p] = "unlock" => Written(Term(Verdict(p).terminal, Original(p)))
    BY OneProcess DEF MayResolve, TerminalAgrees, Verdict, ReadOnlyReason, Exists, Written
  <2>2. Verdict(p).terminal \in Terminals
    BY DEF Verdict, Terminals
  <2> QED
    BY <1>1, <1>3, <2>1, <2>2 DEF SubjectDecided, JournalInv, TerminalsDecided
<1> QED
  BY <1>2, <1>4, <1>5, <1>6 DEF JournalInv

(* The names of the three files a process works on.                        *)
LEMMA OwnFiles ==
  ASSUME Typed, NEW p \in Procs, pc[p] \in PlannedLabels
  PROVE  /\ op[p] \in Ops /\ subj[p] \in Ops /\ ResourceOf[op[p]] \in Resources
         /\ ScopeFile(p) = Scope(ResourceOf[op[p]])
         /\ ScopeFile(p) \in JournalFiles /\ ScopeFile(p) \in PendingFiles
         /\ Begin(op[p]) \in JournalFiles /\ Begin(op[p]) \notin PendingFiles
         /\ TermFile(p) = Term(tname[p], subj[p])
         /\ TermFile(p) \in JournalFiles /\ TermFile(p) \notin PendingFiles
         /\ Begin(op[p]) # ScopeFile(p)
         /\ \A x : TermFile(p) # Scope(x) /\ TermFile(p) # Begin(x)
         /\ JournalFiles \subseteq Files /\ PendingFiles \subseteq Files
<1>1. op[p] \in Ops /\ subj[p] \in Ops /\ tname[p] \in Terminals
  BY DEF Typed, TypeOK, Bound, PlannedLabels
<1>2. ResourceOf[op[p]] \in Resources
  BY <1>1, IntentAssumption
<1>3. ScopeFile(p) \in JournalFiles /\ ScopeFile(p) \in PendingFiles
  BY <1>2, FilesExist DEF ScopeFile
<1>4. /\ Begin(op[p]) \in JournalFiles /\ Begin(op[p]) \notin PendingFiles
      /\ Begin(op[p]) # ScopeFile(p)
  BY <1>1, FileNames, FilesExist, PendingFileCases DEF ScopeFile
<1>5. TermFile(p) \in JournalFiles /\ \A x : TermFile(p) # Scope(x) /\ TermFile(p) # Begin(x)
  BY <1>1, FileNames, FilesExist DEF TermFile
<1>6. TermFile(p) \notin PendingFiles
  BY <1>1, FileNames, PendingFileCases DEF TermFile
<1> QED
  BY <1>1, <1>2, <1>3, <1>4, <1>5, <1>6, FilesExist DEF ScopeFile, TermFile

(* A step that writes no scope leaves the pending records as they are.     *)
LEMMA AloneKept ==
  ASSUME Alone, NEW p \in Procs, pc[p] \in PlannedLabels, op' = op,
         \A q \in Procs : pc'[q] # "idle" => q = p,
         \A f \in PendingFiles \ {ScopeFile(p)} : cache'[f] = cache[f]
  PROVE  Alone'
  BY DEF Alone, OnlyOwnScopePending, ScopeFile, Exists, PlannedLabels, ApplyLabels

(* Creating the gate: nothing else is pending, nothing ran.                *)
LEMMA CreateScopeJournal ==
  ASSUME Typed, Exclusive, JournalInv, NEW p \in Procs, CreateScope(p)
  PROVE  JournalInv'
<1> USE DEF CreateScope, local, history
<1>1. pc'[p] = "scopeWrite" /\ \A q \in Procs : pc'[q] # "idle" => q = p
  BY OneProcess
<1>2. pc[p] \in PlannedLabels
  BY DEF PlannedLabels, ApplyLabels
<1>3. /\ \A g \in Files \ {ScopeFile(p)} : Kept(g)
      /\ ~Exists(ScopeFile(p)) /\ cache'[ScopeFile(p)] = "torn"
  BY <1>2, OwnFiles, FileOperations DEF Typed
<1>4. RanOnce' /\ TerminalsDecided'
  BY <1>2, <1>3, OwnFiles, FileNames, FilesExist, RanOnceKept, TerminalsDecidedKept
     DEF JournalInv
<1>5. UnknownGated'
  <2> SUFFICES ASSUME NEW o \in Ops, Unsettled(o)
               PROVE  /\ cache'[Scope(ResourceOf[o])] = o
                      /\ disk'[Scope(ResourceOf[o])] = o
    BY DEF UnknownGated, Unsettled
  <2>1. cache[Scope(ResourceOf[o])] = o /\ disk[Scope(ResourceOf[o])] = o
    BY DEF JournalInv, UnknownGated
  <2>2. Scope(ResourceOf[o]) # ScopeFile(p)
    BY <1>3, <2>1, ContentsAssumption DEF Exists, Marks
  <2> QED
    BY <1>3, <2>1, <2>2, IntentAssumption, FilesExist DEF Kept
<1>6. ScopeHeld' /\ BeginHeld' /\ SubjectDecided'
  BY <1>1, <1>3 DEF ScopeHeld, BeginHeld, SubjectDecided, ScopeFile
<1>7. Alone'
  BY <1>1, <1>2, <1>3, OwnFiles, AloneKept DEF JournalInv, Kept
<1>8. NotYetRun'
  BY <1>1, <1>2 DEF JournalInv, NotYetRun, PlannedLabels, ApplyLabels
<1> QED
  BY <1>4, <1>5, <1>6, <1>7, <1>8 DEF JournalInv

(* Naming the operation in its gate.                                       *)
LEMMA WriteScopeJournal ==
  ASSUME Typed, Exclusive, JournalInv, NEW p \in Procs, WriteScope(p)
  PROVE  JournalInv'
<1> USE DEF WriteScope, local, history
<1>1. pc'[p] = "scopeSync" /\ \A q \in Procs : pc'[q] # "idle" => q = p
  BY OneProcess
<1>2. pc[p] \in PlannedLabels
  BY DEF PlannedLabels, ApplyLabels
<1>3. (\A g \in Files \ {ScopeFile(p)} : Kept(g)) /\ cache'[ScopeFile(p)] = op[p]
  BY <1>2, OwnFiles, FileOperations DEF Typed
<1>4. RanOnce' /\ TerminalsDecided'
  BY <1>2, <1>3, OwnFiles, FileNames, FilesExist, RanOnceKept, TerminalsDecidedKept
     DEF JournalInv
<1>5. UnknownGated'
  <2> SUFFICES ASSUME NEW o \in Ops, Unsettled(o)
               PROVE  /\ cache'[Scope(ResourceOf[o])] = o
                      /\ disk'[Scope(ResourceOf[o])] = o
    BY DEF UnknownGated, Unsettled
  <2>1. cache[Scope(ResourceOf[o])] = o /\ disk[Scope(ResourceOf[o])] = o
    BY DEF JournalInv, UnknownGated
  <2>2. Scope(ResourceOf[o]) # ScopeFile(p)
    BY <2>1, ContentsAssumption DEF JournalInv, ScopeHeld, Marks
  <2> QED
    BY <1>3, <2>1, <2>2, IntentAssumption, FilesExist DEF Kept
<1>6. ScopeHeld' /\ BeginHeld' /\ SubjectDecided'
  BY <1>1, <1>3 DEF ScopeHeld, BeginHeld, SubjectDecided, ScopeFile
<1>7. Alone'
  BY <1>1, <1>2, <1>3, OwnFiles, AloneKept DEF JournalInv, Kept
<1>8. NotYetRun'
  BY <1>1, <1>2 DEF JournalInv, NotYetRun, PlannedLabels, ApplyLabels
<1> QED
  BY <1>4, <1>5, <1>6, <1>7, <1>8 DEF JournalInv

(* A sync changes no file as it is read, and keeps what was synced before. *)
LEMMA SyncKeepsOperations ==
  ASSUME Typed, JournalInv, NEW f \in Files,
         SyncAll(f), effects' = effects, decided' = decided
  PROVE  RanOnce' /\ UnknownGated' /\ TerminalsDecided'
<1>1. /\ \A g \in Files \ {f} : Kept(g)
      /\ cache' = cache /\ disk'[f] = cache[f]
  BY FileOperations DEF Typed
<1>2. \A g \in Files : cache[g] = disk[g] => disk'[g] = disk[g]
  BY <1>1 DEF Kept
<1>3. RanOnce' /\ UnknownGated'
  BY <1>1, <1>2, FilesExist, IntentAssumption DEF JournalInv, RanOnce, UnknownGated, Unsettled
<1>4. TerminalsDecided'
  <2> SUFFICES ASSUME NEW o \in Ops, NEW t \in Terminals, Written(Term(t, o))'
               PROVE  o \in decided
    BY DEF TerminalsDecided
  <2>1. Written(Term(t, o))
    BY <1>1, FilesExist DEF Written, Kept
  <2> QED
    BY <2>1 DEF JournalInv, TerminalsDecided
<1> QED
  BY <1>3, <1>4

(* Making the gate durable, before any BEGIN exists.                       *)
LEMMA SyncScopeJournal ==
  ASSUME Typed, Exclusive, JournalInv, NEW p \in Procs, SyncScope(p)
  PROVE  JournalInv'
<1> USE DEF SyncScope, local, history
<1>1. pc'[p] = "beginCreate" /\ \A q \in Procs : pc'[q] # "idle" => q = p
  BY OneProcess
<1>2. pc[p] \in PlannedLabels
  BY DEF PlannedLabels, ApplyLabels
<1>3. cache' = cache /\ disk'[ScopeFile(p)] = cache[ScopeFile(p)]
  BY <1>2, OwnFiles, FileOperations DEF Typed
<1>4. RanOnce' /\ UnknownGated' /\ TerminalsDecided'
  BY <1>2, OwnFiles, SyncKeepsOperations
<1>5. ScopeHeld' /\ BeginHeld' /\ SubjectDecided'
  BY <1>1, <1>3 DEF JournalInv, ScopeHeld, BeginHeld, SubjectDecided, ScopeFile
<1>6. Alone'
  BY <1>1, <1>2, <1>3, AloneKept DEF JournalInv
<1>7. NotYetRun'
  BY <1>1, <1>2 DEF JournalInv, NotYetRun, PlannedLabels, ApplyLabels
<1> QED
  BY <1>4, <1>5, <1>6, <1>7 DEF JournalInv

(* A BEGIN of an operation that never ran may be created and written.      *)
LEMMA CreateBeginJournal ==
  ASSUME Typed, Exclusive, JournalInv, NEW p \in Procs, CreateBegin(p)
  PROVE  JournalInv'
<1> USE DEF CreateBegin, local, history
<1>1. pc'[p] = "beginWrite" /\ \A q \in Procs : pc'[q] # "idle" => q = p
  BY OneProcess
<1>2. pc[p] \in PlannedLabels
  BY DEF PlannedLabels, ApplyLabels
<1>3. (\A g \in Files \ {Begin(op[p])} : Kept(g)) /\ ~Exists(Begin(op[p]))
  BY <1>2, OwnFiles, FileOperations DEF Typed
<1>4. effects[op[p]] = 0
  BY <1>2, <1>3, OwnFiles DEF JournalInv, RanOnce, Exists, Typed, TypeOK
<1>5. RanOnce'
  <2> SUFFICES ASSUME NEW o \in Ops, effects[o] > 0
               PROVE  cache'[Begin(o)] = "authorized" /\ disk'[Begin(o)] = "authorized"
    BY DEF JournalInv, RanOnce
  <2>1. Kept(Begin(o))
    BY <1>3, <1>4, FileNames, FilesExist
  <2> QED
    BY <2>1 DEF JournalInv, RanOnce, Kept
<1>6. UnknownGated' /\ TerminalsDecided'
  BY <1>2, <1>3, OwnFiles, FileNames, FilesExist, UnknownGatedKept, TerminalsDecidedKept
     DEF JournalInv
<1>7. ScopeHeld'
  BY <1>1, <1>2, <1>3, OwnFiles DEF JournalInv, ScopeHeld, ScopeFile, Kept
<1>8. Alone'
  BY <1>1, <1>2, <1>3, OwnFiles, AloneKept DEF JournalInv, Kept
<1>9. BeginHeld' /\ NotYetRun' /\ SubjectDecided'
  BY <1>1, <1>2, <1>4 DEF JournalInv, BeginHeld, NotYetRun, SubjectDecided,
     PlannedLabels, ApplyLabels
<1> QED
  BY <1>5, <1>6, <1>7, <1>8, <1>9 DEF JournalInv

(* Writing the BEGIN of an operation that has not run.                     *)
LEMMA WriteBeginJournal ==
  ASSUME Typed, Exclusive, JournalInv, NEW p \in Procs, WriteBegin(p)
  PROVE  JournalInv'
<1> USE DEF WriteBegin, local
<1>1. pc'[p] = "beginSync" /\ \A q \in Procs : pc'[q] # "idle" => q = p
  BY OneProcess
<1>2. pc[p] \in PlannedLabels
  BY DEF PlannedLabels, ApplyLabels
<1>3. (\A g \in Files \ {Begin(op[p])} : Kept(g)) /\ cache'[Begin(op[p])] = "authorized"
  BY <1>2, OwnFiles, FileOperations DEF Typed
<1>4. effects[op[p]] = 0
  BY DEF JournalInv, NotYetRun
<1>5. RanOnce'
  <2> SUFFICES ASSUME NEW o \in Ops, effects[o] > 0
               PROVE  cache'[Begin(o)] = "authorized" /\ disk'[Begin(o)] = "authorized"
    BY DEF JournalInv, RanOnce
  <2>1. Kept(Begin(o))
    BY <1>3, <1>4, FileNames, FilesExist
  <2> QED
    BY <2>1 DEF JournalInv, RanOnce, Kept
<1>6. UnknownGated' /\ TerminalsDecided'
  BY <1>2, <1>3, OwnFiles, FileNames, FilesExist, UnknownGatedKept, TerminalsDecidedKept
     DEF JournalInv
<1>7. ScopeHeld'
  BY <1>1, <1>2, <1>3, OwnFiles DEF JournalInv, ScopeHeld, ScopeFile, Kept
<1>8. Alone'
  BY <1>1, <1>2, <1>3, OwnFiles, AloneKept DEF JournalInv, Kept
<1>9. BeginHeld' /\ NotYetRun' /\ SubjectDecided'
  BY <1>1, <1>2, <1>3, <1>4 DEF JournalInv, BeginHeld, NotYetRun, SubjectDecided,
     PlannedLabels, ApplyLabels
<1> QED
  BY <1>5, <1>6, <1>7, <1>8, <1>9 DEF JournalInv

(* Making BEGIN durable: from here on the effect may run once.             *)
LEMMA SyncBeginJournal ==
  ASSUME Typed, Exclusive, JournalInv, NEW p \in Procs, SyncBegin(p)
  PROVE  JournalInv'
<1> USE DEF SyncBegin, history
<1>1. /\ pc'[p] = IF step[p] = "Noop" THEN "termCreate" ELSE "effect"
      /\ \A q \in Procs : pc'[q] # "idle" => q = p
  BY OneProcess
<1>2. pc[p] \in PlannedLabels
  BY DEF PlannedLabels, ApplyLabels
<1>3. /\ \A g \in Files \ {Begin(op[p])} : Kept(g)
      /\ cache' = cache /\ disk'[Begin(op[p])] = cache[Begin(op[p])]
  BY <1>2, OwnFiles, FileOperations DEF Typed
<1>4. RanOnce' /\ UnknownGated' /\ TerminalsDecided'
  BY <1>2, OwnFiles, SyncKeepsOperations
<1>5. ScopeHeld' /\ BeginHeld'
  BY <1>1, <1>2, <1>3, OwnFiles DEF JournalInv, ScopeHeld, BeginHeld, ScopeFile, Kept
<1>6. Alone'
  BY <1>1, <1>2, <1>3, AloneKept DEF JournalInv
<1>7. NotYetRun' /\ SubjectDecided'
  BY <1>1, <1>2 DEF JournalInv, NotYetRun, SubjectDecided, PlannedLabels, ApplyLabels
<1> QED
  BY <1>4, <1>5, <1>6, <1>7 DEF JournalInv

(* The native effect: the operation has not run before, its gate and BEGIN *)
(* are durable.                                                            *)
LEMMA EffectJournal ==
  ASSUME Typed, Exclusive, JournalInv, NEW p \in Procs, Effect(p)
  PROVE  JournalInv'
<1> USE DEF Effect, local
<1>1. pc'[p] = "readback" /\ \A q \in Procs : pc'[q] # "idle" => q = p
  BY OneProcess
<1>2. pc[p] \in PlannedLabels
  BY DEF PlannedLabels, ApplyLabels
<1>3. /\ op[p] \in Ops /\ effects[op[p]] = 0 /\ ActionOf[op[p]] = "Apply"
  BY <1>2, OwnFiles DEF JournalInv, NotYetRun
<1>4. effects'[op[p]] = 1 /\ \A o \in Ops \ {op[p]} : effects'[o] = effects[o]
  BY <1>3 DEF Typed, TypeOK
<1>5. RanOnce'
  BY <1>3, <1>4 DEF JournalInv, RanOnce, BeginHeld
<1>6. UnknownGated'
  BY <1>3, <1>4 DEF JournalInv, UnknownGated, Unsettled, ScopeHeld, ScopeFile
<1>7. TerminalsDecided'
  BY DEF JournalInv, TerminalsDecided, Written
<1>8. ScopeHeld' /\ BeginHeld' /\ SubjectDecided'
  BY <1>1 DEF JournalInv, ScopeHeld, BeginHeld, SubjectDecided, ScopeFile
<1>9. Alone' /\ NotYetRun'
  BY <1>1, <1>2, AloneKept DEF JournalInv, NotYetRun, PlannedLabels, ApplyLabels
<1> QED
  BY <1>5, <1>6, <1>7, <1>8, <1>9 DEF JournalInv

(* A proven poststate only chooses the terminal to write.                  *)
LEMMA ReadBackJournal ==
  ASSUME Typed, Exclusive, JournalInv, NEW p \in Procs, ReadBack(p)
  PROVE  JournalInv'
<1> USE DEF ReadBack, shared, history
<1>1. pc'[p] = "termCreate" /\ \A q \in Procs : pc'[q] # "idle" => q = p
  BY OneProcess
<1>2. pc[p] \in PlannedLabels
  BY DEF PlannedLabels, ApplyLabels
<1>3. RanOnce' /\ UnknownGated' /\ TerminalsDecided'
  BY DEF JournalInv, RanOnce, UnknownGated, Unsettled, TerminalsDecided, Written
<1>4. ScopeHeld' /\ BeginHeld' /\ SubjectDecided'
  BY <1>1 DEF ScopeHeld, BeginHeld, SubjectDecided
<1>5. Alone' /\ NotYetRun'
  BY <1>1, <1>2, AloneKept DEF JournalInv, NotYetRun, PlannedLabels, ApplyLabels
<1> QED
  BY <1>3, <1>4, <1>5 DEF JournalInv

(* Storing the terminal record: the subject is decided before its record   *)
(* is complete, and its gate is still there.                               *)
LEMMA CreateTerminalJournal ==
  ASSUME Typed, Exclusive, JournalInv, NEW p \in Procs, CreateTerminal(p)
  PROVE  JournalInv'
<1> USE DEF CreateTerminal, local, history
<1>1. pc'[p] = "termWrite" /\ \A q \in Procs : pc'[q] # "idle" => q = p
  BY OneProcess
<1>2. pc[p] \in PlannedLabels
  BY DEF PlannedLabels, ApplyLabels
<1>3. /\ \A g \in Files \ {TermFile(p)} : Kept(g)
      /\ cache'[TermFile(p)] = "torn" /\ disk' = disk
  BY <1>2, OwnFiles, FileOperations DEF Typed
<1>4. RanOnce' /\ UnknownGated'
  BY <1>2, <1>3, OwnFiles, FilesExist, RanOnceKept, UnknownGatedKept
     DEF JournalInv, Typed, TypeOK
<1>5. TerminalsDecided'
  <2> SUFFICES ASSUME NEW o \in Ops, NEW t \in Terminals, Written(Term(t, o))'
               PROVE  o \in decided
    BY DEF TerminalsDecided
  <2>1. Written(Term(t, o))
    BY <1>3, FilesExist DEF Written, Kept
  <2> QED
    BY <2>1 DEF JournalInv, TerminalsDecided
<1>6. ScopeHeld'
  BY <1>1, <1>2, <1>3, OwnFiles DEF ScopeHeld, ScopeFile, MayStore, Kept
<1>7. Alone'
  BY <1>1, <1>2, <1>3, OwnFiles, AloneKept DEF JournalInv, Kept
<1>8. BeginHeld' /\ NotYetRun' /\ SubjectDecided'
  BY <1>1, <1>2 DEF JournalInv, BeginHeld, NotYetRun, SubjectDecided,
     PlannedLabels, ApplyLabels
<1> QED
  BY <1>4, <1>5, <1>6, <1>7, <1>8 DEF JournalInv

(* Writing a terminal record decides its operation.                        *)
LEMMA WriteTerminalJournal ==
  ASSUME Typed, Exclusive, JournalInv, NEW p \in Procs, WriteTerminal(p)
  PROVE  JournalInv'
<1> USE DEF WriteTerminal, local
<1>1. pc'[p] = "termSync" /\ \A q \in Procs : pc'[q] # "idle" => q = p
  BY OneProcess
<1>2. pc[p] \in PlannedLabels
  BY DEF PlannedLabels, ApplyLabels
<1>3. (\A g \in Files \ {TermFile(p)} : Kept(g)) /\ decided' = decided \cup {subj[p]}
  BY <1>2, OwnFiles, FileOperations DEF Typed
<1>4. RanOnce' /\ UnknownGated'
  BY <1>2, <1>3, OwnFiles, FilesExist, RanOnceKept, UnknownGatedKept
     DEF JournalInv, Typed, TypeOK
<1>5. TerminalsDecided'
  <2> SUFFICES ASSUME NEW o \in Ops, NEW t \in Terminals, Written(Term(t, o))'
               PROVE  o \in decided'
    BY DEF TerminalsDecided
  <2>1. CASE Term(t, o) = TermFile(p)
    BY <1>3, <2>1, FileNames DEF TermFile
  <2>2. CASE Term(t, o) # TermFile(p)
    <3>1. Written(Term(t, o))
      BY <1>3, <2>2, FilesExist DEF Written, Kept
    <3> QED
      BY <1>3, <3>1 DEF JournalInv, TerminalsDecided
  <2> QED
    BY <2>1, <2>2
<1>6. ScopeHeld'
  BY <1>1, <1>2, <1>3, OwnFiles DEF JournalInv, ScopeHeld, ScopeFile, Kept
<1>7. Alone'
  BY <1>1, <1>2, <1>3, OwnFiles, AloneKept DEF JournalInv, Kept
<1>8. BeginHeld' /\ NotYetRun' /\ SubjectDecided'
  BY <1>1, <1>2, <1>3 DEF JournalInv, BeginHeld, NotYetRun, SubjectDecided,
     PlannedLabels, ApplyLabels
<1> QED
  BY <1>4, <1>5, <1>6, <1>7, <1>8 DEF JournalInv

(* Making the terminal record durable keeps its operation decided.         *)
LEMMA SyncTerminalJournal ==
  ASSUME Typed, Exclusive, JournalInv, NEW p \in Procs, SyncTerminal(p)
  PROVE  JournalInv'
<1> USE DEF SyncTerminal, local, history
<1>1. pc'[p] = "unlock" /\ \A q \in Procs : pc'[q] # "idle" => q = p
  BY OneProcess
<1>2. pc[p] \in PlannedLabels
  BY DEF PlannedLabels, ApplyLabels
<1>3. cache' = cache
  BY <1>2, OwnFiles, FileOperations DEF Typed
<1>4. RanOnce' /\ UnknownGated' /\ TerminalsDecided'
  BY <1>2, OwnFiles, SyncKeepsOperations
<1>5. ScopeHeld' /\ BeginHeld' /\ SubjectDecided'
  BY <1>1, <1>3 DEF JournalInv, ScopeHeld, BeginHeld, SubjectDecided, ScopeFile
<1>6. Alone' /\ NotYetRun'
  BY <1>1, <1>2, <1>3, AloneKept DEF JournalInv, NotYetRun, PlannedLabels, ApplyLabels
<1> QED
  BY <1>4, <1>5, <1>6 DEF JournalInv

(* The gate that is removed belongs to a decided operation.                *)
LEMMA UnlockScopeJournal ==
  ASSUME Typed, Exclusive, JournalInv, NEW p \in Procs, UnlockScope(p)
  PROVE  JournalInv'
<1> USE DEF UnlockScope, local, history
<1>1. pc'[p] = "unlockSync" /\ \A q \in Procs : pc'[q] # "idle" => q = p
  BY OneProcess
<1>2. pc[p] \in PlannedLabels
  BY DEF PlannedLabels, ApplyLabels
<1>3. \A g \in Files \ {ScopeFile(p)} : Kept(g)
  BY <1>2, OwnFiles, FileOperations DEF Typed
<1>4. RanOnce' /\ TerminalsDecided'
  BY <1>2, <1>3, OwnFiles, FileNames, FilesExist, RanOnceKept, TerminalsDecidedKept
     DEF JournalInv
<1>5. UnknownGated'
  <2> SUFFICES ASSUME NEW o \in Ops, Unsettled(o)
               PROVE  /\ cache'[Scope(ResourceOf[o])] = o
                      /\ disk'[Scope(ResourceOf[o])] = o
    BY DEF UnknownGated, Unsettled
  <2>1. cache[Scope(ResourceOf[o])] = o /\ disk[Scope(ResourceOf[o])] = o
    BY DEF JournalInv, UnknownGated
  <2>2. cache[ScopeFile(p)] = subj[p] /\ subj[p] \in decided
    BY DEF JournalInv, ScopeHeld, SubjectDecided
  <2>3. Scope(ResourceOf[o]) # ScopeFile(p)
    BY <2>1, <2>2 DEF Unsettled
  <2> QED
    BY <1>3, <2>1, <2>3, IntentAssumption, FilesExist DEF Kept
<1>6. ScopeHeld' /\ BeginHeld' /\ SubjectDecided'
  BY <1>1 DEF ScopeHeld, BeginHeld, SubjectDecided
<1>7. Alone'
  BY <1>1, <1>2, <1>3, OwnFiles, AloneKept DEF JournalInv, Kept
<1>8. NotYetRun'
  BY <1>1, <1>2 DEF JournalInv, NotYetRun, PlannedLabels, ApplyLabels
<1> QED
  BY <1>4, <1>5, <1>6, <1>7, <1>8 DEF JournalInv

(* Once the gate is gone the operation is over, or a RECOVER goes on to    *)
(* admit its own intent.                                                   *)
LEMMA SyncUnlockJournal ==
  ASSUME Typed, Exclusive, JournalInv, NEW p \in Procs, SyncUnlock(p)
  PROVE  JournalInv'
<1> USE DEF SyncUnlock, history
<1>1. (\A g \in Files : Kept(g)) /\ cache' = cache
  BY FileOperations, FilesExist, NamesAssumption DEF Typed
<1>2. CASE Exit(p)
  <2>1. \A q \in Procs : pc'[q] = "idle"
    BY <1>2, OneProcess DEF Exit
  <2> QED
    BY <1>1, <2>1, FilesExist, QuietJournal DEF PlannedLabels, ApplyLabels
<1>3. CASE Goto(p, "scopeCreate") /\ UNCHANGED <<local, lock>>
  <2> USE DEF local
  <2>1. pc'[p] = "scopeCreate" /\ \A q \in Procs : pc'[q] # "idle" => q = p
    BY <1>3, OneProcess
  <2>2. pc[p] \in PlannedLabels
    BY DEF PlannedLabels, ApplyLabels
  <2>3. RanOnce' /\ UnknownGated' /\ TerminalsDecided'
    BY <1>1, FilesExist, RanOnceKept, UnknownGatedKept, TerminalsDecidedKept DEF JournalInv
  <2>4. ScopeHeld' /\ BeginHeld' /\ SubjectDecided'
    BY <2>1 DEF ScopeHeld, BeginHeld, SubjectDecided
  <2>5. Alone' /\ NotYetRun'
    BY <1>1, <1>3, <2>1, <2>2, AloneKept DEF JournalInv, NotYetRun, PlannedLabels, ApplyLabels
  <2> QED
    BY <2>3, <2>4, <2>5 DEF JournalInv
<1> QED
  BY <1>2, <1>3

(* What the journal invariant is for: the owner's steps keep it ...        *)
LEMMA ApplyStepJournal ==
  ASSUME Typed, Exclusive, JournalInv, NEW p \in Procs, ApplyStep(p)
  PROVE  JournalInv'
<1>1. CASE Authorize(p)
  <2>1. pc'[p] = "authorized" /\ \A q \in Procs : pc'[q] # "idle" => q = p
    BY <1>1, OneProcess DEF Authorize
  <2>2. \A g \in JournalFiles : Kept(g)
    BY <1>1, FileOperations, FilesExist, NamesAssumption DEF Authorize, shared, Typed
  <2> QED
    BY <1>1, <2>1, <2>2, QuietJournal DEF Authorize, history, PlannedLabels, ApplyLabels
<1>2. CASE Refuse(p)
  <2>1. \A q \in Procs : pc'[q] = "idle"
    BY <1>2, OneProcess DEF Refuse, Exit
  <2>2. \A g \in JournalFiles : Kept(g)
    BY <1>2, FileOperations, FilesExist, NamesAssumption DEF Refuse, Typed
  <2> QED
    BY <1>2, <2>1, <2>2, QuietJournal DEF Refuse, history, PlannedLabels, ApplyLabels
<1> QED
  BY <1>1, <1>2, PlanStepJournal, ResolveJournal, CreateScopeJournal,
     WriteScopeJournal, SyncScopeJournal, CreateBeginJournal, WriteBeginJournal,
     SyncBeginJournal, EffectJournal, ReadBackJournal, CreateTerminalJournal,
     WriteTerminalJournal, SyncTerminalJournal, UnlockScopeJournal,
     SyncUnlockJournal DEF ApplyStep

(* ... an ADMIN command works on other files ...                           *)
LEMMA AdminStepJournal ==
  ASSUME Typed, Exclusive, JournalInv, NEW p \in Procs, AdminStep(p)
  PROVE  JournalInv'
<1> USE DEF AdminAuthorize, AdminRecheck, AdminRefuse, CreatePending,
        WritePending, SyncPending, SpawnAndWait, CreateResult, WriteResult,
        SyncResult, ClearPending, SyncClear
<1>1. pc[p] \in AdminLabels
  BY DEF AdminStep, AdminLabels
<1>2. admin[p] \in Admins
  BY <1>1 DEF Typed, Bound
<1>3. \A q \in Procs : pc'[q] \notin PlannedLabels
  <2>1. \E l \in AdminLabels \cup {"idle"} : Goto(p, l)
    BY DEF AdminStep, AdminLabels, AdminExit, Exit
  <2> QED
    BY <1>1, <2>1, OneProcess DEF AdminLabels, PlannedLabels, ApplyLabels
<1>4. effects' = effects /\ decided' = decided
  BY DEF AdminStep, history
<1>5. \A g \in JournalFiles : Kept(g)
  <2>1. /\ Pending(admin[p]) \in Files \ JournalFiles
        /\ Result(admin[p]) \in Files \ JournalFiles /\ JournalFiles \subseteq Files
    BY <1>2, FilesExist, FileNames, JournalFileCases
  <2>2. \/ UNCHANGED <<cache, disk>>
        \/ CreateNew(Pending(admin[p])) \/ \E c : WriteAll(Pending(admin[p]), c)
        \/ SyncAll(Pending(admin[p])) \/ RemoveFile(Pending(admin[p]))
        \/ CreateNew(Result(admin[p])) \/ \E c : WriteAll(Result(admin[p]), c)
        \/ SyncAll(Result(admin[p])) \/ SyncDirectory
    BY DEF AdminStep, shared
  <2> QED
    BY <2>1, <2>2, FileOperations DEF Typed
<1> QED
  BY <1>3, <1>4, <1>5, QuietJournal

(* ... and no other step touches the journal, except by losing power.      *)
LEMMA JournalNext ==
  ASSUME Typed, Exclusive, JournalInv, [Next]_vars
  PROVE  JournalInv'
<1>1. ASSUME NEW p \in Procs, ProcStep(p) PROVE JournalInv'
  <2>1. CASE EnrollStep(p)
    <3>1. \A q \in Procs : pc'[q] \notin PlannedLabels
      BY <2>1, OneProcess DEF EnrollStep, RenameTrust, SyncTrust, CheckBinary,
         RenameBinary, SyncBinary, Exit, PlannedLabels, ApplyLabels
    <3>2. UNCHANGED <<cache, disk, effects, decided>>
      BY <2>1 DEF EnrollStep, RenameTrust, SyncTrust, CheckBinary,
         RenameBinary, SyncBinary, history, shared
    <3> QED
      BY <3>1, <3>2, FileOperations, FilesExist, NamesAssumption, QuietJournal DEF Typed
  <2> QED
    BY <1>1, <2>1, ApplyStepJournal, AdminStepJournal DEF ProcStep, JournalStep, AdminProgress
<1>2. ASSUME NEW p \in Procs, JournalSubmit(p) \/ AdminCall(p) \/ EnrollCall(p) \/ Abort(p)
      PROVE  JournalInv'
  <2>1. \A q \in Procs : pc'[q] \notin PlannedLabels
    <3>1. CASE Abort(p)
      BY <3>1, OneProcess DEF Abort, AdminExit, Exit, PlannedLabels, ApplyLabels
    <3>2. CASE lock = Nobody /\ \E l \in {"locked", "adminLocked", "trustRename"} : Goto(p, l)
      BY <3>2, NamesAssumption DEF Exclusive, Goto, Typed, TypeOK, PlannedLabels, ApplyLabels
    <3> QED
      BY <1>2, <3>1, <3>2 DEF JournalSubmit, Submit, AdminCall, AdminSubmit,
         EnrollCall, EnrollSubmit, RefreshSubmit, Acquire
  <2>2. UNCHANGED <<cache, disk, effects, decided>>
    BY <1>2 DEF JournalSubmit, Submit, AdminCall, AdminSubmit, EnrollCall,
       EnrollSubmit, RefreshSubmit, Abort, history
  <2> QED
    BY <2>1, <2>2, FileOperations, FilesExist, NamesAssumption, QuietJournal DEF Typed
<1>3. CASE PowerLoss
  <2>1. /\ \A q \in Procs : pc'[q] \notin PlannedLabels
        /\ effects' = effects /\ decided' = decided
    BY <1>3 DEF PowerLoss, PlannedLabels, ApplyLabels
  <2>2. RanOnce' /\ UnknownGated'
    BY <1>3, <2>1, PowerLossFiles, FilesExist, IntentAssumption
       DEF JournalInv, RanOnce, UnknownGated, Unsettled, Typed
  <2>3. TerminalsDecided'
    <3> SUFFICES ASSUME NEW o \in Ops, NEW t \in Terminals, Written(Term(t, o))'
                 PROVE  o \in decided
      BY <2>1 DEF TerminalsDecided
    <3>1. Written(Term(t, o))
      BY <1>3, PowerLossFiles, FilesExist DEF Written, Typed
    <3> QED
      BY <3>1 DEF JournalInv, TerminalsDecided
  <2>4. ScopeHeld' /\ BeginHeld' /\ Alone' /\ NotYetRun' /\ SubjectDecided'
    BY <2>1 DEF ScopeHeld, BeginHeld, Alone, NotYetRun, SubjectDecided,
       PlannedLabels, ApplyLabels
  <2> QED
    BY <2>2, <2>3, <2>4 DEF JournalInv
<1>4. CASE Drift \/ Publish \/ UNCHANGED vars
  <2>1. UNCHANGED <<cache, disk, pc, op, subj, step, effects, decided>>
    BY <1>4 DEF Drift, Publish, vars, shared, local, history
  <2> QED
    BY <2>1 DEF JournalInv, ScopeHeld, BeginHeld, Alone, NotYetRun, SubjectDecided,
       RanOnce, UnknownGated, Unsettled, TerminalsDecided, Written,
       OnlyOwnScopePending, ScopeFile, Exists
<1> QED
  BY <1>1, <1>2, <1>3, <1>4 DEF Next

(* Layer 3 holds in every reachable state.                                 *)
LEMMA JournalSafe == Spec => []JournalInv
<1>1. Init => JournalInv
  <2> SUFFICES ASSUME Init PROVE JournalInv
    OBVIOUS
  <2>1. /\ \A p \in Procs : pc[p] = "idle"
        /\ \A o \in Ops : effects[o] = 0
        /\ \A f \in Files : cache[f] = "absent" /\ disk[f] = "absent"
    BY DEF Init, OwnerInit, JournalInit, JournalOwnerInit
  <2> QED
    BY <2>1, FilesExist DEF JournalInv, ScopeHeld, BeginHeld, Alone, NotYetRun,
       SubjectDecided, RanOnce, UnknownGated, Unsettled, TerminalsDecided,
       Written, PlannedLabels, ApplyLabels
<1>2. Typed /\ Exclusive /\ JournalInv /\ [Next]_vars => JournalInv'
  BY JournalNext
<1> QED
  BY <1>1, <1>2, OwnerSafe, PTL DEF Spec
=============================================================================
