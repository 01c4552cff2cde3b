-------------------------- MODULE VmOwnerSettleProofs ------------------------
(***************************************************************************)
(* The sixth layer of VmOwnerInv, which holds as long as the power does    *)
(* not fail: what was begun keeps its gate until one of its terminal       *)
(* records can be read, and what was settled stays as it was settled.      *)
(* From it, the journal implements OneShot: every step of its files is a   *)
(* step of that specification or leaves the status of every operation.     *)
(***************************************************************************)
EXTENDS VmOwnerSafetyProofs

(* A mark of the journal is no operation.                                  *)
LEMMA MarksAreNoOps ==
  /\ "absent" \notin Ops /\ "torn" \notin Ops
  /\ \A c \in ResultReasons : c \notin {"absent", "torn"}
  BY ContentsAssumption DEF Marks, ResultReasons

(* The gate, the BEGIN and the terminal records of an operation are files  *)
(* of the journal.                                                         *)
LEMMA OperationFiles ==
  ASSUME NEW o \in Ops
  PROVE  /\ ResourceOf[o] \in Resources
         /\ Scope(ResourceOf[o]) \in JournalFiles /\ Begin(o) \in JournalFiles
         /\ \A t \in Terminals : Term(t, o) \in JournalFiles
  BY FilesExist, IntentAssumption

(* What layer 6 says of the records, when these are left alone.            *)
LEMMA RecordsUnchanged ==
  ASSUME SettleInv, \A f \in JournalFiles : cache'[f] = cache[f]
  PROVE  GatesAreOwn' /\ RecordsBegun' /\ OutcomeKept' /\ NoConflictingTerminals'
<1>1. GatesAreOwn'
  BY FilesExist DEF SettleInv, GatesAreOwn
<1>2. RecordsBegun'
  BY FilesExist DEF SettleInv, RecordsBegun, Exists
<1>3. OutcomeKept'
  BY OperationFiles DEF SettleInv, OutcomeKept, Readable, Gated
<1>4. NoConflictingTerminals'
  BY FilesExist DEF SettleInv, NoConflictingTerminals, Exists, Terminals
<1> QED
  BY <1>1, <1>2, <1>3, <1>4

(* A step after which no process is past its checks.                       *)
LEMMA QuietSettle ==
  ASSUME SettleInv, \A f \in JournalFiles : cache'[f] = cache[f],
         \A q \in Procs : pc'[q] \notin PlannedLabels
  PROVE  SettleInv'
  BY RecordsUnchanged DEF SettleInv, Fresh, SubjectOpen, Settling, PlannedLabels, ApplyLabels

(* One step of a signed host operation.                                    *)
LEMMA ApplyStepSettle ==
  ASSUME Typed, Exclusive, JournalInv, ResultInv, SettleInv, NEW p \in Procs, ApplyStep(p)
  PROVE  SettleInv'
<1>1. ASSUME NEW l \in {"authorized", "idle"}, Goto(p, l), pc[p] # "idle", cache' = cache
      PROVE  SettleInv'
  BY <1>1, OneProcess, QuietSettle DEF PlannedLabels, ApplyLabels
<1>2. CASE Authorize(p) \/ Refuse(p)
  BY <1>1, <1>2 DEF Authorize, Refuse, Exit, shared
<1>3. CASE PlanStep(p)
  <2>1. pc'[p] = "scopeCreate" /\ \A q \in Procs : pc'[q] # "idle" => q = p
    BY <1>3, OneProcess DEF PlanStep
  <2>2. cache' = cache
    BY <1>3 DEF PlanStep, shared
  <2> QED
    BY <2>1, <2>2, RecordsUnchanged DEF SettleInv, Fresh, SubjectOpen, Settling
<1>4. CASE Resolve(p)
  <2>1. pc'[p] \in {"unlock", "termCreate"} /\ \A q \in Procs : pc'[q] # "idle" => q = p
    BY <1>4, OneProcess DEF Resolve
  <2>2. cache' = cache /\ subj'[p] = Original(p) /\ tname'[p] = Verdict(p).terminal
    BY <1>4 DEF Resolve, shared, Typed, TypeOK
  <2>3. /\ cache[Begin(Original(p))] = "authorized"
        /\ Verdict(p).terminal \in {"verified", "incomplete"}
        /\ ~Exists(Term(OppositeTerminal(Verdict(p).terminal), Original(p)))
        /\ cache[Term(Verdict(p).terminal, Original(p))] \in {"absent", Verdict(p).reason}
        /\ Verdict(p).reason \in ResultReasons
    BY <1>4 DEF Resolve, MayResolve, OriginalBegun, TerminalAgrees, Verdict,
       ReadOnlyReason, ResultReasons
  <2>4. pc'[p] = "unlock" => Readable(Term(Verdict(p).terminal, Original(p)))
    BY <1>4, <2>3, OneProcess, MarksAreNoOps DEF Resolve, Readable, Exists
  <2>5. SubjectOpen'
    BY <2>1, <2>2, <2>3, <2>4 DEF SubjectOpen, Settling, TermFile, Exists, Readable
  <2>6. Fresh'
    BY <2>1 DEF Fresh
  <2> QED
    BY <2>2, <2>5, <2>6, RecordsUnchanged DEF SettleInv
<1>5. CASE CreateScope(p)
  <2>1. pc'[p] = "scopeWrite" /\ \A q \in Procs : pc'[q] # "idle" => q = p
    BY <1>5, OneProcess DEF CreateScope
  <2>2. pc[p] \in PlannedLabels /\ op' = op
    BY <1>5 DEF CreateScope, local, PlannedLabels, ApplyLabels
  <2>3. /\ cache[ScopeFile(p)] = "absent" /\ cache'[ScopeFile(p)] = "torn"
        /\ \A g \in JournalFiles \ {ScopeFile(p)} : cache'[g] = cache[g]
    BY <1>5, <2>2, OwnFiles, FileOperations DEF CreateScope, Typed, Kept, Exists
  <2>4. /\ \A o \in Ops : cache'[Begin(o)] = cache[Begin(o)]
        /\ \A o \in Ops, t \in Terminals : cache'[Term(t, o)] = cache[Term(t, o)]
    BY <2>2, <2>3, OwnFiles, OperationFiles, FileNames
  <2>5. \A r \in Resources, o \in Ops : cache[Scope(r)] = o <=> cache'[Scope(r)] = o
    BY <2>3, FilesExist, MarksAreNoOps
  <2>6. GatesAreOwn' /\ OutcomeKept'
    BY <2>4, <2>5, IntentAssumption DEF SettleInv, GatesAreOwn, OutcomeKept, Readable, Gated
  <2>7. RecordsBegun' /\ NoConflictingTerminals'
    BY <2>4 DEF SettleInv, RecordsBegun, NoConflictingTerminals, Exists, Terminals
  <2>8. Fresh' /\ SubjectOpen'
    BY <1>5, <2>1, <2>2, <2>4, OwnFiles DEF CreateScope, MayAdmit, Unused, Fresh,
       SubjectOpen, Settling, Exists
  <2> QED
    BY <2>6, <2>7, <2>8 DEF SettleInv
<1>6. CASE WriteScope(p)
  <2>1. pc'[p] = "scopeSync" /\ \A q \in Procs : pc'[q] # "idle" => q = p
    BY <1>6, OneProcess DEF WriteScope
  <2>2. pc[p] \in PlannedLabels /\ op' = op
    BY <1>6 DEF WriteScope, local, PlannedLabels, ApplyLabels
  <2>3. /\ cache[ScopeFile(p)] = "torn" /\ cache'[ScopeFile(p)] = op[p]
        /\ \A g \in JournalFiles \ {ScopeFile(p)} : cache'[g] = cache[g]
    BY <1>6, <2>2, OwnFiles, FileOperations DEF WriteScope, Typed, Kept, JournalInv, ScopeHeld
  <2>4. /\ \A o \in Ops : cache'[Begin(o)] = cache[Begin(o)]
        /\ \A o \in Ops, t \in Terminals : cache'[Term(t, o)] = cache[Term(t, o)]
    BY <2>2, <2>3, OwnFiles, OperationFiles, FileNames
  <2>5. GatesAreOwn'
    BY <2>2, <2>3, OwnFiles, FilesExist, FileNames DEF SettleInv, GatesAreOwn
  <2>6. \A o \in Ops : cache[Scope(ResourceOf[o])] = o => cache'[Scope(ResourceOf[o])] = o
    BY <2>3, OperationFiles, MarksAreNoOps
  <2>7. OutcomeKept'
    BY <2>4, <2>6 DEF SettleInv, OutcomeKept, Readable, Gated
  <2>8. RecordsBegun' /\ NoConflictingTerminals'
    BY <2>4 DEF SettleInv, RecordsBegun, NoConflictingTerminals, Exists, Terminals
  <2>9. Fresh' /\ SubjectOpen'
    BY <1>6, <2>1, <2>2, <2>4, OwnFiles DEF WriteScope, SettleInv, Fresh,
       SubjectOpen, Settling, Exists
  <2> QED
    BY <2>5, <2>7, <2>8, <2>9 DEF SettleInv
<1>7. CASE SyncScope(p)
  <2>1. pc'[p] = "beginCreate" /\ \A q \in Procs : pc'[q] # "idle" => q = p
    BY <1>7, OneProcess DEF SyncScope
  <2>2. cache' = cache /\ op' = op
    BY <1>7 DEF SyncScope, SyncAll, local
  <2> QED
    BY <1>7, <2>1, <2>2, RecordsUnchanged DEF SyncScope, SettleInv, Fresh, SubjectOpen,
       Settling, Exists
<1>8. CASE CreateBegin(p)
  <2>1. pc'[p] = "beginWrite" /\ \A q \in Procs : pc'[q] # "idle" => q = p
    BY <1>8, OneProcess DEF CreateBegin
  <2>2. pc[p] \in PlannedLabels /\ op' = op
    BY <1>8 DEF CreateBegin, local, PlannedLabels, ApplyLabels
  <2>3. /\ cache[Begin(op[p])] = "absent" /\ cache'[Begin(op[p])] = "torn"
        /\ \A g \in JournalFiles \ {Begin(op[p])} : cache'[g] = cache[g]
    BY <1>8, <2>2, OwnFiles, FileOperations DEF CreateBegin, Typed, Kept, Exists
  <2>4. /\ \A r \in Resources : cache'[Scope(r)] = cache[Scope(r)]
        /\ \A o \in Ops \ {op[p]} : cache'[Begin(o)] = cache[Begin(o)]
        /\ \A o \in Ops, t \in Terminals : cache'[Term(t, o)] = cache[Term(t, o)]
    BY <2>2, <2>3, OwnFiles, FilesExist, FileNames
  <2>5. \A t \in Terminals : ~Exists(Term(t, op[p]))
    BY <2>2, <2>3, OwnFiles DEF SettleInv, RecordsBegun
  <2>6. GatesAreOwn' /\ OutcomeKept'
    BY <2>3, <2>4, OperationFiles DEF SettleInv, GatesAreOwn, OutcomeKept, Readable, Gated
  <2>7. RecordsBegun' /\ NoConflictingTerminals'
    BY <2>4, <2>5 DEF SettleInv, RecordsBegun, NoConflictingTerminals, Exists, Terminals
  <2>8. Fresh' /\ SubjectOpen'
    BY <2>1, <2>2, <2>3, <2>4, <2>5, OwnFiles DEF Fresh, SubjectOpen, Settling, Exists
  <2> QED
    BY <2>6, <2>7, <2>8 DEF SettleInv
<1>9. CASE WriteBegin(p)
  <2>1. pc'[p] = "beginSync" /\ \A q \in Procs : pc'[q] # "idle" => q = p
    BY <1>9, OneProcess DEF WriteBegin
  <2>2. pc[p] \in PlannedLabels /\ op' = op /\ pc[p] = "beginWrite"
    BY <1>9 DEF WriteBegin, local, PlannedLabels, ApplyLabels
  <2>3. /\ cache'[Begin(op[p])] = "authorized"
        /\ \A g \in JournalFiles \ {Begin(op[p])} : cache'[g] = cache[g]
    BY <1>9, <2>2, OwnFiles, FileOperations DEF WriteBegin, Typed, Kept
  <2>4. /\ \A r \in Resources : cache'[Scope(r)] = cache[Scope(r)]
        /\ \A o \in Ops \ {op[p]} : cache'[Begin(o)] = cache[Begin(o)]
        /\ \A o \in Ops, t \in Terminals : cache'[Term(t, o)] = cache[Term(t, o)]
    BY <2>2, <2>3, OwnFiles, FilesExist, FileNames
  <2>5. Gated(op[p])
    BY <2>2 DEF JournalInv, ScopeHeld, Gated, ScopeFile
  <2>6. GatesAreOwn' /\ OutcomeKept'
    BY <2>2, <2>4, <2>5, OperationFiles DEF SettleInv, GatesAreOwn, OutcomeKept, Readable, Gated
  <2>7. RecordsBegun' /\ NoConflictingTerminals'
    BY <2>3, <2>4 DEF SettleInv, RecordsBegun, NoConflictingTerminals, Exists, Terminals
  <2>8. Fresh' /\ SubjectOpen'
    BY <2>1, <2>2, <2>4, OwnFiles DEF SettleInv, Fresh, SubjectOpen, Settling, Exists
  <2> QED
    BY <2>6, <2>7, <2>8 DEF SettleInv
<1>10. CASE SyncBegin(p)
  <2>1. pc'[p] \in {"termCreate", "effect"} /\ \A q \in Procs : pc'[q] # "idle" => q = p
    BY <1>10, OneProcess DEF SyncBegin
  <2>2. /\ cache' = cache /\ op' = op /\ effects' = effects /\ pc[p] = "beginSync"
        /\ subj'[p] = op[p] /\ tname'[p] = "observed"
    BY <1>10 DEF SyncBegin, SyncAll, history, Typed, TypeOK
  <2>3. cache[Begin(op[p])] = "authorized" /\ effects[op[p]] = 0
    BY <2>2 DEF JournalInv, BeginHeld, NotYetRun
  <2>4. Fresh' /\ SubjectOpen'
    BY <2>1, <2>2, <2>3 DEF SettleInv, Fresh, SubjectOpen, Settling, Exists
  <2> QED
    BY <2>2, <2>4, RecordsUnchanged DEF SettleInv
<1>11. CASE Effect(p)
  <2>1. pc'[p] = "readback" /\ \A q \in Procs : pc'[q] # "idle" => q = p
    BY <1>11, OneProcess DEF Effect
  <2>2. cache' = cache /\ op' = op /\ pc[p] = "effect"
    BY <1>11 DEF Effect, local
  <2> QED
    BY <2>1, <2>2, RecordsUnchanged DEF SettleInv, Fresh, SubjectOpen, Settling, Exists
<1>12. CASE ReadBack(p)
  <2>1. pc'[p] = "termCreate" /\ \A q \in Procs : pc'[q] # "idle" => q = p
    BY <1>12, OneProcess DEF ReadBack
  <2>2. cache' = cache /\ subj' = subj /\ pc[p] = "readback" /\ tname'[p] = "verified"
    BY <1>12 DEF ReadBack, shared, Typed, TypeOK
  <2>3. subj[p] = op[p] /\ cache[Begin(op[p])] = "authorized"
    BY <2>2 DEF ResultInv, SubjectReached, JournalInv, BeginHeld
  <2>4. ~Exists(Term(OppositeTerminal("verified"), op[p]))
    BY <2>2 DEF SettleInv, Fresh, OppositeTerminal, Terminals
  <2>5. Fresh' /\ SubjectOpen'
    BY <2>1, <2>2, <2>3, <2>4 DEF Fresh, SubjectOpen, Settling, Exists
  <2> QED
    BY <2>2, <2>5, RecordsUnchanged DEF SettleInv
<1>13. ASSUME pc[p] \in PlannedLabels,
              \A r \in Resources : cache'[Scope(r)] = cache[Scope(r)],
              \A o \in Ops : cache'[Begin(o)] = cache[Begin(o)],
              \A o \in Ops, t \in Terminals :
                Term(t, o) # TermFile(p) => cache'[Term(t, o)] = cache[Term(t, o)],
              Readable(TermFile(p)) => cache'[TermFile(p)] \notin {"absent", "torn"}
       PROVE  GatesAreOwn' /\ OutcomeKept'
  <2>1. GatesAreOwn'
    BY <1>13 DEF SettleInv, GatesAreOwn
  <2>2. \A o \in Ops, t \in Terminals : Readable(Term(t, o)) => Readable(Term(t, o))'
    BY <1>13 DEF Readable, TermFile
  <2>3. OutcomeKept'
    BY <1>13, <2>2, OperationFiles DEF SettleInv, OutcomeKept, Readable, Gated
  <2> QED
    BY <2>1, <2>3
<1>14. CASE CreateTerminal(p)
  <2>1. pc'[p] = "termWrite" /\ \A q \in Procs : pc'[q] # "idle" => q = p
    BY <1>14, OneProcess DEF CreateTerminal
  <2>2. /\ pc[p] \in PlannedLabels /\ pc[p] = "termCreate"
        /\ op' = op /\ subj' = subj /\ tname' = tname /\ effects' = effects
    BY <1>14 DEF CreateTerminal, local, history, PlannedLabels, ApplyLabels
  <2>3. /\ cache[TermFile(p)] = "absent" /\ cache'[TermFile(p)] = "torn"
        /\ \A g \in JournalFiles \ {TermFile(p)} : cache'[g] = cache[g]
    BY <1>14, <2>2, OwnFiles, FileOperations DEF CreateTerminal, Typed, Kept, Exists
  <2>4. /\ \A r \in Resources : cache'[Scope(r)] = cache[Scope(r)]
        /\ \A o \in Ops : cache'[Begin(o)] = cache[Begin(o)]
        /\ \A o \in Ops, t \in Terminals :
             Term(t, o) # TermFile(p) => cache'[Term(t, o)] = cache[Term(t, o)]
    BY <2>2, <2>3, OwnFiles, FilesExist
  <2>5. GatesAreOwn' /\ OutcomeKept'
    BY <1>13, <2>2, <2>3, <2>4 DEF Readable
  <2>6. /\ subj[p] \in Ops /\ cache[Begin(subj[p])] = "authorized"
        /\ tname[p] = "observed" => effects[subj[p]] = 0
        /\ tname[p] # "observed" => ~Exists(Term(OppositeTerminal(tname[p]), subj[p]))
    BY <2>2, OwnFiles DEF SettleInv, SubjectOpen, Settling
  <2>7. RecordsBegun'
    BY <2>4, <2>6, FileNames DEF SettleInv, RecordsBegun, Exists, TermFile
  <2>8. NoConflictingTerminals'
    BY <2>4, <2>6, FileNames DEF SettleInv, NoConflictingTerminals, Exists, TermFile,
       OppositeTerminal, Terminals
  <2>9. Fresh' /\ SubjectOpen'
    BY <2>1, <2>2, <2>3, <2>4, <2>6 DEF Fresh, SubjectOpen, Settling, Exists, TermFile
  <2> QED
    BY <2>5, <2>7, <2>8, <2>9 DEF SettleInv
<1>15. CASE WriteTerminal(p)
  <2>1. pc'[p] = "termSync" /\ \A q \in Procs : pc'[q] # "idle" => q = p
    BY <1>15, OneProcess DEF WriteTerminal
  <2>2. /\ pc[p] \in PlannedLabels /\ pc[p] = "termWrite" /\ reason[p] \in ResultReasons
        /\ op' = op /\ subj' = subj /\ tname' = tname /\ effects' = effects
    BY <1>15 DEF WriteTerminal, local, history, PlannedLabels, ApplyLabels, Typed, TypeOK
  <2>3. /\ cache'[TermFile(p)] = reason[p]
        /\ \A g \in JournalFiles \ {TermFile(p)} : cache'[g] = cache[g]
    BY <1>15, <2>2, OwnFiles, FileOperations DEF WriteTerminal, Typed, Kept
  <2>4. /\ \A r \in Resources : cache'[Scope(r)] = cache[Scope(r)]
        /\ \A o \in Ops : cache'[Begin(o)] = cache[Begin(o)]
        /\ \A o \in Ops, t \in Terminals :
             Term(t, o) # TermFile(p) => cache'[Term(t, o)] = cache[Term(t, o)]
    BY <2>2, <2>3, OwnFiles, FilesExist
  <2>5. cache'[TermFile(p)] \notin {"absent", "torn"} /\ cache[TermFile(p)] # "absent"
    BY <2>2, <2>3, MarksAreNoOps DEF SettleInv, SubjectOpen, Exists
  <2>6. GatesAreOwn' /\ OutcomeKept'
    BY <1>13, <2>2, <2>4, <2>5
  <2>7. \A o \in Ops, t \in Terminals : Exists(Term(t, o)) <=> Exists(Term(t, o))'
    BY <2>4, <2>5 DEF Exists
  <2>8. RecordsBegun' /\ NoConflictingTerminals'
    BY <2>4, <2>7 DEF SettleInv, RecordsBegun, NoConflictingTerminals, Terminals
  <2>9. Fresh' /\ SubjectOpen'
    BY <2>1, <2>2, <2>4, <2>5, OwnFiles DEF SettleInv, Fresh, SubjectOpen, Settling, Readable, TermFile
  <2> QED
    BY <2>6, <2>8, <2>9 DEF SettleInv
<1>16. CASE SyncTerminal(p)
  <2>1. pc'[p] = "unlock" /\ \A q \in Procs : pc'[q] # "idle" => q = p
    BY <1>16, OneProcess DEF SyncTerminal
  <2>2. /\ cache' = cache /\ subj' = subj /\ tname' = tname /\ effects' = effects
        /\ pc[p] = "termSync"
    BY <1>16 DEF SyncTerminal, SyncAll, local, history
  <2> QED
    BY <2>1, <2>2, RecordsUnchanged DEF SettleInv, Fresh, SubjectOpen, Settling, Readable, TermFile
<1>17. CASE UnlockScope(p)
  <2>1. pc'[p] = "unlockSync" /\ \A q \in Procs : pc'[q] # "idle" => q = p
    BY <1>17, OneProcess DEF UnlockScope
  <2>2. pc[p] \in PlannedLabels /\ pc[p] = "unlock"
    BY <1>17 DEF UnlockScope, PlannedLabels, ApplyLabels
  <2>3. /\ cache[ScopeFile(p)] = subj[p] /\ cache'[ScopeFile(p)] = "absent"
        /\ \A g \in JournalFiles \ {ScopeFile(p)} : cache'[g] = cache[g]
    BY <1>17, <2>2, OwnFiles, FileOperations DEF UnlockScope, Typed, Kept, JournalInv, ScopeHeld
  <2>4. /\ \A o \in Ops : cache'[Begin(o)] = cache[Begin(o)]
        /\ \A o \in Ops, t \in Terminals : cache'[Term(t, o)] = cache[Term(t, o)]
    BY <2>2, <2>3, OwnFiles, OperationFiles, FileNames
  <2>5. GatesAreOwn'
    BY <2>3, FilesExist, MarksAreNoOps DEF SettleInv, GatesAreOwn
  <2>6. \E t \in Terminals : Readable(Term(t, subj[p]))
    BY <2>2 DEF SettleInv, SubjectOpen, TermFile, Typed, TypeOK
  <2>7. \A o \in Ops \ {subj[p]} :
          cache[Scope(ResourceOf[o])] = o => cache'[Scope(ResourceOf[o])] = o
    BY <2>3, OperationFiles
  <2>8. OutcomeKept'
    BY <2>4, <2>6, <2>7 DEF SettleInv, OutcomeKept, Readable, Gated
  <2>9. RecordsBegun' /\ NoConflictingTerminals'
    BY <2>4 DEF SettleInv, RecordsBegun, NoConflictingTerminals, Exists, Terminals
  <2>10. Fresh' /\ SubjectOpen'
    BY <2>1 DEF Fresh, SubjectOpen, Settling
  <2> QED
    BY <2>5, <2>8, <2>9, <2>10 DEF SettleInv
<1>18. CASE SyncUnlock(p)
  <2>1. cache' = cache /\ pc[p] # "idle"
    BY <1>18 DEF SyncUnlock, SyncDirectory
  <2>2. CASE Exit(p)
    BY <1>1, <2>1, <2>2 DEF Exit
  <2>3. CASE Goto(p, "scopeCreate")
    BY <2>1, <2>3, OneProcess, RecordsUnchanged DEF SettleInv, Fresh, SubjectOpen, Settling
  <2> QED
    BY <1>18, <2>2, <2>3 DEF SyncUnlock
<1> QED
  BY <1>2, <1>3, <1>4, <1>5, <1>6, <1>7, <1>8, <1>9, <1>10, <1>11, <1>12, <1>14,
     <1>15, <1>16, <1>17, <1>18 DEF ApplyStep

(* A step that is neither one of a signed host operation nor a power loss  *)
(* leaves the journal as it is, and no process gets past its checks by it. *)
LEMMA OtherStepsKeepJournal ==
  ASSUME Typed, Exclusive, [Next]_vars, ~PowerLoss, \A p \in Procs : ~ApplyStep(p)
  PROVE  /\ \A g \in JournalFiles : cache'[g] = cache[g]
         /\ effects' = effects
         /\ \/ \A q \in Procs : pc'[q] \notin PlannedLabels
            \/ UNCHANGED <<pc, op, subj, tname>>
<1> DEFINE Goal == /\ \A g \in JournalFiles : cache'[g] = cache[g]
                   /\ effects' = effects
                   /\ \/ \A q \in Procs : pc'[q] \notin PlannedLabels
                      \/ UNCHANGED <<pc, op, subj, tname>>
<1>1. ASSUME NEW p \in Procs, AdminStep(p) PROVE Goal
  <2> USE DEF AdminAuthorize, AdminRecheck, AdminRefuse, CreatePending,
          WritePending, SyncPending, SpawnAndWait, CreateResult, WriteResult,
          SyncResult, ClearPending, SyncClear
  <2>1. pc[p] \in AdminLabels
    BY <1>1 DEF AdminStep, AdminLabels
  <2>2. admin[p] \in Admins
    BY <2>1 DEF Typed, Bound
  <2>3. \A q \in Procs : pc'[q] \notin PlannedLabels
    <3>1. \E l \in AdminLabels \cup {"idle"} : Goto(p, l)
      BY <1>1 DEF AdminStep, AdminLabels, AdminExit, Exit
    <3> QED
      BY <2>1, <3>1, OneProcess DEF AdminLabels, PlannedLabels, ApplyLabels
  <2>4. \A g \in JournalFiles : Kept(g)
    <3>1. /\ Pending(admin[p]) \in Files \ JournalFiles
          /\ Result(admin[p]) \in Files \ JournalFiles /\ JournalFiles \subseteq Files
      BY <2>2, AdminFileNames, FilesExist
    <3>2. \/ UNCHANGED <<cache, disk>>
          \/ CreateNew(Pending(admin[p])) \/ \E c : WriteAll(Pending(admin[p]), c)
          \/ SyncAll(Pending(admin[p])) \/ RemoveFile(Pending(admin[p]))
          \/ CreateNew(Result(admin[p])) \/ \E c : WriteAll(Result(admin[p]), c)
          \/ SyncAll(Result(admin[p])) \/ SyncDirectory
      BY <1>1 DEF AdminStep, shared
    <3> QED
      BY <3>1, <3>2, FileOperations DEF Typed
  <2>5. effects' = effects
    BY <1>1 DEF AdminStep, history
  <2> QED
    BY <2>3, <2>4, <2>5 DEF Kept
<1>2. ASSUME NEW p \in Procs, EnrollStep(p) PROVE Goal
  <2>1. \A q \in Procs : pc'[q] \notin PlannedLabels
    BY <1>2, OneProcess DEF EnrollStep, RenameTrust, SyncTrust, CheckBinary,
       RenameBinary, SyncBinary, Exit, PlannedLabels, ApplyLabels
  <2>2. UNCHANGED <<cache, effects>>
    BY <1>2 DEF EnrollStep, RenameTrust, SyncTrust, CheckBinary, RenameBinary,
       SyncBinary, shared, history
  <2> QED
    BY <2>1, <2>2
<1>3. ASSUME NEW p \in Procs, JournalSubmit(p) \/ AdminCall(p) \/ EnrollCall(p) \/ Abort(p)
      PROVE  Goal
  <2>1. \A q \in Procs : pc'[q] \notin PlannedLabels
    <3>1. CASE Abort(p)
      BY <3>1, OneProcess DEF Abort, AdminExit, Exit, PlannedLabels, ApplyLabels
    <3>2. CASE lock = Nobody /\ \E l \in {"locked", "adminLocked", "trustRename"} : Goto(p, l)
      BY <3>2, NamesAssumption DEF Exclusive, Goto, Typed, TypeOK, PlannedLabels, ApplyLabels
    <3> QED
      BY <1>3, <3>1, <3>2 DEF JournalSubmit, Submit, AdminCall, AdminSubmit,
         EnrollCall, EnrollSubmit, RefreshSubmit, Acquire
  <2>2. UNCHANGED <<cache, effects>>
    BY <1>3 DEF JournalSubmit, Submit, AdminCall, AdminSubmit, EnrollCall,
       EnrollSubmit, RefreshSubmit, Abort, history
  <2> QED
    BY <2>1, <2>2
<1>4. CASE Drift \/ Publish \/ UNCHANGED vars
  <2>1. UNCHANGED <<cache, effects, pc, op, subj, tname>>
    BY <1>4 DEF Drift, Publish, vars, shared, local, history
  <2> QED
    BY <2>1
<1> QED
  BY <1>1, <1>2, <1>3, <1>4 DEF Next, ProcStep, JournalStep, AdminProgress

(* Layer 6 is inductive where a fault is never a power loss.               *)
LEMMA SettleNext ==
  ASSUME ~PowerMayFail, Typed, Exclusive, JournalInv, ResultInv, SettleInv, [Next]_vars
  PROVE  SettleInv'
<1>1. ~PowerLoss
  BY DEF PowerLoss
<1>2. CASE \E p \in Procs : ApplyStep(p)
  BY <1>2, ApplyStepSettle
<1>3. CASE \A p \in Procs : ~ApplyStep(p)
  <2>1. CASE \A q \in Procs : pc'[q] \notin PlannedLabels
    BY <1>1, <1>3, <2>1, OtherStepsKeepJournal, QuietSettle
  <2>2. CASE UNCHANGED <<pc, op, subj, tname>>
    <3>1. (\A g \in JournalFiles : cache'[g] = cache[g]) /\ effects' = effects
      BY <1>1, <1>3, OtherStepsKeepJournal
    <3>2. Fresh'
      <4> SUFFICES ASSUME NEW q \in Procs, pc[q] \in PlannedLabels
                   PROVE  /\ pc[q] \in {"scopeWrite", "scopeSync", "beginCreate"} =>
                               cache'[Begin(op[q])] = "absent"
                          /\ pc[q] = "beginWrite" => cache'[Begin(op[q])] = "torn"
                          /\ pc[q] \in {"beginWrite", "beginSync", "effect", "readback"} =>
                               \A t \in Terminals : cache'[Term(t, op[q])] = "absent"
        BY <2>2 DEF Fresh, Exists, PlannedLabels, ApplyLabels
      <4> QED
        BY <3>1, OwnFiles, OperationFiles DEF SettleInv, Fresh, Exists
    <3>3. SubjectOpen'
      <4> SUFFICES ASSUME NEW q \in Procs, pc[q] \in PlannedLabels
                   PROVE  /\ pc[q] \in Settling =>
                               /\ cache'[Begin(subj[q])] = "authorized"
                               /\ tname[q] = "observed" => effects[subj[q]] = 0
                          /\ pc[q] = "termCreate" /\ tname[q] # "observed" =>
                               cache'[Term(OppositeTerminal(tname[q]), subj[q])] = "absent"
                          /\ pc[q] = "termWrite" => cache'[TermFile(q)] # "absent"
                          /\ pc[q] \in {"termSync", "unlock"} =>
                               cache'[TermFile(q)] \notin {"absent", "torn"}
        BY <2>2, <3>1 DEF SubjectOpen, Exists, Readable, TermFile, Settling, PlannedLabels, ApplyLabels
      <4>1. OppositeTerminal(tname[q]) \in Terminals
        BY DEF OppositeTerminal, Terminals
      <4> QED
        BY <3>1, <4>1, OwnFiles, OperationFiles DEF SettleInv, SubjectOpen, Exists, Readable
    <3> QED
      BY <3>1, <3>2, <3>3, RecordsUnchanged DEF SettleInv
  <2> QED
    BY <1>1, <1>3, <2>1, <2>2, OtherStepsKeepJournal
<1> QED
  BY <1>2, <1>3

(* All layers together.                                                    *)
LEMMA SettleSafe ==
  ASSUME ~PowerMayFail
  PROVE  Spec => [](Typed /\ Exclusive /\ JournalInv /\ ResultInv /\ SettleInv)
<1>1. Init => SettleInv
  <2> SUFFICES ASSUME Init PROVE SettleInv
    OBVIOUS
  <2>1. /\ \A p \in Procs : pc[p] = "idle"
        /\ \A f \in Files : cache[f] = "absent"
    BY DEF Init, OwnerInit, JournalInit, JournalOwnerInit
  <2>2. \A f \in JournalFiles : cache[f] = "absent"
    BY <2>1, FilesExist
  <2>3. GatesAreOwn /\ RecordsBegun /\ NoConflictingTerminals
    BY <2>2, FilesExist, MarksAreNoOps DEF GatesAreOwn, RecordsBegun, NoConflictingTerminals,
       Exists, Terminals
  <2>4. OutcomeKept /\ Fresh /\ SubjectOpen
    BY <2>1, <2>2, FilesExist DEF OutcomeKept, Readable, Fresh, SubjectOpen, Settling
  <2> QED
    BY <2>3, <2>4 DEF SettleInv
<1>2. Typed /\ Exclusive /\ JournalInv /\ ResultInv /\ SettleInv /\ [Next]_vars => SettleInv'
  BY SettleNext
<1> QED
  BY <1>1, <1>2, OwnerInvariant, ResultSafe, PTL DEF Spec

(* resolve_pending_native_recovery_once and finish: while power holds, no  *)
(* operation gets a VERIFIED and an INCOMPLETE record, whoever settles it  *)
(* and wherever a process is killed.                                       *)
THEOREM TerminalsNeverConflict ==
  ASSUME ~PowerMayFail
  PROVE  Spec => []NoConflictingTerminals
<1>1. SettleInv => NoConflictingTerminals
  BY DEF SettleInv
<1> QED
  BY <1>1, SettleSafe, PTL

(* While power holds, an effect never runs for an operation that has any   *)
(* terminal record: what RECOVER settled stays settled.                    *)
THEOREM SettledOperationsNeverRun ==
  ASSUME ~PowerMayFail
  PROVE  Spec => SettledNeverRuns
<1> DEFINE Quiet == \A o \in Ops : effects'[o] # effects[o] =>
                      \A t \in Terminals : ~Exists(Term(t, o))
<1>1. ASSUME Typed, Exclusive, SettleInv, [Next]_vars PROVE [Quiet]_vars
  <2>1. CASE \E p \in Procs : ApplyStep(p)
    <3>1. PICK p \in Procs : ApplyStep(p)
      BY <2>1
    <3>2. CASE Effect(p)
      <4>1. pc[p] = "effect" /\ \A o \in Ops \ {op[p]} : effects'[o] = effects[o]
        BY <3>2 DEF Effect, Typed, TypeOK
      <4> QED
        BY <1>1, <4>1 DEF SettleInv, Fresh
    <3>3. CASE ~Effect(p)
      <4>1. effects' = effects
        BY <3>1, <3>3 DEF ApplyStep, Authorize, PlanStep, Resolve, Refuse, CreateScope,
           WriteScope, SyncScope, CreateBegin, WriteBegin, SyncBegin, ReadBack,
           CreateTerminal, WriteTerminal, SyncTerminal, UnlockScope, SyncUnlock, history
      <4> QED
        BY <4>1
    <3> QED
      BY <3>2, <3>3
  <2>2. CASE ~\E p \in Procs : ApplyStep(p)
    <3>1. ~PowerLoss
      BY DEF PowerLoss
    <3>2. effects' = effects
      BY <1>1, <2>2, <3>1, OtherStepsKeepJournal
    <3> QED
      BY <3>2
  <2> QED
    BY <2>1, <2>2
<1>2. Typed /\ Exclusive /\ SettleInv /\ [Next]_vars => [Quiet]_vars
  BY <1>1
<1> QED
  BY <1>2, SettleSafe, PTL DEF Spec, SettledNeverRuns

-----------------------------------------------------------------------------
(* What the status of an operation depends on.                             *)
LEMMA StatusKept ==
  ASSUME NEW o \in Ops, effects'[o] = effects[o],
         Readable(Begin(o)) <=> Readable(Begin(o))',
         \/ ~Readable(Begin(o)) /\ effects[o] = 0
         \/ /\ Gated(o) <=> Gated(o)'
            /\ Gated(o) \/ \A t \in Terminals : Readable(Term(t, o)) <=> Readable(Term(t, o))'
  PROVE  StatusOf(o)' = StatusOf(o)
<1>1. CASE ~Readable(Begin(o)) /\ effects[o] = 0
  BY <1>1 DEF StatusOf
<1>2. CASE Gated(o) /\ Gated(o)'
  <2>1. ~Settled(o) /\ ~Settled(o)'
    BY <1>2 DEF Settled
  <2> QED
    BY <2>1 DEF StatusOf
<1>3. CASE ~Gated(o) /\ ~Gated(o)' /\ \A t \in Terminals : Readable(Term(t, o)) <=> Readable(Term(t, o))'
  <2>1. Settled(o) <=> Settled(o)'
    BY <1>3 DEF Settled
  <2>2. /\ Readable(Term("verified", o)) <=> Readable(Term("verified", o))'
        /\ Readable(Term("incomplete", o)) <=> Readable(Term("incomplete", o))'
    BY <1>3 DEF Terminals
  <2> QED
    BY <2>1, <2>2 DEF StatusOf
<1> QED
  BY <1>1, <1>2, <1>3

(* A step that keeps the journal's records and the effects keeps every     *)
(* operation's status.                                                     *)
LEMMA JournalKeptStatusKept ==
  ASSUME \A f \in JournalFiles : cache'[f] = cache[f], effects' = effects
  PROVE  \A o \in Ops : StatusOf(o)' = StatusOf(o)
<1> TAKE o \in Ops
<1>1. /\ Readable(Begin(o)) <=> Readable(Begin(o))'
      /\ Gated(o) <=> Gated(o)'
      /\ \A t \in Terminals : Readable(Term(t, o)) <=> Readable(Term(t, o))'
  BY OperationFiles DEF Readable, Gated
<1> QED
  BY <1>1, StatusKept

(* What an operation that is not open looks like in OneShot's terms.       *)
LEMMA OpenIsGated ==
  ASSUME Typed, JournalInv, SettleInv, NEW o \in Ops, StatusOf(o) \in {"begun", "unknown"}
  PROVE  Gated(o)
<1>1. Readable(Begin(o)) \/ effects[o] # 0
  BY DEF StatusOf
<1>2. Readable(Begin(o))
  BY <1>1 DEF JournalInv, RanOnce, Readable, Typed, TypeOK
<1>3. ~Settled(o)
  BY DEF StatusOf
<1> QED
  BY <1>2, <1>3 DEF SettleInv, OutcomeKept, Settled

(* Every step of a signed host operation is one of OneShot's.              *)
LEMMA ApplyStepPromised ==
  ASSUME Typed, Exclusive, JournalInv, ResultInv, SettleInv, NEW p \in Procs, ApplyStep(p)
  PROVE  Promise!Next \/ \A o \in Ops : StatusOf(o)' = StatusOf(o)
<1>1. CASE \/ Authorize(p) \/ Refuse(p) \/ PlanStep(p) \/ Resolve(p) \/ SyncScope(p)
           \/ SyncBegin(p) \/ ReadBack(p) \/ SyncTerminal(p) \/ SyncUnlock(p)
  <2>1. cache' = cache /\ effects' = effects
    BY <1>1 DEF Authorize, Refuse, PlanStep, Resolve, SyncScope, SyncBegin, ReadBack,
       SyncTerminal, SyncUnlock, SyncAll, SyncDirectory, shared, history
  <2> QED
    BY <2>1, JournalKeptStatusKept
<1>2. CASE CreateScope(p) \/ WriteScope(p)
  <2>1. pc[p] \in PlannedLabels /\ effects' = effects
    BY <1>2 DEF CreateScope, WriteScope, history, PlannedLabels, ApplyLabels
  <2>2. /\ cache[ScopeFile(p)] \in {"absent", "torn"}
        /\ cache'[ScopeFile(p)] \in {"torn", op[p]}
        /\ \A g \in JournalFiles \ {ScopeFile(p)} : cache'[g] = cache[g]
    BY <1>2, <2>1, OwnFiles, FileOperations DEF CreateScope, WriteScope, Typed, Kept, Exists,
       JournalInv, ScopeHeld
  <2>3. ~Readable(Begin(op[p])) /\ effects[op[p]] = 0
    <3>1. ~Exists(Begin(op[p]))
      BY <1>2 DEF CreateScope, WriteScope, MayAdmit, Unused, SettleInv, Fresh
    <3> QED
      BY <2>1, <3>1, OwnFiles DEF Readable, Exists, JournalInv, RanOnce, Typed, TypeOK
  <2>4. ASSUME NEW o \in Ops PROVE StatusOf(o)' = StatusOf(o)
    <3>1. /\ cache'[Begin(o)] = cache[Begin(o)]
          /\ \A t \in Terminals : cache'[Term(t, o)] = cache[Term(t, o)]
      BY <2>1, <2>2, OwnFiles, OperationFiles, FileNames
    <3>2. o # op[p] => (Gated(o) <=> Gated(o)')
      BY <2>2, OperationFiles, MarksAreNoOps DEF Gated
    <3>3. /\ Readable(Begin(o)) <=> Readable(Begin(o))'
          /\ \A t \in Terminals : Readable(Term(t, o)) <=> Readable(Term(t, o))'
      BY <3>1 DEF Readable
    <3> QED
      BY <2>1, <2>3, <3>2, <3>3, StatusKept
  <2> QED
    BY <2>4
<1>3. CASE CreateBegin(p)
  <2>1. pc[p] \in PlannedLabels /\ effects' = effects
    BY <1>3 DEF CreateBegin, history, PlannedLabels, ApplyLabels
  <2>2. /\ cache[Begin(op[p])] = "absent" /\ cache'[Begin(op[p])] = "torn"
        /\ \A g \in JournalFiles \ {Begin(op[p])} : cache'[g] = cache[g]
    BY <1>3, <2>1, OwnFiles, FileOperations DEF CreateBegin, Typed, Kept, Exists
  <2>3. ASSUME NEW o \in Ops PROVE StatusOf(o)' = StatusOf(o)
    <3>1. /\ \A t \in Terminals : cache'[Term(t, o)] = cache[Term(t, o)]
          /\ cache'[Scope(ResourceOf[o])] = cache[Scope(ResourceOf[o])]
          /\ o # op[p] => cache'[Begin(o)] = cache[Begin(o)]
      BY <2>1, <2>2, OwnFiles, OperationFiles, FileNames
    <3>2. /\ Readable(Begin(o)) <=> Readable(Begin(o))'
          /\ Gated(o) <=> Gated(o)'
          /\ \A t \in Terminals : Readable(Term(t, o)) <=> Readable(Term(t, o))'
      BY <2>2, <3>1 DEF Readable, Gated
    <3> QED
      BY <2>1, <3>2, StatusKept
  <2> QED
    BY <2>3
<1>4. CASE WriteBegin(p)
  <2>1. pc[p] \in PlannedLabels /\ effects' = effects /\ pc[p] = "beginWrite" /\ op[p] \in Ops
    BY <1>4, OwnFiles DEF WriteBegin, PlannedLabels, ApplyLabels
  <2>2. /\ cache[Begin(op[p])] = "torn" /\ cache'[Begin(op[p])] = "authorized"
        /\ \A g \in JournalFiles \ {Begin(op[p])} : cache'[g] = cache[g]
    BY <1>4, <2>1, OwnFiles, FileOperations DEF WriteBegin, Typed, Kept, SettleInv, Fresh
  <2>3. effects[op[p]] = 0 /\ cache[ScopeFile(p)] = op[p] /\ OnlyOwnScopePending(p)
    BY <2>1 DEF JournalInv, NotYetRun, ScopeHeld, Alone
  <2>4. \A o \in Ops \ {op[p]} : StatusOf(o)' = StatusOf(o)
    <3> TAKE o \in Ops \ {op[p]}
    <3>1. /\ \A t \in Terminals : cache'[Term(t, o)] = cache[Term(t, o)]
          /\ cache'[Scope(ResourceOf[o])] = cache[Scope(ResourceOf[o])]
          /\ cache'[Begin(o)] = cache[Begin(o)]
      BY <2>1, <2>2, OwnFiles, OperationFiles, FileNames
    <3>2. /\ Readable(Begin(o)) <=> Readable(Begin(o))'
          /\ Gated(o) <=> Gated(o)'
          /\ \A t \in Terminals : Readable(Term(t, o)) <=> Readable(Term(t, o))'
      BY <3>1 DEF Readable, Gated
    <3> QED
      BY <2>1, <3>2, StatusKept
  <2>5. StatusOf(op[p]) = "unused"
    BY <2>2, <2>3 DEF StatusOf, Readable
  <2>6. StatusOf(op[p])' = "begun"
    <3>1. cache'[Scope(ResourceOf[op[p]])] = op[p] /\ op' = op
      BY <1>4, <2>1, <2>2, <2>3, OwnFiles, OperationFiles, FileNames DEF ScopeFile, WriteBegin, local
    <3>2. Readable(Begin(op[p]))' /\ Gated(op[p])' /\ effects'[op'[p]] = 0
      BY <2>1, <2>2, <2>3, <3>1 DEF Readable, Gated
    <3> QED
      BY <3>2 DEF StatusOf, Settled
  <2>7. \A o \in Ops : StatusOf(o) \notin {"begun", "unknown"}
    <3> SUFFICES ASSUME NEW o \in Ops, StatusOf(o) \in {"begun", "unknown"} PROVE FALSE
      OBVIOUS
    <3>1. Gated(o)
      BY OpenIsGated
    <3>2. Scope(ResourceOf[o]) = ScopeFile(p)
      BY <2>3, <3>1, OperationFiles, MarksAreNoOps DEF OnlyOwnScopePending, PendingFiles, Exists, Gated
    <3> QED
      BY <2>3, <2>5, <3>1, <3>2 DEF Gated
  <2>8. Promise!Begin(op[p])
    BY <1>4, <2>1, <2>4, <2>5, <2>6, <2>7 DEF Promise!Begin, Promise!NothingOpen, Promise!Open,
       WriteBegin, local
  <2> QED
    BY <2>1, <2>8 DEF Promise!Next
<1>5. CASE Effect(p)
  <2>1. /\ pc[p] \in PlannedLabels /\ pc[p] = "effect" /\ op[p] \in Ops
        /\ cache' = cache /\ op' = op
        /\ effects' = [effects EXCEPT ![op[p]] = @ + 1]
    BY <1>5, OwnFiles DEF Effect, local, PlannedLabels, ApplyLabels
  <2>2. /\ effects[op[p]] = 0 /\ effects'[op[p]] = 1 /\ ActionOf[op[p]] = "Apply"
        /\ cache[ScopeFile(p)] = op[p] /\ cache[Begin(op[p])] = "authorized"
        /\ \A o \in Ops \ {op[p]} : effects'[o] = effects[o]
    BY <2>1 DEF JournalInv, NotYetRun, ScopeHeld, BeginHeld, Typed, TypeOK
  <2>3. \A o \in Ops \ {op[p]} : StatusOf(o)' = StatusOf(o)
    BY <2>1, <2>2, StatusKept DEF Readable, Gated
  <2>4. Gated(op[p]) /\ Gated(op[p])' /\ Readable(Begin(op[p]))
    BY <2>1, <2>2 DEF Gated, Readable, ScopeFile
  <2>5. StatusOf(op[p]) = "begun"
    BY <2>2, <2>4 DEF StatusOf, Settled
  <2>6. StatusOf(op[p])' = "unknown"
    BY <2>1, <2>2, <2>4 DEF StatusOf, Settled
  <2>7. Promise!Run(op[p])
    BY <2>1, <2>2, <2>3, <2>5, <2>6 DEF Promise!Run
  <2> QED
    BY <2>1, <2>7 DEF Promise!Next
<1>6. CASE CreateTerminal(p) \/ WriteTerminal(p)
  <2>1. /\ pc[p] \in PlannedLabels /\ pc[p] \in {"termCreate", "termWrite"}
        /\ effects' = effects
    BY <1>6 DEF CreateTerminal, WriteTerminal, history, PlannedLabels, ApplyLabels
  <2>2. \A g \in JournalFiles \ {TermFile(p)} : cache'[g] = cache[g]
    BY <1>6, <2>1, OwnFiles, FileOperations DEF CreateTerminal, WriteTerminal, Typed, Kept
  <2>3. Gated(subj[p]) /\ subj[p] \in Ops
    <3>1. cache[ScopeFile(p)] = subj[p] /\ op[p] \in Ops /\ subj[p] \in Ops
      BY <1>6, <2>1, OwnFiles DEF CreateTerminal, WriteTerminal, MayStore, JournalInv, ScopeHeld
    <3> QED
      BY <3>1, OperationFiles DEF SettleInv, GatesAreOwn, Gated, ScopeFile
  <2>4. ASSUME NEW o \in Ops PROVE StatusOf(o)' = StatusOf(o)
    <3>1. /\ cache'[Scope(ResourceOf[o])] = cache[Scope(ResourceOf[o])]
          /\ cache'[Begin(o)] = cache[Begin(o)]
          /\ o # subj[p] => \A t \in Terminals : cache'[Term(t, o)] = cache[Term(t, o)]
      BY <2>1, <2>2, OwnFiles, OperationFiles, FileNames DEF TermFile
    <3>2. /\ Readable(Begin(o)) <=> Readable(Begin(o))'
          /\ Gated(o) <=> Gated(o)'
          /\ o # subj[p] => \A t \in Terminals : Readable(Term(t, o)) <=> Readable(Term(t, o))'
      BY <3>1 DEF Readable, Gated
    <3> QED
      BY <2>1, <2>3, <3>2, StatusKept
  <2> QED
    BY <2>4
<1>7. CASE UnlockScope(p)
  <2>1. /\ pc[p] \in PlannedLabels /\ pc[p] = "unlock" /\ subj[p] \in Ops
        /\ effects' = effects /\ subj' = subj /\ tname' = tname
    BY <1>7, OwnFiles DEF UnlockScope, local, history, PlannedLabels, ApplyLabels
  <2>2. /\ cache[ScopeFile(p)] = subj[p] /\ cache'[ScopeFile(p)] = "absent"
        /\ \A g \in JournalFiles \ {ScopeFile(p)} : cache'[g] = cache[g]
    BY <1>7, <2>1, OwnFiles, FileOperations DEF UnlockScope, Typed, Kept, JournalInv, ScopeHeld
  <2>3. ScopeFile(p) = Scope(ResourceOf[subj[p]])
    BY <2>1, <2>2, OwnFiles, OperationFiles DEF SettleInv, GatesAreOwn, ScopeFile
  <2>4. \A o \in Ops : /\ cache'[Begin(o)] = cache[Begin(o)]
                       /\ \A t \in Terminals : cache'[Term(t, o)] = cache[Term(t, o)]
    BY <2>1, <2>2, OwnFiles, OperationFiles, FileNames
  <2>5. \A o \in Ops : /\ Readable(Begin(o)) <=> Readable(Begin(o))'
                       /\ \A t \in Terminals : Readable(Term(t, o)) <=> Readable(Term(t, o))'
    BY <2>4 DEF Readable
  <2>6. ASSUME NEW o \in Ops \ {subj[p]} PROVE StatusOf(o)' = StatusOf(o)
    <3>1. Gated(o) <=> Gated(o)'
      BY <2>2, OperationFiles, MarksAreNoOps DEF Gated
    <3> QED
      BY <2>1, <2>5, <3>1, StatusKept
  <2>7. /\ Gated(subj[p]) /\ Readable(Begin(subj[p])) /\ Readable(TermFile(p))
        /\ tname[p] = "observed" => effects[subj[p]] = 0
        /\ tname[p] \in Terminals
    BY <2>1, <2>2, <2>3 DEF SettleInv, SubjectOpen, Settling, Gated, Readable, Typed, TypeOK
  <2>8. StatusOf(subj[p]) = IF effects[subj[p]] > 0 THEN "unknown" ELSE "begun"
    BY <2>7 DEF StatusOf, Settled
  <2>9. Settled(subj[p])'
    BY <2>1, <2>2, <2>3, <2>5, <2>7, MarksAreNoOps DEF Settled, Gated, TermFile
  <2>10. /\ StatusOf(subj[p])' \in {"verified", "incomplete", "observed"}
         /\ StatusOf(subj[p])' = "observed" => tname[p] = "observed"
    <3>1. Readable(Begin(subj[p]))' /\ \E t \in Terminals : t = tname[p] /\ Readable(Term(t, subj[p]))'
      BY <2>1, <2>4, <2>7 DEF TermFile, Readable
    <3> QED
      BY <2>1, <2>7, <2>9, <3>1 DEF StatusOf, Terminals
  <2>11. Promise!Settle(subj[p], StatusOf(subj[p])')
    BY <2>1, <2>6, <2>7, <2>8, <2>10 DEF Promise!Settle, Promise!Open
  <2> QED
    BY <2>1, <2>10, <2>11 DEF Promise!Next, Promise!Verdicts
<1> QED
  BY <1>1, <1>2, <1>3, <1>4, <1>5, <1>6, <1>7 DEF ApplyStep

(* As long as the power does not fail, the files of the journal implement  *)
(* the promise of OneShot: an operation is begun once and alone, runs at   *)
(* most once, and leaves by one final verdict, whatever process writes it. *)
THEOREM JournalImplementsOneShot ==
  ASSUME ~PowerMayFail
  PROVE  Spec => ImplementsOneShot
<1> DEFINE St == [o \in Ops |-> StatusOf(o)]
<1>1. Init => Promise!Init
  <2> SUFFICES ASSUME Init PROVE \A o \in Ops : StatusOf(o) = "unused"
    BY DEF Promise!Init
  <2>1. \A f \in Files : cache[f] = "absent"
    BY DEF Init, OwnerInit, JournalInit
  <2>2. effects = [o \in Ops |-> 0]
    BY DEF Init, JournalOwnerInit
  <2> QED
    BY <2>1, <2>2, OperationFiles, FilesExist DEF StatusOf, Readable
<1>2. Typed /\ Exclusive /\ JournalInv /\ ResultInv /\ SettleInv /\ [Next]_vars
        => [Promise!Next]_St
  <2> SUFFICES ASSUME Typed, Exclusive, JournalInv, ResultInv, SettleInv, [Next]_vars
               PROVE  Promise!Next \/ \A o \in Ops : StatusOf(o)' = StatusOf(o)
    OBVIOUS
  <2>1. CASE \E p \in Procs : ApplyStep(p)
    BY <2>1, ApplyStepPromised
  <2>2. CASE ~\E p \in Procs : ApplyStep(p)
    <3>1. ~PowerLoss
      BY DEF PowerLoss
    <3> QED
      BY <2>2, <3>1, OtherStepsKeepJournal, JournalKeptStatusKept
  <2> QED
    BY <2>1, <2>2
<1> QED
  BY <1>1, <1>2, SettleSafe, PTL DEF Spec, ImplementsOneShot, Promise!Spec
=============================================================================
