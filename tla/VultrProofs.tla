----------------------------- MODULE VultrProofs -----------------------------
(***************************************************************************)
(* Proofs about VultrLifecycle, for every quota, every number of faults and*)
(* every number of re-observations.  First the types, group of actions by  *)
(* group; then what one request can change of what a job relies on; then   *)
(* SafeInv, group by group, and the properties it implies.                 *)
(***************************************************************************)
EXTENDS VultrInv, FiniteSetTheorems, TLAPS

(* A set of one element has one.                                           *)
LEMMA OneIsSome ==
  ASSUME NEW S, Cardinality(S) = 1
  PROVE  S # {} /\ Only(S) \in S
<1>1. S # {}
  BY FS_EmptySet
<1> QED
  BY <1>1 DEF Only

(* The bounds are numbers, and None is no ID.                              *)
LEMMA Numbers ==
  /\ MaxObjects \in Nat /\ MaxFaults \in Nat /\ Attempts \in Nat \ {0}
  /\ None \notin Ids /\ Ids \subseteq Nat
  BY BoundsAssumption DEF None, Ids

(* The provider keeps the account well-formed.                             *)
LEMMA AppliedTyped ==
  ASSUME NEW c \in Account, NEW r \in Command, NEW known \in BOOLEAN,
         Found(r, c), Creates(r) => c.next <= MaxObjects
  PROVE  Applied(r, c, known) \in Account /\ Applied(r, c, known).next = c.next
<1>1. Creates(r) => c.next \in Ids
  BY Numbers DEF Account, Ids
<1>2. CASE r.op = "create"
  BY <1>1, <1>2 DEF Applied, Account, Creates, Command, Request, Instance
<1>3. CASE r.op = "destroy"
  BY <1>3 DEF Applied, Account
<1>4. CASE r.op = "vpcCreate"
  BY <1>1, <1>4 DEF Applied, Account, Creates
<1>5. CASE r.op = "vpcDelete"
  BY <1>5 DEF Applied, Account
<1>6. CASE r.op = "attach"
  BY <1>6 DEF Applied, Account, Found, Attachment, Instance
<1>7. CASE r.op = "detach"
  BY <1>7 DEF Applied, Account
<1>8. CASE r.op = "groupCreate"
  BY <1>1, <1>8 DEF Applied, Account, Creates, Group
<1>9. CASE r.op = "groupDelete"
  BY <1>9 DEF Applied, Account
<1>10. CASE r.op = "ruleCreate"
  BY <1>1, <1>10 DEF Applied, Account, Creates, Group, Rule, Command, Request
<1>11. CASE r.op = "ruleDelete"
  BY <1>11 DEF Applied, Account, Group
<1> QED
  BY <1>2, <1>3, <1>4, <1>5, <1>6, <1>7, <1>8, <1>9, <1>10, <1>11 DEF Command, Request

(* The provider's answer to a typed command is a typed account.            *)
LEMMA ProviderTyped ==
  ASSUME Typed, NEW r \in Command, ProviderApply(r)
  PROVE  cloud' \in Account
<1>1. PICK known \in BOOLEAN :
        cloud' = [Applied(r, cloud, known) EXCEPT !.next = IF Creates(r) THEN @ + 1 ELSE @]
  BY DEF ProviderApply
<1>2. Applied(r, cloud, known) \in Account /\ Applied(r, cloud, known).next = cloud.next
  BY AppliedTyped DEF ProviderApply, Typed
<1>3. (IF Creates(r) THEN cloud.next + 1 ELSE cloud.next) \in 1 .. MaxObjects + 1
  BY Numbers DEF ProviderApply, Typed, Account
<1> QED
  BY <1>1, <1>2, <1>3 DEF Account

(* A runner at rest is a job.                                              *)
LEMMA IdleTyped == Idle \in Job
<1>1. NoRequest \in Command
  BY DEF NoRequest, Command, Request
<1>2. NoAuthority \in Authority
  BY DEF NoAuthority, Authority
<1>3. 0 \in 0 .. Attempts
  BY Numbers
<1> QED
  BY <1>1, <1>2, Numbers DEF Idle, Job, Labels

(* Sending a command keeps the types.                                      *)
LEMMA SendTyped ==
  ASSUME Typed, NEW r \in Command, NEW wait \in Labels, Send(r, wait)
  PROVE  Typed'
<1>1. git' = git /\ issued' = issued
  BY DEF Send
<1>2. [job EXCEPT !.pc = wait, !.left = Attempts] \in Job
  <2>1. Attempts \in 0 .. Attempts
    BY Numbers
  <2>2. job \in Job
    BY DEF Typed
  <2> QED
    BY <2>1, <2>2 DEF Job
<1>3. job' \in Job
  BY <1>2, IdleTyped DEF Send, End
<1>4. cloud' \in Account /\ flight' \subseteq Command /\ late' \subseteq Ids
  BY ProviderTyped DEF Send, cloudVars, Typed
<1>5. faults' \in 0 .. MaxFaults
  BY Numbers DEF Send, cloudVars, Typed
<1> QED
  BY <1>1, <1>3, <1>4, <1>5 DEF Typed

(* A step of a job that sends nothing.                                     *)
LEMMA QuietTyped ==
  ASSUME Typed, UNCHANGED <<cloudVars, git, issued>>, job' \in Job
  PROVE  Typed'
  BY DEF Typed, cloudVars

(* A retry from another label, or its last failure, is a job.              *)
LEMMA AgainTyped ==
  ASSUME Typed, NEW l \in Labels, AgainFrom(l)
  PROVE  job' \in Job
<1> job \in Job
  BY DEF Typed
<1>1. CASE job.left > 1
  <2>1. job.left - 1 \in 0 .. Attempts
    BY <1>1, Numbers DEF Job
  <2> QED
    BY <1>1, <2>1 DEF AgainFrom, Job
<1>2. CASE ~(job.left > 1)
  BY <1>2, IdleTyped DEF AgainFrom, End
<1> QED
  BY <1>1, <1>2

(* A retry from the same label, or its last failure, is a job.             *)
LEMMA StayTyped ==
  ASSUME Typed, Again
  PROVE  job' \in Job
  BY AgainTyped DEF Again, Typed, Job

(* What a job reads of the account.                                        *)
LEMMA ObservedTyped ==
  ASSUME Typed
  PROVE  /\ Bindings(cloud) \subseteq Ids /\ OpenRules(cloud) \subseteq Ids
         /\ GroupIds(cloud) \subseteq Ids /\ TargetIds(cloud) \subseteq Ids
         /\ \A g : RulesOf(cloud, g) \subseteq Rule
         /\ \A v : AttsOf(cloud, v) \subseteq Attachment
         /\ Observe \subseteq InventoryRecord
<1>1. /\ Bindings(cloud) \subseteq Ids /\ GroupIds(cloud) \subseteq Ids
      /\ \A g : RulesOf(cloud, g) \subseteq Rule
  BY DEF Typed, Account, Group, Bindings, GroupIds, RulesOf
<1>2. OpenRules(cloud) \subseteq Ids
  BY DEF Typed, Account, Group, OpenRules, Specs, Rule
<1>3. TargetIds(cloud) \subseteq Ids /\ \A v : AttsOf(cloud, v) \subseteq Attachment
  BY DEF Typed, Account, TargetIds, Exact, AttsOf, Instance
<1>4. ASSUME NEW i \in cloud.inst
      PROVE  [mach |-> i, verified |-> i.fw \in job.bind] \in InventoryRecord
  <2>1. i \in Instance
    BY DEF Typed, Account
  <2> QED
    BY <2>1 DEF InventoryRecord
<1>5. Observe \subseteq InventoryRecord
  BY <1>4 DEF Observe, Inventory
<1> QED
  BY <1>1, <1>2, <1>3, <1>5

(* A job moves to a label, after it has noted what it read.                *)
LEMMA MoveTyped ==
  ASSUME NEW j \in Job, NEW l \in Labels
  PROVE  /\ [j EXCEPT !.pc = l] \in Job
         /\ GotoWith(j, l) => job' \in Job
         /\ End => job' \in Job
  BY IdleTyped DEF Job, GotoWith, End

(* Going on is a job.                                                      *)
LEMMA GotoTyped ==
  ASSUME Typed, NEW l \in Labels, Goto(l)
  PROVE  job' \in Job
  BY MoveTyped DEF Goto, Typed

(* What a job notes down while it runs is typed.                           *)
LEMMA NoteTyped ==
  ASSUME NEW j \in Job
  PROVE  /\ \A B \in SUBSET Ids : [j EXCEPT !.bind = B] \in Job
         /\ \A I \in SUBSET Instance : [j EXCEPT !.inv = I] \in Job
         /\ \A g \in Ids : [j EXCEPT !.grp = g] \in Job
         /\ \A t \in Ids \cup {None} : [j EXCEPT !.tgt = t] \in Job
         /\ \A v \in Ids : [j EXCEPT !.vpc = v] \in Job
         /\ \A r \in Command : [j EXCEPT !.req = r] \in Job
         /\ \A a \in Authority : [j EXCEPT !.auth = a] \in Job
         /\ \A p \in {"plan", "apply", "verify"} : [j EXCEPT !.pass = p] \in Job
  BY DEF Job

(* A command that first reads the bindings starts as a job.                *)
LEMMA StartTyped ==
  ASSUME Typed, NEW from, NEW to \in Labels, StartWithBindings(from, to)
  PROVE  Typed'
<1>1. [job EXCEPT !.bind = Bindings(cloud)] \in Job
  BY ObservedTyped, NoteTyped DEF Typed
<1>2. job' \in Job
  BY <1>1, IdleTyped, MoveTyped DEF StartWithBindings, GotoWith, End
<1> QED
  BY <1>2, QuietTyped DEF StartWithBindings

(* First use keeps the types.                                              *)
LEMMA FirstUseTyped ==
  ASSUME Typed, FirstUseSteps
  PROVE  Typed'
<1> job \in Job
  BY DEF Typed
<1>1. CASE StartWithBindings("fuBind", "fuInst") \/ StartWithBindings("fuBind2", "fuInst2")
  BY <1>1, StartTyped DEF Labels
<1>2. CASE FirstUse \/ CheckBranch
  <2>1. job' \in Job
    BY <1>2, IdleTyped, MoveTyped, GotoTyped DEF FirstUse, CheckBranch, Labels
  <2> QED
    BY <1>2, <2>1, QuietTyped DEF FirstUse, CheckBranch
<1>3. CASE Preflight("fuInst", "fuRefs") \/ Preflight("fuInst2", "fuBind3")
  <2>1. job' \in Job
    BY <1>3, MoveTyped, GotoTyped DEF Preflight, Labels
  <2> QED
    BY <1>3, <2>1, QuietTyped DEF Preflight
<1>4. CASE ReserveBranch \/ RecordBegin \/ RunnerCapability \/ Created
  <2>1. job' \in Job
    BY <1>4, GotoTyped, MoveTyped DEF ReserveBranch, RecordBegin, RunnerCapability, Created, Labels
  <2>2. git' \in [branch : BOOLEAN, run : Runs]
    <3>1. git \in [branch : BOOLEAN, run : Runs]
      BY DEF Typed
    <3>2. \/ git' = [branch |-> TRUE, run |-> "none"]
          \/ \E r \in {"begun", "entered", "skipped", "created"} : git' = [git EXCEPT !.run = r]
      BY <1>4 DEF ReserveBranch, RecordBegin, RunnerCapability, Created
    <3>3. [branch |-> TRUE, run |-> "none"] \in [branch : BOOLEAN, run : Runs]
      BY DEF Runs
    <3>4. ASSUME NEW r \in {"begun", "entered", "skipped", "created"}
          PROVE  [git EXCEPT !.run = r] \in [branch : BOOLEAN, run : Runs]
      <4>1. r \in Runs
        BY DEF Runs
      <4> QED
        BY <3>1, <4>1
    <3> QED
      BY <3>2, <3>3, <3>4
  <2> QED
    BY <1>4, <2>1, <2>2
       DEF ReserveBranch, RecordBegin, RunnerCapability, Created, cloudVars, Typed
<1>5. CASE FirstUseFirewall
  <2> DEFINE b == Bindings(cloud)
             j == [job EXCEPT !.bind = b, !.ret = "fuPlan", !.want = "keep"]
  <2>1. [job EXCEPT !.bind = b] \in Job /\ j \in Job
    BY ObservedTyped DEF Job
  <2>2. End \/ GotoWith([job EXCEPT !.bind = b], "fuPlan") \/ GotoWith(j, "fwObserve")
    BY <1>5 DEF FirstUseFirewall
  <2>3. job' \in Job
    BY <2>1, <2>2, MoveTyped DEF Labels, EnsureLabels
  <2> QED
    BY <1>5, <2>3, QuietTyped DEF FirstUseFirewall
<1>6. CASE FirstUsePlan \/ FirstUseVerify
  <2> DEFINE j == [job EXCEPT !.auth.inv = Observe]
  <2>1. j \in Job
    BY ObservedTyped DEF Job, Authority
  <2>2. End \/ GotoWith(j, "fuApply") \/ Goto("fuSend")
    BY <1>6 DEF FirstUsePlan, FirstUseVerify
  <2>3. job' \in Job
    BY <2>1, <2>2, MoveTyped, GotoTyped DEF Labels
  <2> QED
    BY <1>6, <2>3, QuietTyped DEF FirstUsePlan, FirstUseVerify
<1>7. CASE SendCreate
  <2>1. PICK b \in job.bind : Send([NoRequest EXCEPT !.op = "create", !.arg = b], "fuWait")
    BY <1>7 DEF SendCreate
  <2>2. [NoRequest EXCEPT !.op = "create", !.arg = b] \in Command
    BY <2>1 DEF Job, NoRequest, Command, Request
  <2> QED
    BY <2>1, <2>2, SendTyped DEF Labels
<1>8. CASE ReobserveCreated
  <2>1. Again \/ Goto("created") \/ End
    BY <1>8 DEF ReobserveCreated
  <2>2. job' \in Job
    BY <2>1, MoveTyped, GotoTyped, StayTyped DEF Labels
  <2> QED
    BY <1>8, <2>2, QuietTyped DEF ReobserveCreated
<1> QED
  BY <1>1, <1>2, <1>3, <1>4, <1>5, <1>6, <1>7, <1>8 DEF FirstUseSteps

(* The abort of a first use keeps the types.                               *)
LEMMA AbortTyped ==
  ASSUME Typed, AbortSteps
  PROVE  Typed'
<1> job \in Job
  BY DEF Typed
<1>1. CASE StartWithBindings("abBind", "abInst")
  BY <1>1, StartTyped DEF Labels
<1>2. CASE AbortFirstUse \/ Preflight("abInst", "abRef")
  <2>1. job' \in Job
    BY <1>2, IdleTyped, MoveTyped, GotoTyped DEF AbortFirstUse, Preflight, Labels
  <2> QED
    BY <1>2, <2>1, QuietTyped DEF AbortFirstUse, Preflight
<1>3. CASE Reconcile
  <2>1. job' \in Job
    BY <1>3, IdleTyped DEF Reconcile, End
  <2>2. git' \in [branch : BOOLEAN, run : Runs]
    BY <1>3 DEF Reconcile, NoReservation, Typed, Runs
  <2> QED
    BY <1>3, <2>1, <2>2 DEF Reconcile, cloudVars, Typed
<1> QED
  BY <1>1, <1>2, <1>3 DEF AbortSteps

(* Ensuring the firewall group keeps the types.                            *)
LEMMA EnsureTyped ==
  ASSUME Typed, Ensure
  PROVE  Typed'
<1> job \in Job
  BY DEF Typed
<1>1. CASE EnsureObserve \/ EnsureVisible
  <2>1. \A g \in cloud.groups : [job EXCEPT !.grp = g.id] \in Job
    BY NoteTyped DEF Typed, Account, Group
  <2>2. \/ End \/ Goto("fwCreate") \/ Again
        \/ \E g \in cloud.groups : GotoWith([job EXCEPT !.grp = g.id], "fwRules")
    BY <1>1 DEF EnsureObserve, EnsureVisible
  <2>3. job' \in Job
    BY <2>1, <2>2, MoveTyped, GotoTyped, StayTyped DEF Labels, EnsureLabels
  <2> QED
    BY <1>1, <2>3, QuietTyped DEF EnsureObserve, EnsureVisible
<1>2. CASE EnsureCreate
  <2>1. [NoRequest EXCEPT !.op = "groupCreate"] \in Command
    BY DEF NoRequest, Command, Request
  <2> QED
    BY <1>2, <2>1, SendTyped DEF EnsureCreate, Labels, EnsureLabels
<1>3. CASE EnsureRules
  <2> DEFINE rules == RulesOf(cloud, job.grp)
             Drop(x) == RuleRequest("ruleDelete", job.grp, x.id, "none")
             Add(s) == RuleRequest("ruleCreate", job.grp, None, s)
  <2>1. rules \subseteq Rule /\ (job.grp \in GroupIds(cloud) => job.grp \in Ids)
    BY ObservedTyped
  <2>2. /\ \A x \in Surplus(rules) : Drop(x) \in Command
        /\ \A s \in Missing(rules) : Add(s) \in Command
    BY <2>1 DEF Surplus, Managed, Missing, Wanted, RuleRequest, Command, Request, Job, Rule
  <2>3. /\ \A x \in Surplus(rules) : [job EXCEPT !.req = Drop(x)] \in Job
        /\ \A s \in Missing(rules) : [job EXCEPT !.req = Add(s)] \in Job
        /\ job.grp \in Ids => [job EXCEPT !.bind = @ \cup {job.grp}] \in Job
        /\ job.ret \in Labels
    <3>1. job.grp \in Ids => job.bind \cup {job.grp} \in SUBSET Ids
      BY DEF Job
    <3>2. job.ret \in Labels
      BY DEF Job, Labels
    <3> QED
      BY <2>2, <3>1, <3>2, NoteTyped
  <2>4. \/ End
        \/ job.grp \in Ids /\ GotoWith([job EXCEPT !.bind = @ \cup {job.grp}], job.ret)
        \/ \E x \in Surplus(rules) : GotoWith([job EXCEPT !.req = Drop(x)], "fwSend")
        \/ \E s \in Missing(rules) : GotoWith([job EXCEPT !.req = Add(s)], "fwSend")
    BY <1>3, <2>1 DEF EnsureRules
  <2>5. job' \in Job
    BY <2>3, <2>4, MoveTyped DEF Labels, EnsureLabels
  <2> QED
    BY <1>3, <2>5, QuietTyped DEF EnsureRules
<1>4. CASE EnsureSend
  BY <1>4, SendTyped DEF EnsureSend, Job, Labels, EnsureLabels
<1>5. CASE EnsureSettle
  <2>1. End \/ Goto("fwRules") \/ Again
    BY <1>5 DEF EnsureSettle
  <2>2. job' \in Job
    BY <2>1, MoveTyped, GotoTyped, StayTyped DEF Labels, EnsureLabels
  <2> QED
    BY <1>5, <2>2, QuietTyped DEF EnsureSettle
<1> QED
  BY <1>1, <1>2, <1>3, <1>4, <1>5 DEF Ensure
(* Apply and acquire keep the types.                                       *)
LEMMA ApplyTyped ==
  ASSUME Typed, ApplySteps \/ AcquireSteps
  PROVE  Typed'
<1> job \in Job
  BY DEF Typed
<1>1. CASE StartWithBindings("gaBind", "gaPlan")
  BY <1>1, StartTyped DEF Labels
<1>2. CASE ApplyMachine
  <2>1. [Idle EXCEPT !.ret = "gaAfter"] \in Job
    BY IdleTyped DEF Job
  <2>2. job' \in Job
    BY <1>2, <2>1, MoveTyped DEF ApplyMachine, Labels
  <2> QED
    BY <1>2, <2>2, QuietTyped DEF ApplyMachine
<1>3. CASE ApplyPlan
  <2> DEFINE j == [job EXCEPT !.auth.inv = Observe]
  <2>1. j \in Job /\ [j EXCEPT !.pass = "apply"] \in Job
    BY ObservedTyped DEF Job, Authority
  <2>2. End \/ GotoWith([j EXCEPT !.pass = "apply"], "gaAfter") \/ GotoWith(j, "fwObserve")
    BY <1>3 DEF ApplyPlan
  <2>3. job' \in Job
    BY <2>1, <2>2, MoveTyped DEF Labels, EnsureLabels
  <2> QED
    BY <1>3, <2>3, QuietTyped DEF ApplyPlan
<1>4. CASE ApplyAfter \/ ApplyVerify \/ AcquireCheck \/ AcquireVerify
  <2>1. End \/ Goto("gaApply") \/ Goto("fwObserve")
    BY <1>4 DEF ApplyAfter, ApplyVerify, AcquireCheck, AcquireVerify
  <2>2. job' \in Job
    BY <2>1, MoveTyped, GotoTyped DEF Labels, EnsureLabels
  <2> QED
    BY <1>4, <2>2, QuietTyped DEF ApplyAfter, ApplyVerify, AcquireCheck, AcquireVerify
<1>5. CASE Acquire
  <2>1. [Idle EXCEPT !.want = "ctl", !.ret = "acqCheck"] \in Job
    BY IdleTyped DEF Job
  <2>2. job' \in Job
    BY <1>5, <2>1, MoveTyped DEF Acquire, Labels
  <2> QED
    BY <1>5, <2>2, QuietTyped DEF Acquire
<1>6. CASE AcquirePlan
  <2> DEFINE j == [job EXCEPT !.auth.inv = cloud.inst, !.auth.atts = cloud.groups]
  <2>1. j \in Job
    BY DEF Typed, Account, Job, Authority
  <2>2. End \/ GotoWith(j, "acqVerify")
    BY <1>6 DEF AcquirePlan
  <2>3. job' \in Job
    BY <2>1, <2>2, MoveTyped DEF Labels
  <2> QED
    BY <1>6, <2>3, QuietTyped DEF AcquirePlan
<1> QED
  BY <1>1, <1>2, <1>3, <1>4, <1>5, <1>6 DEF ApplySteps, AcquireSteps

(* Release keeps the types.                                                *)
LEMMA ReleaseTyped ==
  ASSUME Typed, ReleaseSteps
  PROVE  Typed'
<1> job \in Job
  BY DEF Typed
<1>1. CASE Release \/ ReleasePlan
  <2> DEFINE j == [job EXCEPT !.auth.inv = cloud.groups]
  <2>1. [Idle EXCEPT !.want = "ctl"] \in Job
    BY IdleTyped DEF Job
  <2>2. j \in Job
    BY DEF Typed, Account, Job, Authority
  <2>3. End \/ GotoWith([Idle EXCEPT !.want = "ctl"], "relPlan") \/ GotoWith(j, "relVerify")
    BY <1>1 DEF Release, ReleasePlan
  <2>4. job' \in Job
    BY <2>1, <2>2, <2>3, MoveTyped DEF Labels
  <2> QED
    BY <1>1, <2>4, QuietTyped DEF Release, ReleasePlan
<1>2. CASE ReleaseVerify
  <2> DEFINE Note(g) == [job EXCEPT !.grp = g.id, !.bind = OpenRules(cloud)]
  <2>1. \A g \in cloud.groups : g.id \in Ids
    BY DEF Typed, Account, Group
  <2>2. \A g \in cloud.groups : Note(g) \in Job
    BY <2>1, ObservedTyped DEF Job
  <2>3. End \/ Goto("released") \/ \E g \in cloud.groups : GotoWith(Note(g), "relNext")
    BY <1>2 DEF ReleaseVerify
  <2>4. job' \in Job
    BY <2>2, <2>3, MoveTyped, GotoTyped DEF Labels
  <2> QED
    BY <1>2, <2>4, QuietTyped DEF ReleaseVerify
<1>3. CASE ReleaseNext
  <2> DEFINE Drop(x) == RuleRequest("ruleDelete", job.grp, x, "none")
             Note(x) == [job EXCEPT !.bind = @ \ {x}, !.req = Drop(x)]
  <2>1. \A x \in job.bind : Drop(x) \in Command
    BY DEF RuleRequest, Command, Request, Job
  <2>2. \A x \in job.bind : Note(x) \in Job
    BY <2>1 DEF Job
  <2>3. End \/ Goto("released") \/ \E x \in job.bind : GotoWith(Note(x), "relSend")
    BY <1>3 DEF ReleaseNext
  <2>4. job' \in Job
    BY <2>2, <2>3, MoveTyped, GotoTyped DEF Labels
  <2> QED
    BY <1>3, <2>4, QuietTyped DEF ReleaseNext
<1>4. CASE ReleaseSend
  BY <1>4, SendTyped DEF ReleaseSend, Job, Labels
<1>5. CASE ReleaseSettle \/ Released
  <2>1. End \/ Goto("relNext") \/ Again
    BY <1>5 DEF ReleaseSettle, Released
  <2>2. job' \in Job
    BY <2>1, MoveTyped, GotoTyped, StayTyped DEF Labels
  <2> QED
    BY <1>5, <2>2, QuietTyped DEF ReleaseSettle, Released
<1> QED
  BY <1>1, <1>2, <1>3, <1>4, <1>5 DEF ReleaseSteps

(* Destroy keeps the types.                                                *)
LEMMA DestroyTyped ==
  ASSUME Typed, DestroySteps
  PROVE  Typed'
<1> job \in Job
  BY DEF Typed
<1>1. CASE StartWithBindings("dpBind", "dpInst") \/ StartWithBindings("ddBind", "ddInst")
  BY <1>1, StartTyped DEF Labels
<1>2. CASE PlanDestroy \/ Destroy
  <2>1. [Idle EXCEPT !.auth = issued] \in Job
    BY IdleTyped, NoteTyped DEF Typed
  <2>2. job' \in Job
    BY <1>2, <2>1, IdleTyped, MoveTyped DEF PlanDestroy, Destroy, Labels
  <2> QED
    BY <1>2, <2>2, QuietTyped DEF PlanDestroy, Destroy
<1>3. ASSUME Cardinality(Owned(Observe)) = 1
      PROVE  (CHOOSE r \in Owned(Observe) : TRUE).mach.id \in Ids
  <2>1. Only(Owned(Observe)) \in Owned(Observe)
    BY <1>3, OneIsSome
  <2>2. Only(Owned(Observe)) \in InventoryRecord
    BY <2>1, ObservedTyped DEF Owned
  <2> QED
    BY <2>2 DEF Only, InventoryRecord, Instance
<1>4. CASE IssueDestroy
  <2> DEFINE t == (CHOOSE r \in Owned(Observe) : TRUE).mach.id
             a == [NoAuthority EXCEPT !.inv = Observe, !.top = cloud.next, !.tgt = t]
  <2>1. Cardinality(Owned(Observe)) = 1 => a \in Authority
    <3>1. cloud.next \in Nat
      BY Numbers DEF Typed, Account
    <3> HIDE DEF t
    <3>2. t \in Ids => a \in Authority
      BY <3>1, ObservedTyped DEF NoAuthority, Authority
    <3> QED
      BY <1>3, <3>2 DEF t
  <2>2. (issued' = a /\ Cardinality(Owned(Observe)) = 1) \/ issued' = issued
    BY <1>4 DEF IssueDestroy
  <2>3. issued' \in Authority
    BY <2>1, <2>2 DEF Typed
  <2>4. job' \in Job
    BY <1>4, IdleTyped DEF IssueDestroy, End
  <2> QED
    BY <1>4, <2>3, <2>4 DEF IssueDestroy, cloudVars, Typed
<1>5. CASE DestroyVerify
  <2> DEFINE t == (CHOOSE r \in Owned(Observe) : TRUE).mach.id
  <2>1. End \/ (Cardinality(Owned(Observe)) = 1 /\ GotoWith([job EXCEPT !.tgt = t], "ddSend"))
    BY <1>5 DEF DestroyVerify, DestroyAuthorized
  <2> HIDE DEF t
  <2>2. t \in Ids => [job EXCEPT !.tgt = t] \in Job
    BY NoteTyped
  <2>3. job' \in Job
    BY <1>3, <2>1, <2>2, MoveTyped DEF Labels, t
  <2> QED
    BY <1>5, <2>3, QuietTyped DEF DestroyVerify
<1>6. CASE SendDestroy
  <2>1. [NoRequest EXCEPT !.op = "destroy", !.on = job.tgt] \in Command
    BY DEF NoRequest, Command, Request, Job
  <2> QED
    BY <1>6, <2>1, SendTyped DEF SendDestroy, Labels
<1>7. CASE WaitForAbsence
  <2>1. job' \in Job
    BY <1>7, IdleTyped, StayTyped DEF WaitForAbsence, End
  <2> QED
    BY <1>7, <2>1, QuietTyped DEF WaitForAbsence
<1> QED
  BY <1>1, <1>2, <1>4, <1>5, <1>6, <1>7 DEF DestroySteps
(* What is noted of the one VPC and the one target.                        *)
LEMMA OnlyTyped ==
  ASSUME Typed
  PROVE  /\ Cardinality(cloud.vpcs) = 1 => [job EXCEPT !.vpc = Only(cloud.vpcs)] \in Job
         /\ Cardinality(TargetIds(cloud)) = 1 => [job EXCEPT !.tgt = Only(TargetIds(cloud))] \in Job
<1>1. Cardinality(cloud.vpcs) = 1 => Only(cloud.vpcs) \in Ids
  BY OneIsSome DEF Typed, Account
<1>2. Cardinality(TargetIds(cloud)) = 1 => Only(TargetIds(cloud)) \in Ids
  BY OneIsSome, ObservedTyped
<1> QED
  BY <1>1, <1>2, NoteTyped DEF Typed

(* Looking for the exact VPC keeps the types.                              *)
LEMMA ExactVpcTyped ==
  ASSUME Typed, NEW from, NEW to \in Labels, ExactVpc(from, to)
  PROVE  Typed'
<1>1. job' \in Job
  BY OnlyTyped, IdleTyped, MoveTyped DEF ExactVpc, End
<1> QED
  BY <1>1, QuietTyped DEF ExactVpc

(* The authority a VPC command issues is typed.                            *)
LEMMA VpcAuthorityTyped ==
  ASSUME Typed, NEW t \in Ids \cup {None}
  PROVE  VpcAuthority(t, job.vpc, AttsOf(cloud, job.vpc)) \in Authority
<1>1. job.vpc \in Ids \cup {None}
  BY DEF Typed, Job
<1> QED
  BY <1>1, ObservedTyped DEF VpcAuthority, NoAuthority, Authority

(* VPC convergence keeps the types.                                        *)
LEMMA ConvergeTyped ==
  ASSUME Typed, ConvergeSteps
  PROVE  Typed'
<1> job \in Job
  BY DEF Typed
<1>1. CASE Converge \/ VpcPlan \/ VpcVerify \/ WaitForVpc \/ Ready
  <2>1. \/ End \/ Again \/ GotoWith(Idle, "vPlan") \/ Goto("aTarget") \/ Goto("vVerify")
        \/ Goto("vSend")
    BY <1>1 DEF Converge, VpcPlan, VpcVerify, WaitForVpc, Ready
  <2>2. job' \in Job
    BY <2>1, IdleTyped, MoveTyped, GotoTyped, StayTyped DEF Labels
  <2> QED
    BY <1>1, <2>2, QuietTyped DEF Converge, VpcPlan, VpcVerify, WaitForVpc, Ready
<1>2. CASE SendVpc
  <2>1. [NoRequest EXCEPT !.op = "vpcCreate"] \in Command
    BY DEF NoRequest, Command, Request
  <2> QED
    BY <1>2, <2>1, SendTyped DEF SendVpc, Labels
<1>3. CASE ResolveTarget
  <2>1. job' \in Job
    BY <1>3, OnlyTyped, MoveTyped DEF ResolveTarget, Labels
  <2> QED
    BY <1>3, <2>1, QuietTyped DEF ResolveTarget
<1>4. CASE ExactVpc("aVpc", "aAtts") \/ ExactVpc("aWaitVpc", "aWaitAtts") \/ ExactVpc("aReady", "ready")
  BY <1>4, ExactVpcTyped DEF Labels
<1>5. CASE AttachmentPlan
  <2> DEFINE a == VpcAuthority(job.tgt, job.vpc, AttsOf(cloud, job.vpc))
             j == [job EXCEPT !.pass = "apply", !.auth = a]
  <2>1. a \in Authority
    BY VpcAuthorityTyped DEF Job
  <2>2. j \in Job /\ [job EXCEPT !.pass = "verify"] \in Job
    <3> HIDE DEF a
    <3> QED
      BY <2>1 DEF Job
  <2>3. \/ End \/ Goto("aReady") \/ Goto("aSend") \/ GotoWith(j, "aTarget")
        \/ GotoWith([job EXCEPT !.pass = "verify"], "aTarget")
    BY <1>5 DEF AttachmentPlan
  <2>4. job' \in Job
    <3> HIDE DEF a
    <3> QED
      BY <2>2, <2>3, MoveTyped, GotoTyped DEF Labels
  <2> QED
    BY <1>5, <2>4, QuietTyped DEF AttachmentPlan
<1>6. CASE SendAttach
  <2>1. [NoRequest EXCEPT !.op = "attach", !.on = job.tgt, !.arg = job.vpc] \in Command
    BY DEF NoRequest, Command, Request, Job
  <2> QED
    BY <1>6, <2>1, SendTyped DEF SendAttach, Labels
<1>7. CASE WaitForAttachment \/ GuestReady
  <2>1. [job EXCEPT !.pass = "verify"] \in Job
    BY NoteTyped
  <2>2. \/ End \/ AgainFrom("aWaitVpc") \/ Goto("aGuest")
        \/ GotoWith([job EXCEPT !.pass = "verify"], "aTarget")
    BY <1>7 DEF WaitForAttachment, GuestReady
  <2>3. job' \in Job
    BY <2>1, <2>2, MoveTyped, GotoTyped, AgainTyped DEF Labels
  <2> QED
    BY <1>7, <2>3, QuietTyped DEF WaitForAttachment, GuestReady
<1> QED
  BY <1>1, <1>2, <1>3, <1>4, <1>5, <1>6, <1>7 DEF ConvergeSteps

(* VPC cleanup keeps the types.                                            *)
LEMMA CleanupTyped ==
  ASSUME Typed, CleanupVpcSteps
  PROVE  Typed'
<1> job \in Job
  BY DEF Typed
<1>1. /\ [Idle EXCEPT !.rounds = Rounds] \in Job
      /\ job.rounds > 1 => [Idle EXCEPT !.rounds = job.rounds - 1] \in Job
  <2>1. job.rounds > 1 => job.rounds - 1 \in Nat
    BY DEF Job
  <2> QED
    BY <2>1, IdleTyped DEF Job, Rounds
<1>2. NextRound => job' \in Job
  BY <1>1, MoveTyped DEF NextRound, Labels
<1>3. CASE CleanupVpc \/ CleanupListVpcs \/ CleanupTargetAgain \/ VpcAbsent
  <2>1. \/ End \/ GotoWith([Idle EXCEPT !.rounds = Rounds], "cVpc") \/ Goto("vpcAbsent")
        \/ Goto("cDetach")
        \/ Cardinality(cloud.vpcs) = 1
           /\ GotoWith([job EXCEPT !.vpc = Only(cloud.vpcs)], "cTarget")
    BY <1>3 DEF CleanupVpc, CleanupListVpcs, CleanupTargetAgain, VpcAbsent
  <2>2. job' \in Job
    BY <1>1, <2>1, OnlyTyped, MoveTyped, GotoTyped DEF Labels
  <2> QED
    BY <1>3, <2>2, QuietTyped DEF CleanupVpc, CleanupListVpcs, CleanupTargetAgain, VpcAbsent
<1>4. CASE CleanupTarget \/ WaitCleanupTarget
  <2>1. [job EXCEPT !.tgt = None] \in Job
    BY NoteTyped
  <2>2. \/ End
        \/ \E l \in {"cAtts", "cWaitAtts"} :
             \/ GotoWith([job EXCEPT !.tgt = None], l)
             \/ Cardinality(TargetIds(cloud)) = 1
                /\ GotoWith([job EXCEPT !.tgt = Only(TargetIds(cloud))], l)
    BY <1>4 DEF CleanupTarget, WaitCleanupTarget
  <2>3. job' \in Job
    BY <2>1, <2>2, OnlyTyped, MoveTyped DEF Labels
  <2> QED
    BY <1>4, <2>3, QuietTyped DEF CleanupTarget, WaitCleanupTarget
<1>5. CASE CleanupPlan
  <2> DEFINE atts == AttsOf(cloud, job.vpc)
             t == IF PlanCleanup(job.vpc, atts, job.tgt) = "detach" THEN job.tgt ELSE None
             a == VpcAuthority(t, job.vpc, atts)
             j == [job EXCEPT !.pass = "apply", !.auth = a]
  <2>1. a \in Authority
    BY VpcAuthorityTyped DEF Job
  <2>2. End \/ Goto("cTarget2") \/ Goto("cDelete") \/ GotoWith(j, "cVpc")
    BY <1>5 DEF CleanupPlan
  <2> HIDE DEF a
  <2>3. j \in Job
    BY <2>1 DEF Job
  <2>4. job' \in Job
    BY <2>2, <2>3, MoveTyped, GotoTyped DEF Labels
  <2> QED
    BY <1>5, <2>4, QuietTyped DEF CleanupPlan
<1>6. CASE SendDetach \/ SendVpcDelete
  <2>1. /\ [NoRequest EXCEPT !.op = "detach", !.on = job.auth.tgt, !.arg = job.vpc] \in Command
        /\ [NoRequest EXCEPT !.op = "vpcDelete", !.on = job.vpc] \in Command
    BY DEF NoRequest, Command, Request, Job, Authority
  <2> QED
    BY <1>6, <2>1, SendTyped DEF SendDetach, SendVpcDelete, Labels
<1>7. CASE WaitCleanupVpc \/ WaitCleanupAtts
  <2>1. \/ End \/ Again \/ AgainFrom("cWaitVpc") \/ NextRound
        \/ Cardinality(cloud.vpcs) = 1
           /\ GotoWith([job EXCEPT !.vpc = Only(cloud.vpcs)], "cWaitTarget")
    BY <1>7 DEF WaitCleanupVpc, WaitCleanupAtts
  <2>2. job' \in Job
    BY <1>2, <2>1, OnlyTyped, MoveTyped, StayTyped, AgainTyped DEF Labels
  <2> QED
    BY <1>7, <2>2, QuietTyped DEF WaitCleanupVpc, WaitCleanupAtts
<1> QED
  BY <1>3, <1>4, <1>5, <1>6, <1>7 DEF CleanupVpcSteps

(* Support cleanup keeps the types.                                        *)
LEMMA CleanupSupportTyped ==
  ASSUME Typed, CleanupSupportSteps
  PROVE  Typed'
<1> job \in Job
  BY DEF Typed
<1>1. CASE CleanupSupport \/ CleanupInstances \/ CleanupSettle
  <2>1. [job EXCEPT !.inv = cloud.inst] \in Job /\ [job EXCEPT !.pass = "verify"] \in Job
    BY NoteTyped DEF Typed, Account
  <2>2. \/ GotoWith(Idle, "csInst") \/ GotoWith([job EXCEPT !.inv = cloud.inst], "csGroups")
        \/ GotoWith([job EXCEPT !.pass = "verify"], "csInst") \/ Again
    BY <1>1 DEF CleanupSupport, CleanupInstances, CleanupSettle
  <2>3. job' \in Job
    BY <2>1, <2>2, IdleTyped, MoveTyped, StayTyped DEF Labels
  <2> QED
    BY <1>1, <2>3, QuietTyped DEF CleanupSupport, CleanupInstances, CleanupSettle
<1>2. CASE CleanupGroups
  <2> DEFINE Drop(g) == [NoRequest EXCEPT !.op = "groupDelete", !.on = g.id]
             Note(g) == [job EXCEPT !.grp = g.id, !.req = Drop(g)]
  <2>1. \A g \in cloud.groups : g.id \in Ids
    BY DEF Typed, Account, Group
  <2>2. \A g \in cloud.groups : Drop(g) \in Command
    BY <2>1 DEF NoRequest, Command, Request
  <2>3. \A g \in cloud.groups : Note(g) \in Job
    BY <2>1, <2>2 DEF Job
  <2>4. End \/ \E g \in cloud.groups : GotoWith(Note(g), "csSend")
    BY <1>2 DEF CleanupGroups
  <2>5. job' \in Job
    BY <2>3, <2>4, MoveTyped DEF Labels
  <2> QED
    BY <1>2, <2>5, QuietTyped DEF CleanupGroups
<1>3. CASE CleanupSend
  BY <1>3, SendTyped DEF CleanupSend, Job, Labels
<1> QED
  BY <1>1, <1>2, <1>3 DEF CleanupSupportSteps

(* The provider, failures and a new epoch keep the types.                  *)
LEMMA EnvironmentTyped ==
  ASSUME Typed, Environment \/ NewEpoch
  PROVE  Typed'
<1>1. CASE LateEffect
  <2>1. PICK r \in flight :
          /\ \/ /\ ProviderApply(r)
                /\ late' = late \cup (CASE Creates(r) -> {cloud.next}
                                        [] r.op = "attach" -> {r.arg}
                                        [] OTHER -> {})
             \/ UNCHANGED <<cloud, late>>
          /\ flight' = flight \ {r}
          /\ UNCHANGED <<faults, job, git, issued>>
    BY <1>1 DEF LateEffect
  <2>2. r \in Command
    BY DEF Typed
  <2>3. cloud' \in Account
    BY <2>1, <2>2, ProviderTyped DEF Typed
  <2>4. ProviderApply(r) => /\ Creates(r) => cloud.next \in Ids
                            /\ r.op = "attach" => r.arg \in Ids
    BY Numbers DEF ProviderApply, Found, Typed, Account, Ids
  <2>5. late' \subseteq Ids
    BY <2>1, <2>4 DEF Typed
  <2> QED
    BY <2>1, <2>3, <2>5 DEF Typed
<1>2. CASE AttachmentLinked
  <2>1. cloud' \in Account
    <3>1. PICK a \in cloud.atts :
            cloud' = [cloud EXCEPT !.atts = (@ \ {a}) \cup {[a EXCEPT !.known = TRUE]}]
      BY <1>2 DEF AttachmentLinked
    <3>2. [a EXCEPT !.known = TRUE] \in Attachment
      BY DEF Typed, Account, Attachment
    <3> QED
      BY <3>1, <3>2 DEF Typed, Account
  <2> QED
    BY <1>2, <2>1 DEF AttachmentLinked, Typed
<1>3. CASE InstanceDrifts
  <2>1. cloud' \in Account
    <3>1. PICK i \in cloud.inst, d \in {"update", "replace"} :
            cloud' = [cloud EXCEPT !.inst = (@ \ {i}) \cup {[i EXCEPT !.drift = d]}]
      BY <1>3 DEF InstanceDrifts, Exact
    <3>2. [i EXCEPT !.drift = d] \in Instance
      BY DEF Typed, Account, Instance
    <3> QED
      BY <3>1, <3>2 DEF Typed, Account
  <2>2. faults' \in 0 .. MaxFaults
    BY <1>3, Numbers DEF InstanceDrifts, Typed
  <2> QED
    BY <1>3, <2>1, <2>2 DEF InstanceDrifts, Typed
<1>4. CASE Killed
  <2>1. faults' \in 0 .. MaxFaults
    BY <1>4, Numbers DEF Killed, Typed
  <2> QED
    BY <1>4, <2>1, IdleTyped DEF Killed, End, Typed
<1>5. CASE NewEpoch
  BY <1>5 DEF NewEpoch, NoReservation, Runs, cloudVars, Typed
<1> QED
  BY <1>1, <1>2, <1>3, <1>4, <1>5 DEF Environment

(* The types hold.                                                         *)
LEMMA VultrTyped == Spec => []Typed
<1>1. Init => Typed
  <2> SUFFICES ASSUME Init PROVE Typed
    OBVIOUS
  <2>1. PICK own \in {"none", "conflict", "other"} :
          LET inst == IF own = "none" THEN {}
                      ELSE {[id |-> 1, own |-> own, fw |-> None, drift |-> "none"]} IN
          cloud = [inst |-> inst, vpcs |-> {}, atts |-> {}, groups |-> {},
                   next |-> Cardinality(inst) + 1]
    BY DEF Init
  <2>2. 1 \in Ids /\ 1 \in 1 .. MaxObjects + 1 /\ 2 \in 1 .. MaxObjects + 1
    BY BoundsAssumption DEF Ids
  <2>3. ASSUME own = "none" PROVE cloud \in Account
    BY <2>1, <2>2, <2>3, FS_EmptySet DEF Account
  <2>4. ASSUME own # "none" PROVE cloud \in Account
    <3> DEFINE i == [id |-> 1, own |-> own, fw |-> None, drift |-> "none"]
    <3>1. i \in Instance
      BY <2>2, <2>4 DEF Instance
    <3>2. Cardinality({i}) = 1
      BY FS_Singleton
    <3>3. cloud = [inst |-> {i}, vpcs |-> {}, atts |-> {}, groups |-> {}, next |-> 2]
      BY <2>1, <2>4, <3>2
    <3> QED
      BY <2>2, <3>1, <3>3 DEF Account
  <2>5. NoAuthority \in Authority
    BY DEF NoAuthority, Authority
  <2> QED
    BY <2>3, <2>4, <2>5, IdleTyped, Numbers DEF Init, Typed, NoReservation, Runs
<1>2. Typed /\ [Next]_vars => Typed'
  <2> SUFFICES ASSUME Typed, [Next]_vars PROVE Typed'
    OBVIOUS
  <2>1. CASE Next
    BY <2>1, FirstUseTyped, AbortTyped, EnsureTyped, ApplyTyped, ReleaseTyped, DestroyTyped,
       ConvergeTyped, CleanupTyped, CleanupSupportTyped, EnvironmentTyped DEF Next
  <2>2. CASE UNCHANGED vars
    BY <2>2 DEF vars, Typed
  <2> QED
    BY <2>1, <2>2
<1> QED
  BY <1>1, <1>2, PTL DEF Spec
-----------------------------------------------------------------------------
(* What one request of the provider can change of what the jobs rely on:   *)
(* the instances, ...                                                      *)
LEMMA ProviderFields ==
  ASSUME Typed, NEW r \in Command, ProviderApply(r)
  PROVE  \E known \in BOOLEAN, c \in Account :
           /\ c = Applied(r, cloud, known)
           /\ cloud'.inst = c.inst /\ cloud'.atts = c.atts /\ cloud'.groups = c.groups
           /\ cloud'.next = IF Creates(r) THEN cloud.next + 1 ELSE cloud.next
<1>1. PICK known \in BOOLEAN :
        cloud' = [Applied(r, cloud, known) EXCEPT !.next = IF Creates(r) THEN @ + 1 ELSE @]
  BY DEF ProviderApply
<1>2. PICK c \in Account : c = Applied(r, cloud, known) /\ c.next = cloud.next
  BY AppliedTyped DEF ProviderApply, Typed
<1> QED
  BY <1>1, <1>2 DEF Account

(* What a command does to the machines and to the next ID.                 *)
LEMMA ProviderInstances ==
  ASSUME Typed, NEW r \in Command, ProviderApply(r)
  PROVE  /\ r.op # "create" => cloud'.inst \subseteq cloud.inst
         /\ r.op = "create" =>
              cloud'.inst = cloud.inst \cup
                {[id |-> cloud.next, own |-> "exact", fw |-> r.arg, drift |-> "none"]}
         /\ cloud'.next = IF Creates(r) THEN cloud.next + 1 ELSE cloud.next
<1>1. PICK known \in BOOLEAN, c \in Account :
        /\ c = Applied(r, cloud, known) /\ cloud'.inst = c.inst
        /\ cloud'.next = IF Creates(r) THEN cloud.next + 1 ELSE cloud.next
  BY ProviderFields
<1>2. cloud \in Account
  BY DEF Typed
<1>3. r.op # "create" => c.inst \subseteq cloud.inst
  BY <1>1, <1>2 DEF Applied, Account, Command, Request
<1>4. r.op = "create" =>
        c.inst = cloud.inst \cup
          {[id |-> cloud.next, own |-> "exact", fw |-> r.arg, drift |-> "none"]}
  BY <1>1, <1>2 DEF Applied, Account
<1> QED
  BY <1>1, <1>3, <1>4

(* ... the attachments ...                                                 *)
LEMMA ProviderAttachments ==
  ASSUME Typed, NEW r \in Command, ProviderApply(r),
         NEW v, ~(r.op = "attach" /\ v = r.arg)
  PROVE  AttsOf(cloud', v) \subseteq AttsOf(cloud, v)
<1>1. PICK known \in BOOLEAN, c \in Account :
        c = Applied(r, cloud, known) /\ cloud'.atts = c.atts
  BY ProviderFields
<1>2. cloud \in Account
  BY DEF Typed
<1>3. \/ c.atts \subseteq cloud.atts
      \/ /\ r.op = "attach"
         /\ c.atts = cloud.atts \cup {[vpc |-> r.arg, sub |-> r.on, known |-> known]}
  BY <1>1, <1>2 DEF Applied, Account, Command, Request
<1> QED
  BY <1>1, <1>3 DEF AttsOf

(* ... and the transient rules.                                            *)
LEMMA ProviderRules ==
  ASSUME Typed, NEW r \in Command, ProviderApply(r), NEW n \in OpenRules(cloud')
  PROVE  n \in OpenRules(cloud) \/ (Creates(r) /\ n = cloud.next)
<1>1. PICK known \in BOOLEAN, c \in Account :
        c = Applied(r, cloud, known) /\ cloud'.groups = c.groups
  BY ProviderFields
<1>2. cloud \in Account
  BY DEF Typed
<1>3. PICK h \in c.groups : \E x \in h.rules : x.spec = "ctl" /\ x.id = n
  BY <1>1 DEF OpenRules, Specs
<1>4. PICK x \in h.rules : x.spec = "ctl" /\ x.id = n
  BY <1>3
<1>5. ASSUME NEW g \in cloud.groups, x \in g.rules PROVE x.id \in OpenRules(cloud)
  BY <1>4, <1>5 DEF OpenRules, Specs
<1>6. CASE r.op \notin {"groupCreate", "groupDelete", "ruleCreate", "ruleDelete"}
  <2>1. c.groups = cloud.groups
    BY <1>1, <1>2, <1>6 DEF Applied, Account, Command, Request
  <2> QED
    BY <1>4, <1>5, <2>1
<1>7. CASE r.op = "groupCreate"
  <2>1. c.groups = cloud.groups \cup {[id |-> cloud.next, rules |-> {}]}
    BY <1>1, <1>2, <1>7 DEF Applied, Account
  <2> QED
    BY <1>4, <1>5, <2>1
<1>8. CASE r.op = "groupDelete"
  <2>1. c.groups \subseteq cloud.groups
    BY <1>1, <1>2, <1>8 DEF Applied, Account
  <2> QED
    BY <1>4, <1>5, <2>1
<1>9. CASE r.op = "ruleCreate"
  <2>1. PICK g \in cloud.groups : h = IF g.id = r.on
          THEN [g EXCEPT !.rules = @ \cup {[id |-> cloud.next, spec |-> r.spec]}] ELSE g
    BY <1>1, <1>2, <1>9 DEF Applied, Account
  <2>2. x \in g.rules \/ x = [id |-> cloud.next, spec |-> r.spec]
    BY <1>2, <2>1 DEF Account, Group
  <2> QED
    BY <1>4, <1>5, <1>9, <2>2 DEF Creates
<1>10. CASE r.op = "ruleDelete"
  <2>1. PICK g \in cloud.groups : h = IF g.id = r.on
          THEN [g EXCEPT !.rules = {y \in @ : y.id # r.arg}] ELSE g
    BY <1>1, <1>2, <1>10 DEF Applied, Account
  <2>2. x \in g.rules
    BY <1>2, <2>1 DEF Account, Group
  <2> QED
    BY <1>4, <1>5, <2>2
<1> QED
  BY <1>6, <1>7, <1>8, <1>9, <1>10
-----------------------------------------------------------------------------
(* Where a step of a job leads.                                            *)
LEMMA MovesTo ==
  ASSUME Typed'
  PROVE  /\ \A j, l : GotoWith(j, l) => job'.pc = l
         /\ End => job'.pc = "idle"
  BY DEF GotoWith, End, Idle, Typed, Job

(* Where going on and retrying lead.                                       *)
LEMMA GoesTo ==
  ASSUME Typed, NEW l
  PROVE  /\ Goto(l) => job' = [job EXCEPT !.pc = l] /\ job'.pc = l
         /\ AgainFrom(l) => job'.pc \in {l, "idle"}
         /\ Again => job'.pc \in {job.pc, "idle"} /\ (job'.pc = "idle" \/ job'.ret = job.ret)
<1> job \in Job
  BY DEF Typed
<1>1. Goto(l) => job' = [job EXCEPT !.pc = l] /\ job'.pc = l
  BY DEF Goto, Job
<1>2. \A k : AgainFrom(k) => job'.pc \in {k, "idle"} /\ (job'.pc = "idle" \/ job'.ret = job.ret)
  <2> SUFFICES ASSUME NEW k, AgainFrom(k)
               PROVE  job'.pc \in {k, "idle"} /\ (job'.pc = "idle" \/ job'.ret = job.ret)
    OBVIOUS
  <2>1. CASE job.left > 1
    <3>1. PICK n : job' = [job EXCEPT !.left = n, !.pc = k]
      BY <2>1 DEF AgainFrom
    <3> QED
      BY <3>1 DEF Job
  <2>2. CASE ~(job.left > 1)
    BY <2>2 DEF AgainFrom, End, Idle
  <2> QED
    BY <2>1, <2>2
<1> QED
  BY <1>1, <1>2 DEF Again

(* A step to a label that is not watched, and that changes nothing else.   *)
LEMMA StillSafe ==
  ASSUME SafeInv, UNCHANGED <<cloud, flight, late, git, issued>>, job'.pc \notin Watched
  PROVE  SafeInv'
<1>1. OwnRequests' /\ SeenOrLate'
  BY DEF OwnRequests, SeenOrLate, CleanupSparesBoundGroups, ReleaseIsComplete,
     VpcDeleteSparesAttachments, At, Watched, EnsureLabels
<1>2. OneCreate'
  BY DEF SafeInv, OneCreate, CreatesInFlight, Reserved, At, Watched
<1>3. AuthorityHeld'
  BY DEF SafeInv, AuthorityHeld, DestroyStaysWithinAuthority, At, Watched
<1> QED
  BY <1>1, <1>2, <1>3 DEF SafeInv

(* A step of the runner between its requests keeps the invariant.          *)
LEMMA QuietSafe ==
  ASSUME SafeInv, UNCHANGED <<cloudVars, git, issued>>, job'.pc \notin Watched
  PROVE  SafeInv'
  BY StillSafe DEF cloudVars

(* What GitHub keeps changes at the end of a job, or between jobs, while   *)
(* no CREATE can land any more.                                            *)
LEMMA RecordedSafe ==
  ASSUME SafeInv, UNCHANGED <<cloudVars, issued>>, job'.pc \notin Watched,
         CreatesInFlight = {}
  PROVE  SafeInv'
<1>1. OwnRequests' /\ SeenOrLate'
  BY DEF OwnRequests, SeenOrLate, CleanupSparesBoundGroups, ReleaseIsComplete,
     VpcDeleteSparesAttachments, At, Watched, EnsureLabels
<1>2. OneCreate'
  BY DEF SafeInv, OneCreate, CreatesInFlight, Reserved, At, Watched, cloudVars
<1>3. AuthorityHeld'
  BY DEF SafeInv, AuthorityHeld, DestroyStaysWithinAuthority, At, Watched, cloudVars
<1> QED
  BY <1>1, <1>2, <1>3 DEF SafeInv

(* No machine has an ID that was not given out.                            *)
LEMMA IdsStayBelow ==
  ASSUME Typed, AuthorityHeld, NEW r \in Command, ProviderApply(r)
  PROVE  \A i \in cloud'.inst : i.id < cloud'.next
<1> TAKE i \in cloud'.inst
<1>1. cloud.next \in Nat /\ \A k \in cloud.inst : k.id \in Nat /\ k.id < cloud.next
  BY Numbers DEF AuthorityHeld, Typed, Account, Instance, Ids
<1>2. i \in cloud.inst \/ (r.op = "create" /\ i.id = cloud.next)
  BY ProviderInstances
<1>3. cloud'.next = IF Creates(r) THEN cloud.next + 1 ELSE cloud.next
  BY ProviderInstances
<1> QED
  BY <1>1, <1>2, <1>3 DEF Creates

(* A mutation is sent: CREATE by a first use only.                         *)
LEMMA SendSafe ==
  ASSUME Typed, SafeInv, NEW r \in Command, NEW wait, Send(r, wait),
         r.op = "create" => At("fuSend") /\ wait \notin Watched,
         \/ wait \notin Watched
         \/ wait \in {"fwVisible", "fwSettle"} /\ job.pc \in EnsureLabels
  PROVE  SafeInv'
<1>1. /\ git' = git /\ issued' = issued
      /\ \/ job'.pc \notin Watched
         \/ /\ job'.pc \in {"fwVisible", "fwSettle"} /\ job'.ret = job.ret
            /\ job.pc \in EnsureLabels /\ r.op # "create"
  <2>1. \/ job' = [job EXCEPT !.pc = wait, !.left = Attempts]
        \/ job' = Idle
    BY DEF Send, End
  <2>2. job' = [job EXCEPT !.pc = wait, !.left = Attempts] => job'.pc = wait /\ job'.ret = job.ret
    BY DEF Typed, Job
  <2>3. Idle.pc \notin Watched
    BY DEF Idle, Watched, EnsureLabels
  <2> QED
    BY <2>1, <2>2, <2>3 DEF Send
<1>2. OwnRequests' /\ SeenOrLate'
  BY <1>1 DEF SafeInv, OwnRequests, SeenOrLate, CleanupSparesBoundGroups, ReleaseIsComplete,
     VpcDeleteSparesAttachments, At, Watched, EnsureLabels
<1>3. \/ ProviderApply(r) /\ flight' = flight
      \/ cloud' = cloud /\ flight' \in {flight, flight \cup {r}}
  BY DEF Send, cloudVars
<1>4. AuthorityHeld'
  <2>1. \A i \in cloud'.inst : i.id < cloud'.next
    BY <1>3, IdsStayBelow DEF SafeInv, AuthorityHeld
  <2> QED
    BY <1>1, <2>1 DEF SafeInv, AuthorityHeld, DestroyStaysWithinAuthority, At, Watched
<1>5. OneCreate'
  <2>1. CASE r.op # "create"
    <3>1. Exact(cloud'.inst) \subseteq Exact(cloud.inst) /\ CreatesInFlight' = CreatesInFlight
      BY <1>3, <2>1, ProviderInstances DEF Exact, CreatesInFlight
    <3>2. Reserved' => Reserved
      BY <1>1 DEF Reserved, Watched, EnsureLabels
    <3> QED
      BY <1>1, <3>1, <3>2 DEF SafeInv, OneCreate, At, Watched
  <2>2. CASE r.op = "create"
    <3>1. /\ CreatesInFlight = {} /\ Exact(cloud.inst) = {}
          /\ git.branch /\ git.run \notin {"skipped", "created"}
      BY <2>2 DEF SafeInv, OneCreate, Reserved, At
    <3>2. \/ CreatesInFlight' = {} /\ \A i, j \in Exact(cloud'.inst) : i = j
          \/ CreatesInFlight' \in {{}, {r}} /\ cloud' = cloud
      BY <1>3, <2>2, <3>1, ProviderInstances DEF Exact, CreatesInFlight
    <3>3. ~Reserved' /\ job'.pc \notin {"fuReserve", "fuApply", "fuSend", "created"}
      BY <1>1, <2>2 DEF Reserved, Watched
    <3> QED
      BY <1>1, <3>1, <3>2, <3>3 DEF OneCreate, At
  <2> QED
    BY <2>1, <2>2
<1> QED
  BY <1>2, <1>4, <1>5 DEF SafeInv
(* The jobs that never reach a watched label, and never send a CREATE.     *)
LEMMA ConvergeSafe ==
  ASSUME Typed, Typed', SafeInv, ConvergeSteps
  PROVE  SafeInv'
<1> USE DEF Watched, EnsureLabels
<1>1. CASE SendVpc
  <2>1. [NoRequest EXCEPT !.op = "vpcCreate"] \in Command
    BY DEF NoRequest, Command, Request
  <2> QED
    BY <1>1, <2>1, SendSafe DEF SendVpc, NoRequest
<1>2. CASE SendAttach
  <2>1. [NoRequest EXCEPT !.op = "attach", !.on = job.tgt, !.arg = job.vpc] \in Command
    BY DEF NoRequest, Command, Request, Typed, Job
  <2> QED
    BY <1>2, <2>1, SendSafe DEF SendAttach, NoRequest
<1>3. CASE \/ Converge \/ VpcPlan \/ VpcVerify \/ WaitForVpc \/ ResolveTarget
           \/ ExactVpc("aVpc", "aAtts") \/ ExactVpc("aWaitVpc", "aWaitAtts")
           \/ ExactVpc("aReady", "ready") \/ Ready
  <2>1. job'.pc \notin Watched
    BY <1>3, MovesTo, GoesTo DEF Converge, VpcPlan, VpcVerify, WaitForVpc, ResolveTarget,
       ExactVpc, Ready, At
  <2> QED
    BY <1>3, <2>1, QuietSafe DEF Converge, VpcPlan, VpcVerify, WaitForVpc, ResolveTarget,
       ExactVpc, Ready
<1>4. CASE AttachmentPlan \/ WaitForAttachment \/ GuestReady
  <2>1. \/ End \/ AgainFrom("aWaitVpc") \/ Goto("aGuest") \/ Goto("aReady") \/ Goto("aSend")
        \/ \E j : GotoWith(j, "aTarget")
    BY <1>4 DEF AttachmentPlan, WaitForAttachment, GuestReady
  <2>2. job'.pc \notin Watched
    BY <2>1, MovesTo, GoesTo
  <2> QED
    BY <1>4, <2>2, QuietSafe DEF AttachmentPlan, WaitForAttachment, GuestReady
<1> QED
  BY <1>1, <1>2, <1>3, <1>4 DEF ConvergeSteps

(* cleanup_to_absent deletes a VPC that it just saw without attachments.   *)
LEMMA CleanupSafe ==
  ASSUME Typed, Typed', SafeInv, CleanupVpcSteps
  PROVE  SafeInv'
<1> USE DEF Watched, EnsureLabels
<1>1. CASE SendDetach
  <2>1. [NoRequest EXCEPT !.op = "detach", !.on = job.auth.tgt, !.arg = job.vpc] \in Command
    BY DEF NoRequest, Command, Request, Typed, Job, Authority
  <2> QED
    BY <1>1, <2>1, SendSafe DEF SendDetach, NoRequest
<1>2. CASE SendVpcDelete
  <2>1. [NoRequest EXCEPT !.op = "vpcDelete", !.on = job.vpc] \in Command
    BY DEF NoRequest, Command, Request, Typed, Job
  <2> QED
    BY <1>2, <2>1, SendSafe DEF SendVpcDelete, NoRequest
<1>3. CASE CleanupVpc \/ CleanupListVpcs \/ CleanupTarget \/ CleanupTargetAgain \/ VpcAbsent
  <2>1. job'.pc \notin Watched
    BY <1>3, MovesTo, GoesTo DEF CleanupVpc, CleanupListVpcs, CleanupTarget,
       CleanupTargetAgain, VpcAbsent
  <2> QED
    BY <1>3, <2>1, QuietSafe DEF CleanupVpc, CleanupListVpcs, CleanupTarget,
       CleanupTargetAgain, VpcAbsent
<1>4. CASE WaitCleanupVpc \/ WaitCleanupTarget \/ WaitCleanupAtts
  <2>1. \/ End \/ AgainFrom("cWaitVpc") \/ (Again /\ job.pc = "cWaitVpc")
        \/ \E j, l : l \in {"cVpc", "cWaitTarget", "cWaitAtts"} /\ GotoWith(j, l)
    BY <1>4 DEF WaitCleanupVpc, WaitCleanupTarget, WaitCleanupAtts, NextRound, At
  <2>2. job'.pc \notin Watched
    BY <2>1, MovesTo, GoesTo
  <2> QED
    BY <1>4, <2>2, QuietSafe DEF WaitCleanupVpc, WaitCleanupTarget, WaitCleanupAtts
<1>5. CASE CleanupPlan
  <2>1. UNCHANGED <<cloudVars, git, issued>>
    BY <1>5 DEF CleanupPlan
  <2>2. CASE End \/ Goto("cTarget2") \/ \E j : GotoWith(j, "cVpc")
    <3>1. job'.pc \notin Watched
      BY <2>2, MovesTo, GoesTo
    <3> QED
      BY <2>1, <3>1, QuietSafe
  <2>3. CASE /\ PlanCleanup(job.vpc, AttsOf(cloud, job.vpc), job.tgt) = "delete"
             /\ Goto("cDelete")
    <3>1. AttsOf(cloud, job.vpc) = {}
      BY <2>3 DEF PlanCleanup
    <3>2. job'.pc = "cDelete" /\ job'.vpc = job.vpc
      BY <2>3 DEF Goto, Typed, Job
    <3>3. VpcDeleteSparesAttachments'
      BY <2>1, <3>1, <3>2 DEF VpcDeleteSparesAttachments, AttsOf, cloudVars
    <3>4. OwnRequests' /\ OneCreate' /\ AuthorityHeld'
      BY <2>1, <3>2 DEF SafeInv, OwnRequests, OneCreate, CreatesInFlight, Reserved,
         AuthorityHeld, DestroyStaysWithinAuthority, At, cloudVars
    <3> QED
      BY <3>2, <3>3, <3>4 DEF SafeInv, SeenOrLate, CleanupSparesBoundGroups, ReleaseIsComplete, At
  <2> QED
    BY <1>5, <2>2, <2>3 DEF CleanupPlan
<1> QED
  BY <1>1, <1>2, <1>3, <1>4, <1>5 DEF CleanupVpcSteps
(* A move between labels of a first use or of ensure_firewall_profile.     *)
LEMMA ReservedMove ==
  ASSUME SafeInv, UNCHANGED <<cloudVars, issued>>,
         job'.pc \in {"fuReserve", "fuBegin", "fuRunner", "fuBind2", "fuInst2", "fuBind3",
                     "fuPlan", "fuApply", "fuSend"} \cup EnsureLabels,
         job'.pc \in EnsureLabels => job'.ret # "idle",
         job'.pc = "fwSend" => job'.req.op \in {"ruleDelete", "ruleCreate"},
         Reserved' \/ job'.pc = "fuReserve" => CreatesInFlight = {},
         Reserved' => git'.branch /\ git'.run \notin {"skipped", "created"},
         CreatesInFlight = {} \/ git' = git,
         job'.pc \in {"fuApply", "fuSend"} => Exact(cloud.inst) = {}
  PROVE  SafeInv'
<1>1. cloud' = cloud /\ flight' = flight /\ late' = late /\ issued' = issued
  BY DEF cloudVars
<1>2. OwnRequests' /\ SeenOrLate'
  BY DEF OwnRequests, SeenOrLate, CleanupSparesBoundGroups, ReleaseIsComplete,
     VpcDeleteSparesAttachments, At, EnsureLabels
<1>3. OneCreate'
  <2>1. job'.pc # "created"
    BY DEF EnsureLabels
  <2> QED
    BY <1>1, <2>1 DEF SafeInv, OneCreate, CreatesInFlight, At
<1>4. AuthorityHeld'
  BY <1>1 DEF SafeInv, AuthorityHeld, DestroyStaysWithinAuthority, At, EnsureLabels
<1> QED
  BY <1>2, <1>3, <1>4 DEF SafeInv

(* Ensuring the firewall group keeps the invariant.                        *)
LEMMA EnsureSafe ==
  ASSUME Typed, Typed', SafeInv, Ensure
  PROVE  SafeInv'
<1> job \in Job
  BY DEF Typed
<1>1. ASSUME UNCHANGED <<cloudVars, git, issued>>, job.pc \in EnsureLabels,
             job'.pc \in EnsureLabels, job'.ret = job.ret,
             job'.pc = "fwSend" => job'.req.op \in {"ruleDelete", "ruleCreate"}
      PROVE  SafeInv'
  BY <1>1, ReservedMove DEF SafeInv, OneCreate, OwnRequests, Reserved, EnsureLabels
<1>2. CASE EnsureObserve \/ EnsureVisible \/ EnsureSettle
  <2>1. UNCHANGED <<cloudVars, git, issued>> /\ job.pc \in EnsureLabels
    BY <1>2 DEF EnsureObserve, EnsureVisible, EnsureSettle, At, EnsureLabels
  <2>2. \/ End
        \/ Goto("fwCreate") \/ Goto("fwRules") \/ (Again /\ job.pc \in {"fwVisible", "fwSettle"})
        \/ \E g \in cloud.groups : GotoWith([job EXCEPT !.grp = g.id], "fwRules")
    BY <1>2 DEF EnsureObserve, EnsureVisible, EnsureSettle, At
  <2>3. CASE job'.pc = "idle"
    BY <2>1, <2>3, QuietSafe DEF Watched, EnsureLabels
  <2>4. CASE job'.pc # "idle"
    <3>1. job'.pc \in {"fwCreate", "fwRules", "fwVisible", "fwSettle"}
      BY <2>2, <2>4, MovesTo, GoesTo
    <3>2. \A l : Goto(l) => job'.ret = job.ret
      BY DEF Goto, Job
    <3>3. \A l, x : GotoWith([job EXCEPT !.grp = x], l) => job'.ret = job.ret
      BY DEF GotoWith, Job
    <3>4. job'.ret = job.ret
      <4>1. CASE Again
        BY <2>4, <4>1, GoesTo
      <4>2. CASE ~Again
        BY <2>2, <2>4, <3>2, <3>3, <4>2, MovesTo
      <4> QED
        BY <4>1, <4>2
    <3> QED
      BY <1>1, <2>1, <3>1, <3>4 DEF EnsureLabels
  <2> QED
    BY <2>3, <2>4
<1>3. CASE EnsureCreate
  <2>1. [NoRequest EXCEPT !.op = "groupCreate"] \in Command
    BY DEF NoRequest, Command, Request
  <2> QED
    BY <1>3, <2>1, SendSafe DEF EnsureCreate, NoRequest, At, EnsureLabels
<1>4. CASE EnsureRules
  <2>1. UNCHANGED <<cloudVars, git, issued>> /\ job.pc \in EnsureLabels
    BY <1>4 DEF EnsureRules, At, EnsureLabels
  <2>2. \/ End
        \/ GotoWith([job EXCEPT !.bind = @ \cup {job.grp}], job.ret)
        \/ \E r : /\ r.op \in {"ruleDelete", "ruleCreate"}
                 /\ GotoWith([job EXCEPT !.req = r], "fwSend")
    <3>1. \A g, id, sp : /\ RuleRequest("ruleDelete", g, id, sp).op = "ruleDelete"
                         /\ RuleRequest("ruleCreate", g, id, sp).op = "ruleCreate"
      BY DEF RuleRequest
    <3> QED
      BY <1>4, <3>1 DEF EnsureRules
  <2>3. CASE End
    BY <2>1, <2>3, MovesTo, QuietSafe DEF Watched, EnsureLabels
  <2>4. CASE GotoWith([job EXCEPT !.bind = @ \cup {job.grp}], job.ret)
    <3>1. job'.pc = job.ret
      BY <2>4, MovesTo
    <3>2. job.ret \in {"fuPlan", "gaAfter", "acqCheck"}
      BY <2>1 DEF SafeInv, OwnRequests, Job
    <3>3. CASE job.ret = "fuPlan"
      BY <2>1, <3>1, <3>3, ReservedMove DEF SafeInv, OneCreate, Reserved, EnsureLabels
    <3>4. CASE job.ret # "fuPlan"
      BY <2>1, <3>1, <3>2, <3>4, QuietSafe DEF Watched, EnsureLabels
    <3> QED
      BY <3>3, <3>4
  <2>5. CASE \E r : /\ r.op \in {"ruleDelete", "ruleCreate"}
                   /\ GotoWith([job EXCEPT !.req = r], "fwSend")
    <3>1. /\ job'.pc = "fwSend" /\ job'.ret = job.ret
          /\ job'.req.op \in {"ruleDelete", "ruleCreate"}
      BY <2>5 DEF GotoWith, Job
    <3> QED
      BY <1>1, <2>1, <3>1 DEF EnsureLabels
  <2> QED
    BY <2>2, <2>3, <2>4, <2>5
<1>5. CASE EnsureSend
  BY <1>5, SendSafe DEF EnsureSend, SafeInv, OwnRequests, At, EnsureLabels, Job
<1> QED
  BY <1>2, <1>3, <1>4, <1>5 DEF Ensure

(* plan_machine says CREATE only when it sees nothing managed.             *)
LEMMA CreateSeesNone ==
  ASSUME PlanMachine(Observe) = "create"
  PROVE  Exact(cloud.inst) = {}
<1>1. Owned(Observe) = {}
  BY DEF PlanMachine
<1>2. ASSUME NEW i \in cloud.inst PROVE \E r \in Observe : r.mach = i
  <2> DEFINE v == i.fw \in job.bind
             r == [mach |-> i, verified |-> v]
  <2>1. r \in Observe
    BY DEF Observe, Inventory
  <2>2. r.mach = i
    OBVIOUS
  <2> QED
    BY <2>1, <2>2
<1> QED
  BY <1>1, <1>2 DEF Owned, Exact

(* It says NOOP only when it sees a managed machine.                       *)
LEMMA NoopSeesOne ==
  ASSUME PlanMachine(Observe) = "noop"
  PROVE  Exact(cloud.inst) # {}
<1>1. PICK r \in Observe : r.mach.own = "exact"
  BY DEF PlanMachine, Owned
<1>2. r.mach \in cloud.inst
  BY <1>1 DEF Observe, Inventory
<1> QED
  BY <1>1, <1>2 DEF Exact

(* First use keeps the invariant.                                          *)
LEMMA FirstUseSafe ==
  ASSUME Typed, Typed', SafeInv, FirstUseSteps
  PROVE  SafeInv'
<1> job \in Job
  BY DEF Typed
<1>1. ASSUME UNCHANGED <<cloudVars, git, issued>>, job.pc \in Watched, Reserved,
             job'.pc \in {"fuInst2", "fuBind3", "fuPlan", "fuApply", "fuSend", "fwObserve"},
             job'.pc = "fwObserve" => job'.ret # "idle",
             job'.pc \in {"fuApply", "fuSend"} => Exact(cloud.inst) = {}
      PROVE  SafeInv'
  BY <1>1, ReservedMove DEF SafeInv, OneCreate, EnsureLabels
<1>2. ASSUME UNCHANGED <<cloudVars, git, issued>>, End PROVE SafeInv'
  BY <1>2, MovesTo, QuietSafe DEF Watched, EnsureLabels
<1>3. CASE \/ FirstUse \/ StartWithBindings("fuBind", "fuInst") \/ Preflight("fuInst", "fuRefs")
  <2>1. \/ End \/ Goto("fuRefs")
        \/ \E j, l : l \in {"fuBind", "fuInst"} /\ GotoWith(j, l)
    BY <1>3 DEF FirstUse, StartWithBindings, Preflight
  <2>2. job'.pc \notin Watched
    BY <2>1, MovesTo, GoesTo DEF Watched, EnsureLabels
  <2> QED
    BY <1>3, <2>2, QuietSafe DEF FirstUse, StartWithBindings, Preflight
<1>4. CASE StartWithBindings("fuBind2", "fuInst2") \/ Preflight("fuInst2", "fuBind3")
  <2>1. UNCHANGED <<cloudVars, git, issued>> /\ job.pc \in {"fuBind2", "fuInst2"}
    BY <1>4 DEF StartWithBindings, Preflight, At
  <2>2. End \/ Goto("fuBind3") \/ \E j : GotoWith(j, "fuInst2")
    BY <1>4 DEF StartWithBindings, Preflight
  <2>3. End \/ job'.pc \in {"fuInst2", "fuBind3"}
    BY <2>2, MovesTo, GoesTo
  <2> QED
    BY <1>1, <1>2, <2>1, <2>3 DEF Reserved, Watched
<1>5. CASE CheckBranch
  <2>1. CASE git.branch
    BY <1>2, <1>5, <2>1 DEF CheckBranch
  <2>2. CASE ~git.branch
    <3>1. job'.pc = "fuReserve" /\ CreatesInFlight = {}
      BY <1>5, <2>2, GoesTo DEF CheckBranch, SafeInv, OneCreate
    <3> QED
      BY <1>5, <3>1, ReservedMove DEF CheckBranch, Reserved, EnsureLabels
  <2> QED
    BY <2>1, <2>2
<1>6. CASE ReserveBranch \/ RecordBegin \/ RunnerCapability
  <2>1. UNCHANGED <<cloudVars, issued>> /\ CreatesInFlight = {}
    BY <1>6 DEF ReserveBranch, RecordBegin, RunnerCapability, SafeInv, OneCreate, Reserved, At
  <2>2. \/ End
        \/ /\ job'.pc \in {"fuBegin", "fuRunner", "fuBind2"}
           /\ git'.branch /\ git'.run \notin {"skipped", "created"}
    BY <1>6, GoesTo DEF ReserveBranch, RecordBegin, RunnerCapability, SafeInv, OneCreate,
       Reserved, At, Typed
  <2>3. CASE End
    BY <2>1, <2>3, MovesTo, RecordedSafe DEF Watched, EnsureLabels
  <2> QED
    BY <2>1, <2>2, <2>3, ReservedMove DEF EnsureLabels
<1>7. CASE FirstUseFirewall
  <2>1. UNCHANGED <<cloudVars, git, issued>> /\ job.pc = "fuBind3"
    BY <1>7 DEF FirstUseFirewall, At
  <2>2. \/ End \/ GotoWith([job EXCEPT !.bind = Bindings(cloud)], "fuPlan")
        \/ GotoWith([job EXCEPT !.bind = Bindings(cloud), !.ret = "fuPlan", !.want = "keep"], "fwObserve")
    BY <1>7 DEF FirstUseFirewall
  <2>3. End \/ job'.pc = "fuPlan" \/ (job'.pc = "fwObserve" /\ job'.ret = "fuPlan")
    BY <2>2 DEF GotoWith, Job
  <2> QED
    BY <1>1, <1>2, <2>1, <2>3 DEF Reserved, Watched
<1>8. CASE FirstUsePlan \/ FirstUseVerify
  <2>1. UNCHANGED <<cloudVars, git, issued>> /\ job.pc \in {"fuPlan", "fuApply"}
    BY <1>8 DEF FirstUsePlan, FirstUseVerify, At
  <2>2. \/ End
        \/ job'.pc = "fuApply" /\ PlanMachine(Observe) = "create"
        \/ job'.pc = "fuSend" /\ job.pc = "fuApply"
    BY <1>8, MovesTo, GoesTo DEF FirstUsePlan, FirstUseVerify, At
  <2>3. End \/ (job'.pc \in {"fuApply", "fuSend"} /\ Exact(cloud.inst) = {})
    BY <2>2, CreateSeesNone DEF SafeInv, OneCreate, At
  <2> QED
    BY <1>1, <1>2, <2>1, <2>3 DEF Reserved, Watched
<1>9. CASE SendCreate
  <2>1. PICK b \in job.bind : Send([NoRequest EXCEPT !.op = "create", !.arg = b], "fuWait")
    BY <1>9 DEF SendCreate
  <2>2. [NoRequest EXCEPT !.op = "create", !.arg = b] \in Command
    BY <2>1 DEF Job, NoRequest, Command, Request
  <2> QED
    BY <1>9, <2>1, <2>2, SendSafe DEF SendCreate, Watched, EnsureLabels
<1>10. CASE ReobserveCreated
  <2>1. UNCHANGED <<cloudVars, git, issued>>
    BY <1>10 DEF ReobserveCreated
  <2>2. CASE End \/ (Again /\ job.pc = "fuWait")
    BY <2>1, <2>2, MovesTo, GoesTo, QuietSafe DEF Watched, EnsureLabels
  <2>3. CASE PlanMachine(Observe) = "noop" /\ Goto("created")
    <3>1. job'.pc = "created" /\ CreatesInFlight = {}
      BY <2>3, GoesTo, NoopSeesOne DEF SafeInv, OneCreate
    <3>2. OneCreate' /\ AuthorityHeld'
      BY <2>1, <3>1 DEF SafeInv, OneCreate, CreatesInFlight, Reserved, AuthorityHeld,
         DestroyStaysWithinAuthority, At, EnsureLabels, cloudVars
    <3>3. OwnRequests' /\ SeenOrLate'
      BY <3>1 DEF OwnRequests, SeenOrLate, CleanupSparesBoundGroups, ReleaseIsComplete,
         VpcDeleteSparesAttachments, At, EnsureLabels
    <3> QED
      BY <3>2, <3>3 DEF SafeInv
  <2> QED
    BY <1>10, <2>2, <2>3 DEF ReobserveCreated, At
<1>11. CASE Created
  <2>1. UNCHANGED <<cloudVars, issued>> /\ End /\ CreatesInFlight = {}
    BY <1>11 DEF Created, SafeInv, OneCreate
  <2> QED
    BY <2>1, MovesTo, RecordedSafe DEF Watched, EnsureLabels
<1> QED
  BY <1>3, <1>4, <1>5, <1>6, <1>7, <1>8, <1>9, <1>10, <1>11 DEF FirstUseSteps

(* The abort of a first use keeps the invariant: a CREATE step that was    *)
(* skipped has sent nothing.                                               *)
LEMMA AbortSafe ==
  ASSUME Typed, Typed', SafeInv, AbortSteps
  PROVE  SafeInv'
<1>1. CASE \/ AbortFirstUse \/ StartWithBindings("abBind", "abInst")
           \/ Preflight("abInst", "abRef")
  <2>1. End \/ Goto("abRef") \/ \E j, l : l \in {"abBind", "abInst"} /\ GotoWith(j, l)
    BY <1>1 DEF AbortFirstUse, StartWithBindings, Preflight
  <2>2. job'.pc \notin Watched
    BY <2>1, MovesTo, GoesTo DEF Watched, EnsureLabels
  <2> QED
    BY <1>1, <2>2, QuietSafe DEF AbortFirstUse, StartWithBindings, Preflight
<1>2. CASE Reconcile
  <2>1. UNCHANGED <<cloudVars, issued>> /\ job'.pc \notin Watched
    BY <1>2, MovesTo DEF Reconcile, Watched, EnsureLabels
  <2>2. CASE git.run = "skipped"
    BY <2>1, <2>2, RecordedSafe DEF SafeInv, OneCreate
  <2>3. CASE git.run # "skipped"
    BY <1>2, <2>1, <2>3, QuietSafe DEF Reconcile
  <2> QED
    BY <2>2, <2>3
<1> QED
  BY <1>1, <1>2 DEF AbortSteps

(* A quiet move that is neither a first use nor ensure_firewall_profile on *)
(* its behalf.                                                             *)
LEMMA OtherMove ==
  ASSUME SafeInv, UNCHANGED <<cloudVars, git, issued>>,
         ~Reserved', job'.pc \notin {"fuReserve", "created"}, OwnRequests', SeenOrLate',
         job'.pc \in {"ddBind", "ddInst"} => Genuine(job'.auth),
         DestroyStaysWithinAuthority'
  PROVE  SafeInv'
<1>1. cloud' = cloud /\ flight' = flight /\ late' = late /\ git' = git /\ issued' = issued
  BY DEF cloudVars
<1>2. OneCreate'
  BY <1>1 DEF SafeInv, OneCreate, CreatesInFlight, Reserved, At
<1>3. AuthorityHeld'
  BY <1>1 DEF SafeInv, AuthorityHeld, At
<1> QED
  BY <1>2, <1>3 DEF SafeInv

(* Apply and acquire keep the invariant.                                   *)
LEMMA ApplySafe ==
  ASSUME Typed, Typed', SafeInv, ApplySteps \/ AcquireSteps
  PROVE  SafeInv'
<1> job \in Job
  BY DEF Typed
<1>1. UNCHANGED <<cloudVars, git, issued>>
  BY DEF ApplySteps, ApplyMachine, StartWithBindings, ApplyPlan, ApplyAfter, ApplyVerify,
     AcquireSteps, Acquire, AcquirePlan, AcquireVerify, AcquireCheck
<1>2. ASSUME \/ job'.pc \in {"gaBind", "gaPlan"} /\ job'.ret = "gaAfter"
             \/ job'.pc \in {"acqPlan", "acqVerify"} /\ job'.ret = "acqCheck"
             \/ job'.pc = "fwObserve" /\ job'.ret \in {"gaAfter", "acqCheck"}
      PROVE  SafeInv'
  <2>1. OwnRequests' /\ SeenOrLate' /\ DestroyStaysWithinAuthority'
    BY <1>2 DEF OwnRequests, SeenOrLate, CleanupSparesBoundGroups, ReleaseIsComplete,
       VpcDeleteSparesAttachments, DestroyStaysWithinAuthority, At, EnsureLabels
  <2>2. ~Reserved' /\ job'.pc \notin {"fuReserve", "created", "ddBind", "ddInst"}
    BY <1>2 DEF Reserved, EnsureLabels
  <2> QED
    BY <1>1, <2>1, <2>2, OtherMove
<1>3. ASSUME job'.pc \in {"idle", "gaAfter", "gaApply"} PROVE SafeInv'
  BY <1>1, <1>3, QuietSafe DEF Watched, EnsureLabels
<1>4. CASE ApplyMachine \/ Acquire
  <2>1. \/ job' = [[Idle EXCEPT !.ret = "gaAfter"] EXCEPT !.pc = "gaBind"]
        \/ job' = [[Idle EXCEPT !.want = "ctl", !.ret = "acqCheck"] EXCEPT !.pc = "acqPlan"]
    BY <1>4 DEF ApplyMachine, Acquire, GotoWith
  <2>2. \/ job'.pc = "gaBind" /\ job'.ret = "gaAfter"
        \/ job'.pc = "acqPlan" /\ job'.ret = "acqCheck"
    BY <2>1 DEF Idle
  <2> QED
    BY <1>2, <2>2
<1>5. CASE StartWithBindings("gaBind", "gaPlan")
  <2>1. At("gaBind") /\ (End \/ GotoWith([job EXCEPT !.bind = Bindings(cloud)], "gaPlan"))
    BY <1>5 DEF StartWithBindings
  <2>2. job'.pc = "idle" \/ (job'.pc = "gaPlan" /\ job'.ret = job.ret)
    BY <2>1, MovesTo DEF GotoWith, Job
  <2> QED
    BY <1>2, <1>3, <2>1, <2>2 DEF SafeInv, OwnRequests, At
<1>6. CASE ApplyPlan
  <2> DEFINE j == [job EXCEPT !.auth.inv = Observe]
  <2>1. \/ End \/ GotoWith([j EXCEPT !.pass = "apply"], "gaAfter") \/ GotoWith(j, "fwObserve")
    BY <1>6 DEF ApplyPlan
  <2>2. job'.pc \in {"idle", "gaAfter"} \/ (job'.pc = "fwObserve" /\ job'.ret = job.ret)
    BY <2>1, MovesTo DEF GotoWith, Job
  <2> QED
    BY <1>2, <1>3, <1>6, <2>2 DEF ApplyPlan, SafeInv, OwnRequests, At
<1>7. CASE AcquirePlan
  <2>1. \/ End
        \/ GotoWith([job EXCEPT !.auth.inv = cloud.inst, !.auth.atts = cloud.groups], "acqVerify")
    BY <1>7 DEF AcquirePlan
  <2>2. job'.pc = "idle" \/ (job'.pc = "acqVerify" /\ job'.ret = job.ret)
    BY <2>1, MovesTo DEF GotoWith, Job
  <2> QED
    BY <1>2, <1>3, <1>7, <2>2 DEF AcquirePlan, SafeInv, OwnRequests, At
<1>8. CASE AcquireVerify
  <2>1. End \/ Goto("fwObserve")
    BY <1>8 DEF AcquireVerify
  <2>2. job'.pc = "idle" \/ (job'.pc = "fwObserve" /\ job'.ret = job.ret)
    BY <2>1, MovesTo DEF Goto, Job
  <2> QED
    BY <1>2, <1>3, <1>8, <2>2 DEF AcquireVerify, SafeInv, OwnRequests, At
<1>9. CASE ApplyAfter \/ ApplyVerify \/ AcquireCheck
  <2>1. job'.pc \in {"idle", "gaApply"}
    BY <1>9, MovesTo, GoesTo DEF ApplyAfter, ApplyVerify, AcquireCheck
  <2> QED
    BY <1>3, <2>1
<1> QED
  BY <1>4, <1>5, <1>6, <1>7, <1>8, <1>9 DEF ApplySteps, AcquireSteps

(* release_access reports only what it has just seen.                      *)
LEMMA ReleaseSafe ==
  ASSUME Typed, Typed', SafeInv, ReleaseSteps
  PROVE  SafeInv'
<1> job \in Job
  BY DEF Typed
<1>1. ASSUME UNCHANGED <<cloudVars, git, issued>>,
             \/ job'.pc = "released" /\ OpenRules(cloud) = {}
             \/ job'.pc = "relSend" /\ job'.req.op = "ruleDelete"
      PROVE  SafeInv'
  <2>1. OwnRequests' /\ DestroyStaysWithinAuthority'
    BY <1>1 DEF OwnRequests, DestroyStaysWithinAuthority, At, EnsureLabels
  <2>2. ~Reserved' /\ job'.pc \notin {"fuReserve", "ddBind", "ddInst"}
    BY <1>1 DEF Reserved, EnsureLabels
  <2>3. ReleaseIsComplete'
    BY <1>1 DEF ReleaseIsComplete, OpenRules, At, cloudVars
  <2>4. SeenOrLate'
    BY <1>1, <2>3 DEF SeenOrLate, CleanupSparesBoundGroups, VpcDeleteSparesAttachments, At
  <2> QED
    BY <1>1, <2>1, <2>2, <2>4, OtherMove
<1>2. ASSUME UNCHANGED <<cloudVars, git, issued>>,
             job'.pc \in {"idle", "relPlan", "relVerify", "relNext", "relSettle"}
      PROVE  SafeInv'
  BY <1>2, QuietSafe DEF Watched, EnsureLabels
<1>3. CASE Release \/ ReleasePlan \/ ReleaseSettle \/ Released
  <2>1. \/ End \/ Goto("relNext") \/ (Again /\ job.pc = "relSettle")
        \/ \E j, l : l \in {"relPlan", "relVerify"} /\ GotoWith(j, l)
    BY <1>3 DEF Release, ReleasePlan, ReleaseSettle, Released, At
  <2>2. job'.pc \in {"idle", "relPlan", "relVerify", "relNext", "relSettle"}
    BY <2>1, MovesTo, GoesTo
  <2> QED
    BY <1>2, <1>3, <2>2 DEF Release, ReleasePlan, ReleaseSettle, Released
<1>4. CASE ReleaseVerify
  <2>1. \/ End \/ (OpenRules(cloud) = {} /\ Goto("released")) \/ \E j : GotoWith(j, "relNext")
    BY <1>4 DEF ReleaseVerify
  <2>2. job'.pc \in {"idle", "relNext"} \/ (job'.pc = "released" /\ OpenRules(cloud) = {})
    BY <2>1, MovesTo, GoesTo
  <2> QED
    BY <1>1, <1>2, <1>4, <2>2 DEF ReleaseVerify
<1>5. CASE ReleaseNext
  <2> DEFINE Drop(x) == RuleRequest("ruleDelete", job.grp, x, "none")
             Note(x) == [job EXCEPT !.bind = @ \ {x}, !.req = Drop(x)]
  <2>1. \/ End \/ (OpenRules(cloud) = {} /\ Goto("released"))
        \/ \E x \in job.bind : GotoWith(Note(x), "relSend")
    BY <1>5 DEF ReleaseNext
  <2>2. \A x : GotoWith(Note(x), "relSend") => job'.req = Drop(x)
    BY DEF GotoWith, Job
  <2>3. \A x : Drop(x).op = "ruleDelete"
    BY DEF RuleRequest
  <2>4. \/ job'.pc = "idle" \/ (job'.pc = "released" /\ OpenRules(cloud) = {})
        \/ job'.pc = "relSend" /\ job'.req.op = "ruleDelete"
    <3> HIDE DEF Drop, Note
    <3> QED
      BY <2>1, <2>2, <2>3, MovesTo, GoesTo
  <2> QED
    BY <1>1, <1>2, <1>5, <2>4 DEF ReleaseNext
<1>6. CASE ReleaseSend
  BY <1>6, SendSafe DEF ReleaseSend, SafeInv, OwnRequests, At, Job, Watched, EnsureLabels
<1> QED
  BY <1>3, <1>4, <1>5, <1>6 DEF ReleaseSteps

(* A destroy job deletes the machine its authority names: the inventories  *)
(* are equal, so the machine chosen from them is the same.                 *)
LEMMA DestroySafe ==
  ASSUME Typed, Typed', SafeInv, DestroySteps
  PROVE  SafeInv'
<1> job \in Job
  BY DEF Typed
<1>1. ASSUME UNCHANGED <<cloudVars, git, issued>>,
             \/ job'.pc \in {"ddBind", "ddInst"} /\ Genuine(job'.auth)
             \/ /\ job'.pc = "ddSend"
                /\ job'.tgt = job'.auth.tgt /\ job'.tgt < job'.auth.top
      PROVE  SafeInv'
  <2>1. OwnRequests' /\ SeenOrLate' /\ ~Reserved' /\ job'.pc # "fuReserve"
    BY <1>1 DEF OwnRequests, SeenOrLate, CleanupSparesBoundGroups, ReleaseIsComplete,
       VpcDeleteSparesAttachments, Reserved, At, EnsureLabels
  <2>2. DestroyStaysWithinAuthority' /\ (job'.pc \in {"ddBind", "ddInst"} => Genuine(job'.auth))
    BY <1>1 DEF DestroyStaysWithinAuthority, At
  <2> QED
    BY <1>1, <2>1, <2>2, OtherMove
<1>2. ASSUME UNCHANGED <<cloudVars, git, issued>>, job'.pc \in {"idle", "dpBind", "dpInst", "ddWait"}
      PROVE  SafeInv'
  BY <1>2, QuietSafe DEF Watched, EnsureLabels
<1>3. CASE PlanDestroy \/ StartWithBindings("dpBind", "dpInst") \/ WaitForAbsence
  <2>1. \/ End \/ (Again /\ job.pc = "ddWait")
        \/ \E j, l : l \in {"dpBind", "dpInst"} /\ GotoWith(j, l)
    BY <1>3 DEF PlanDestroy, StartWithBindings, WaitForAbsence, At
  <2>2. job'.pc \in {"idle", "dpBind", "dpInst", "ddWait"}
    BY <2>1, MovesTo, GoesTo
  <2> QED
    BY <1>2, <1>3, <2>2 DEF PlanDestroy, StartWithBindings, WaitForAbsence
<1>4. CASE Destroy
  <2>1. Genuine(issued)
    BY <1>4 DEF Destroy, SafeInv, AuthorityHeld
  <2>2. job' = [[Idle EXCEPT !.auth = issued] EXCEPT !.pc = "ddBind"]
    BY <1>4 DEF Destroy, GotoWith
  <2>3. job'.pc = "ddBind" /\ job'.auth = issued
    BY <2>2 DEF Idle
  <2> QED
    BY <1>1, <1>4, <2>1, <2>3 DEF Destroy
<1>5. CASE StartWithBindings("ddBind", "ddInst")
  <2>1. End \/ GotoWith([job EXCEPT !.bind = Bindings(cloud)], "ddInst")
    BY <1>5 DEF StartWithBindings
  <2>2. job'.pc = "idle" \/ (job'.pc = "ddInst" /\ job'.auth = job.auth)
    BY <2>1, MovesTo DEF GotoWith, Job
  <2> QED
    BY <1>1, <1>2, <1>5, <2>2 DEF StartWithBindings, SafeInv, AuthorityHeld
<1>6. CASE DestroyVerify
  <2> DEFINE t == (CHOOSE r \in Owned(Observe) : TRUE).mach.id
  <2>1. End \/ (Observe = job.auth.inv /\ GotoWith([job EXCEPT !.tgt = t], "ddSend"))
    BY <1>6 DEF DestroyVerify, DestroyAuthorized
  <2>2. Genuine(job.auth)
    BY <1>6 DEF DestroyVerify, SafeInv, AuthorityHeld
  <2>3. Observe = job.auth.inv => job.auth.tgt = t /\ t < job.auth.top
    BY <2>2 DEF Genuine
  <2> HIDE DEF t
  <2>4. GotoWith([job EXCEPT !.tgt = t], "ddSend") => job'.tgt = t /\ job'.auth = job.auth
    BY DEF GotoWith, Job
  <2> QED
    BY <1>1, <1>2, <1>6, <2>1, <2>3, <2>4, MovesTo DEF DestroyVerify
<1>7. CASE SendDestroy
  <2>1. [NoRequest EXCEPT !.op = "destroy", !.on = job.tgt] \in Command
    BY DEF NoRequest, Command, Request, Job
  <2> QED
    BY <1>7, <2>1, SendSafe DEF SendDestroy, NoRequest, Watched, EnsureLabels
<1>8. CASE IssueDestroy
  <2> DEFINE own == Owned(Observe)
             t == (CHOOSE r \in own : TRUE).mach.id
             a == [NoAuthority EXCEPT !.inv = Observe, !.top = cloud.next, !.tgt = t]
  <2>1. /\ UNCHANGED <<cloud, flight, late, git>> /\ End
        /\ issued' = issued \/ (Cardinality(own) = 1 /\ issued' = a)
    BY <1>8 DEF IssueDestroy, cloudVars
  <2>2. CASE issued' = issued
    BY <2>1, <2>2, MovesTo, StillSafe DEF Watched, EnsureLabels
  <2>3. CASE Cardinality(own) = 1 /\ issued' = a
    <3>1. Only(own) \in own
      BY <2>3, OneIsSome
    <3>2. Only(own).mach \in cloud.inst
      <4>1. PICK i \in cloud.inst : Only(own) = [mach |-> i, verified |-> i.fw \in job.bind]
        BY <3>1 DEF Owned, Observe, Inventory
      <4> DEFINE v == i.fw \in job.bind
      <4>2. Only(own) = [mach |-> i, verified |-> v]
        BY <4>1
      <4> HIDE DEF v
      <4> QED
        BY <4>2
    <3>3. t < cloud.next
      BY <3>2 DEF Only, SafeInv, AuthorityHeld
    <3>4. /\ a.inv = Observe /\ a.tgt = t /\ a.top = cloud.next
      <4> HIDE DEF t
      <4> QED
        BY DEF NoAuthority
    <3>5. Genuine(a)
      <4> HIDE DEF a
      <4> QED
        BY <3>1, <3>3, <3>4 DEF Genuine
    <3>6. job'.pc = "idle"
      BY <2>1, MovesTo
    <3>7. AuthorityHeld'
      <4>1. \A i \in cloud'.inst : i.id < cloud'.next
        BY <2>1 DEF SafeInv, AuthorityHeld
      <4> HIDE DEF a
      <4>2. issued' = NoAuthority \/ Genuine(issued')
        BY <2>3, <3>5
      <4> QED
        BY <3>6, <4>1, <4>2 DEF AuthorityHeld, DestroyStaysWithinAuthority, At
    <3>8. OwnRequests' /\ SeenOrLate'
      BY <3>6 DEF OwnRequests, SeenOrLate, CleanupSparesBoundGroups, ReleaseIsComplete,
         VpcDeleteSparesAttachments, At, EnsureLabels
    <3>9. OneCreate'
      BY <2>1, <3>6 DEF SafeInv, OneCreate, CreatesInFlight, Reserved, At, EnsureLabels
    <3> QED
      BY <3>7, <3>8, <3>9 DEF SafeInv
  <2> QED
    BY <2>1, <2>2, <2>3
<1> QED
  BY <1>3, <1>4, <1>5, <1>6, <1>7, <1>8 DEF DestroySteps

(* A cleanup deletes a group that no instance it has listed is behind.     *)
LEMMA CleanupSupportSafe ==
  ASSUME Typed, Typed', SafeInv, CleanupSupportSteps
  PROVE  SafeInv'
<1> job \in Job
  BY DEF Typed
<1>1. ASSUME UNCHANGED <<cloudVars, git, issued>>,
             \/ job'.pc = "csGroups" /\ job'.inv = cloud.inst
             \/ /\ job'.pc = "csSend" /\ job'.req.op = "groupDelete"
                /\ \A i \in cloud.inst : i.fw = job'.req.on => i.id \in late
      PROVE  SafeInv'
  <2>1. OwnRequests' /\ ~Reserved' /\ job'.pc \notin {"fuReserve", "ddBind", "ddInst"}
    BY <1>1 DEF OwnRequests, Reserved, At, EnsureLabels
  <2>2. SeenOrLate'
    BY <1>1 DEF SeenOrLate, CleanupSparesBoundGroups, ReleaseIsComplete,
       VpcDeleteSparesAttachments, At, cloudVars
  <2>3. DestroyStaysWithinAuthority'
    BY <1>1 DEF DestroyStaysWithinAuthority, At
  <2> QED
    BY <1>1, <2>1, <2>2, <2>3, OtherMove
<1>2. ASSUME UNCHANGED <<cloudVars, git, issued>>, job'.pc \in {"idle", "csInst", "csSettle"}
      PROVE  SafeInv'
  BY <1>2, QuietSafe DEF Watched, EnsureLabels
<1>3. CASE CleanupSupport \/ CleanupSettle
  <2>1. (Again /\ job.pc = "csSettle") \/ \E j : GotoWith(j, "csInst")
    BY <1>3 DEF CleanupSupport, CleanupSettle, At
  <2>2. job'.pc \in {"idle", "csInst", "csSettle"}
    BY <2>1, MovesTo, GoesTo
  <2> QED
    BY <1>2, <1>3, <2>2 DEF CleanupSupport, CleanupSettle
<1>4. CASE CleanupInstances
  <2>1. job'.pc = "csGroups" /\ job'.inv = cloud.inst
    BY <1>4 DEF CleanupInstances, GotoWith, Job
  <2> QED
    BY <1>1, <1>4, <2>1 DEF CleanupInstances
<1>5. CASE CleanupGroups
  <2> DEFINE Drop(g) == [NoRequest EXCEPT !.op = "groupDelete", !.on = g.id]
             Note(g) == [job EXCEPT !.grp = g.id, !.req = Drop(g)]
  <2>1. CASE End
    BY <1>2, <1>5, <2>1, MovesTo DEF CleanupGroups
  <2>2. CASE /\ ~InUse(job.inv, cloud.groups)
             /\ \E g \in cloud.groups : GotoWith(Note(g), "csSend")
    <3>1. PICK g \in cloud.groups : GotoWith(Note(g), "csSend")
      BY <2>2
    <3>2. job'.pc = "csSend" /\ job'.req = Drop(g)
      BY <3>1 DEF GotoWith, Job
    <3>3. Drop(g).op = "groupDelete" /\ Drop(g).on = g.id
      BY DEF NoRequest
    <3>4. \A i \in cloud.inst : i.fw = g.id => i.id \in late
      BY <1>5, <2>2 DEF CleanupGroups, InUse, SafeInv, SeenOrLate
    <3> HIDE DEF Drop, Note
    <3> QED
      BY <1>1, <1>5, <3>2, <3>3, <3>4 DEF CleanupGroups
  <2> QED
    BY <1>5, <2>1, <2>2 DEF CleanupGroups
<1>6. CASE CleanupSend
  BY <1>6, SendSafe DEF CleanupSend, SafeInv, OwnRequests, At, Job, Watched, EnsureLabels
<1> QED
  BY <1>3, <1>4, <1>5, <1>6 DEF CleanupSupportSteps
-----------------------------------------------------------------------------
(* What happens outside the jobs: an effect that comes late is in late, so *)
(* what a job has seen holds but for it.                                   *)
LEMMA LateSafe ==
  ASSUME Typed, SafeInv, LateEffect
  PROVE  SafeInv'
<1>1. PICK r \in flight :
        /\ \/ /\ ProviderApply(r)
              /\ late' = late \cup (CASE Creates(r) -> {cloud.next}
                                      [] r.op = "attach" -> {r.arg}
                                      [] OTHER -> {})
           \/ UNCHANGED <<cloud, late>>
        /\ flight' = flight \ {r}
        /\ UNCHANGED <<faults, job, git, issued>>
  BY DEF LateEffect
<1>2. r \in Command /\ r \in Request
  BY DEF Typed, Command
<1>3. CreatesInFlight' \subseteq CreatesInFlight
  BY <1>1 DEF CreatesInFlight
<1>4. OwnRequests' /\ (Reserved' <=> Reserved)
  BY <1>1 DEF SafeInv, OwnRequests, Reserved, At
<1>5. CASE UNCHANGED <<cloud, late>>
  <2>1. OneCreate'
    BY <1>1, <1>3, <1>4, <1>5 DEF SafeInv, OneCreate, At
  <2>2. AuthorityHeld'
    BY <1>1, <1>5 DEF SafeInv, AuthorityHeld, DestroyStaysWithinAuthority, At
  <2>3. SeenOrLate'
    BY <1>1, <1>5 DEF SafeInv, SeenOrLate, CleanupSparesBoundGroups, ReleaseIsComplete,
       VpcDeleteSparesAttachments, AttsOf, OpenRules, At
  <2> QED
    BY <1>4, <2>1, <2>2, <2>3 DEF SafeInv
<1>6. CASE /\ ProviderApply(r)
           /\ late' = late \cup (CASE Creates(r) -> {cloud.next}
                                   [] r.op = "attach" -> {r.arg}
                                   [] OTHER -> {})
  <2>1. /\ late \subseteq late'
        /\ Creates(r) => cloud.next \in late'
        /\ r.op = "attach" => r.arg \in late'
    BY <1>2, <1>6 DEF Creates
  <2>2. OneCreate'
    <3>1. CASE r.op = "create"
      <4>1. r \in CreatesInFlight
        BY <3>1 DEF CreatesInFlight
      <4>2. CreatesInFlight' = {}
        BY <1>1, <4>1 DEF SafeInv, OneCreate, CreatesInFlight
      <4>3. Exact(cloud.inst) = {} /\ git.branch /\ ~Reserved /\ ~At("fuReserve")
        BY <4>1 DEF SafeInv, OneCreate
      <4>4. \A i, j \in Exact(cloud'.inst) : i = j
        BY <1>2, <1>6, <3>1, <4>3, ProviderInstances DEF Exact
      <4> QED
        BY <1>1, <1>4, <4>2, <4>3, <4>4 DEF OneCreate, Reserved, At
    <3>2. CASE r.op # "create"
      <4>1. Exact(cloud'.inst) \subseteq Exact(cloud.inst)
        BY <1>2, <1>6, <3>2, ProviderInstances DEF Exact
      <4> QED
        BY <1>1, <1>3, <1>4, <4>1 DEF SafeInv, OneCreate, At
    <3> QED
      BY <3>1, <3>2
  <2>3. AuthorityHeld'
    <3>1. \A i \in cloud'.inst : i.id < cloud'.next
      BY <1>2, <1>6, IdsStayBelow DEF SafeInv
    <3> QED
      BY <1>1, <3>1 DEF SafeInv, AuthorityHeld, DestroyStaysWithinAuthority, At
  <2>4. \A i \in cloud'.inst : i \in cloud.inst \/ i.id \in late'
    BY <1>2, <1>6, <2>1, ProviderInstances DEF Creates
  <2>5. SeenOrLate'
    <3>1. CleanupSparesBoundGroups'
      BY <1>1, <2>1, <2>4 DEF SafeInv, SeenOrLate, CleanupSparesBoundGroups, At
    <3>2. ReleaseIsComplete'
      <4>1. ASSUME NEW n \in OpenRules(cloud') PROVE n \in OpenRules(cloud) \/ n \in late'
        BY <1>2, <1>6, <2>1, ProviderRules
      <4>2. At("released") => OpenRules(cloud) \subseteq late
        BY DEF SafeInv, SeenOrLate, ReleaseIsComplete
      <4> QED
        BY <1>1, <2>1, <4>1, <4>2 DEF ReleaseIsComplete, At, OpenRules
    <3>3. VpcDeleteSparesAttachments'
      <4>1. AttsOf(cloud', job.vpc) \subseteq AttsOf(cloud, job.vpc) \/ job.vpc \in late'
        BY <1>2, <1>6, <2>1, ProviderAttachments
      <4>2. At("cDelete") => AttsOf(cloud, job.vpc) = {} \/ job.vpc \in late
        BY DEF SafeInv, SeenOrLate, VpcDeleteSparesAttachments
      <4>3. At("cDelete") => AttsOf(cloud', job.vpc) = {} \/ job.vpc \in late'
        BY <2>1, <4>1, <4>2
      <4> QED
        BY <1>1, <4>3 DEF VpcDeleteSparesAttachments, At, AttsOf
    <3> QED
      BY <1>1, <2>1, <2>4, <3>1, <3>2, <3>3 DEF SafeInv, SeenOrLate, At
  <2> QED
    BY <1>4, <2>2, <2>3, <2>5 DEF SafeInv
<1> QED
  BY <1>1, <1>5, <1>6

(* The provider, failures and a new epoch keep the invariant.              *)
LEMMA EnvironmentSafe ==
  ASSUME Typed, Typed', SafeInv, Environment \/ NewEpoch
  PROVE  SafeInv'
<1> cloud \in Account
  BY DEF Typed
<1>1. CASE LateEffect
  BY <1>1, LateSafe
<1>2. CASE Killed
  BY <1>2, MovesTo, StillSafe DEF Killed, Watched, EnsureLabels
<1>3. CASE NewEpoch
  <2>1. job' = job /\ job.pc = "idle" /\ CreatesInFlight = {}
    BY <1>3 DEF NewEpoch, SafeInv, OneCreate, At
  <2> QED
    BY <1>3, <2>1, RecordedSafe DEF NewEpoch, Watched, EnsureLabels
<1>4. CASE AttachmentLinked
  <2>1. PICK a \in cloud.atts :
          cloud' = [cloud EXCEPT !.atts = (@ \ {a}) \cup {[a EXCEPT !.known = TRUE]}]
    BY <1>4 DEF AttachmentLinked
  <2>2. /\ cloud'.inst = cloud.inst /\ cloud'.groups = cloud.groups
        /\ cloud'.next = cloud.next
        /\ UNCHANGED <<flight, late, job, git, issued>>
    BY <1>4, <2>1 DEF AttachmentLinked, Account
  <2>3. AttsOf(cloud, job.vpc) = {} => AttsOf(cloud', job.vpc) = {}
    <3>1. a \in Attachment
      BY DEF Account
    <3>2. [a EXCEPT !.known = TRUE].vpc = a.vpc
      BY <3>1 DEF Attachment
    <3>3. cloud'.atts = (cloud.atts \ {a}) \cup {[a EXCEPT !.known = TRUE]}
      BY <2>1 DEF Account
    <3> QED
      BY <3>2, <3>3 DEF AttsOf
  <2>4. OneCreate' /\ OwnRequests'
    BY <2>2 DEF SafeInv, OneCreate, OwnRequests, CreatesInFlight, Reserved, At
  <2>5. AuthorityHeld'
    BY <2>2 DEF SafeInv, AuthorityHeld, DestroyStaysWithinAuthority, At
  <2>6. VpcDeleteSparesAttachments'
    BY <2>2, <2>3 DEF SafeInv, SeenOrLate, VpcDeleteSparesAttachments, At, AttsOf
  <2>7. SeenOrLate'
    BY <2>2, <2>6 DEF SafeInv, SeenOrLate, CleanupSparesBoundGroups, ReleaseIsComplete,
       OpenRules, At
  <2> QED
    BY <2>4, <2>5, <2>7 DEF SafeInv
<1>5. CASE InstanceDrifts
  <2>1. PICK i \in Exact(cloud.inst), d \in {"update", "replace"} :
          cloud' = [cloud EXCEPT !.inst = (@ \ {i}) \cup {[i EXCEPT !.drift = d]}]
    BY <1>5 DEF InstanceDrifts
  <2>2. /\ cloud'.inst = (cloud.inst \ {i}) \cup {[i EXCEPT !.drift = d]}
        /\ cloud'.atts = cloud.atts /\ cloud'.groups = cloud.groups /\ cloud'.next = cloud.next
        /\ UNCHANGED <<flight, late, job, git, issued>>
    BY <1>5, <2>1 DEF InstanceDrifts, Account
  <2> DEFINE k == [i EXCEPT !.drift = d]
  <2>3. i \in cloud.inst /\ k.id = i.id /\ k.own = "exact" /\ k.fw = i.fw
    BY DEF Exact, Account, Instance
  <2> HIDE DEF k
  <2>4. cloud'.inst = (cloud.inst \ {i}) \cup {k}
    BY <2>2 DEF k
  <2>5. OneCreate'
    <3>1. Exact(cloud.inst) = {i}
      BY DEF SafeInv, OneCreate
    <3>2. Exact(cloud'.inst) = {k}
      BY <2>3, <2>4, <3>1 DEF Exact
    <3> QED
      BY <2>2, <3>1, <3>2 DEF SafeInv, OneCreate, CreatesInFlight, Reserved, At
  <2>6. AuthorityHeld'
    <3>1. \A j \in cloud'.inst : j.id < cloud'.next
      BY <2>2, <2>3, <2>4 DEF SafeInv, AuthorityHeld
    <3> QED
      BY <2>2, <3>1 DEF SafeInv, AuthorityHeld, DestroyStaysWithinAuthority, At
  <2>7. SeenOrLate'
    <3>1. \A j \in cloud'.inst : \E h \in cloud.inst : h.id = j.id /\ h.fw = j.fw
      BY <2>3, <2>4
    <3>2. CleanupSparesBoundGroups'
      BY <2>2, <3>1 DEF SafeInv, SeenOrLate, CleanupSparesBoundGroups, At
    <3>3. ReleaseIsComplete' /\ VpcDeleteSparesAttachments'
      BY <2>2 DEF SafeInv, SeenOrLate, ReleaseIsComplete, VpcDeleteSparesAttachments,
         OpenRules, AttsOf, At
    <3> QED
      BY <2>2, <3>1, <3>2, <3>3 DEF SafeInv, SeenOrLate, At
  <2>8. OwnRequests'
    BY <2>2 DEF SafeInv, OwnRequests, At
  <2> QED
    BY <2>5, <2>6, <2>7, <2>8 DEF SafeInv
<1> QED
  BY <1>1, <1>2, <1>3, <1>4, <1>5 DEF Environment

(* The inductive invariant holds.                                          *)
LEMMA VultrSafe == Spec => [](Typed /\ SafeInv)
<1>1. Init => SafeInv
  <2> SUFFICES ASSUME Init PROVE SafeInv
    OBVIOUS
  <2>1. PICK own \in {"none", "conflict", "other"} :
          LET inst == IF own = "none" THEN {}
                      ELSE {[id |-> 1, own |-> own, fw |-> None, drift |-> "none"]} IN
          cloud = [inst |-> inst, vpcs |-> {}, atts |-> {}, groups |-> {},
                   next |-> Cardinality(inst) + 1]
    BY DEF Init
  <2>2. Exact(cloud.inst) = {} /\ \A i \in cloud.inst : i.id < cloud.next
    <3>1. CASE own = "none"
      BY <2>1, <3>1 DEF Exact
    <3>2. CASE own # "none"
      <4> DEFINE i == [id |-> 1, own |-> own, fw |-> None, drift |-> "none"]
      <4>1. Cardinality({i}) = 1
        BY FS_Singleton
      <4>2. cloud = [inst |-> {i}, vpcs |-> {}, atts |-> {}, groups |-> {}, next |-> 2]
        BY <2>1, <3>2, <4>1
      <4> QED
        BY <3>2, <4>2 DEF Exact
    <3> QED
      BY <3>1, <3>2
  <2>3. job.pc = "idle" /\ CreatesInFlight = {} /\ issued = NoAuthority
    BY DEF Init, Idle, CreatesInFlight
  <2>4. OwnRequests /\ SeenOrLate
    BY <2>3 DEF OwnRequests, SeenOrLate, CleanupSparesBoundGroups, ReleaseIsComplete,
       VpcDeleteSparesAttachments, At, EnsureLabels
  <2>5. OneCreate
    BY <2>2, <2>3 DEF OneCreate, Reserved, At, EnsureLabels
  <2>6. AuthorityHeld
    BY <2>2, <2>3 DEF AuthorityHeld, DestroyStaysWithinAuthority, At
  <2> QED
    BY <2>4, <2>5, <2>6 DEF SafeInv
<1>2. Typed /\ Typed' /\ SafeInv /\ [Next]_vars => SafeInv'
  <2> SUFFICES ASSUME Typed, Typed', SafeInv, [Next]_vars PROVE SafeInv'
    OBVIOUS
  <2>1. CASE Next
    BY <2>1, FirstUseSafe, AbortSafe, EnsureSafe, ApplySafe, ReleaseSafe, DestroySafe,
       ConvergeSafe, CleanupSafe, CleanupSupportSafe, EnvironmentSafe DEF Next
  <2>2. CASE UNCHANGED vars
    <3>1. OwnRequests' /\ OneCreate'
      BY <2>2 DEF vars, SafeInv, OwnRequests, OneCreate, CreatesInFlight, Reserved, At
    <3>2. AuthorityHeld'
      BY <2>2 DEF vars, SafeInv, AuthorityHeld, DestroyStaysWithinAuthority, At
    <3>3. SeenOrLate'
      BY <2>2 DEF vars, SafeInv, SeenOrLate, CleanupSparesBoundGroups, ReleaseIsComplete,
         VpcDeleteSparesAttachments, OpenRules, AttsOf, At
    <3> QED
      BY <3>1, <3>2, <3>3 DEF SafeInv
  <2> QED
    BY <2>1, <2>2
<1> QED
  BY <1>1, <1>2, VultrTyped, PTL DEF Spec

(* What the provider keeps, what is on its way to it and what a job has    *)
(* noted have their types; the quota and the bound of the loops hold.      *)
THEOREM CloudIsTyped == Spec => []TypeOK
<1>1. Typed => TypeOK
  BY DEF Typed, TypeOK, Account, Group, Command, Job
<1> QED
  BY <1>1, VultrTyped, PTL

(* host_first_use is the only owner of CREATE and sends it once per receipt*)
(* branch: however many requests are lost or late and jobs are killed, the *)
(* managed machine exists at most once.                                    *)
THEOREM MachineIsUnique == Spec => []AtMostOneMachine
<1>1. SafeInv => AtMostOneMachine
  <2> SUFFICES ASSUME SafeInv PROVE Cardinality(Exact(cloud.inst)) <= 1
    BY DEF AtMostOneMachine
  <2>1. CASE Exact(cloud.inst) = {}
    BY <2>1, FS_EmptySet
  <2>2. CASE Exact(cloud.inst) # {}
    <3>1. PICK i : i \in Exact(cloud.inst)
      BY <2>2
    <3>2. Exact(cloud.inst) = {i}
      BY <3>1 DEF SafeInv, OneCreate
    <3> QED
      BY <3>2, FS_Singleton
  <2> QED
    BY <2>1, <2>2
<1> QED
  BY <1>1, VultrSafe, PTL

(* destroy_machine_with_firewall_profiles deletes the machine its authority*)
(* was printed for, however old the authority is.                          *)
THEOREM DestroyIsAuthorized == Spec => []DestroyStaysWithinAuthority
<1>1. SafeInv => DestroyStaysWithinAuthority
  BY DEF SafeInv, AuthorityHeld
<1> QED
  BY <1>1, VultrSafe, PTL

(* cleanup_environment_support_resources deletes no group that an instance *)
(* is behind, but for an instance whose CREATE was late.                   *)
THEOREM BoundGroupsAreSpared == Spec => []CleanupSparesBoundGroups
<1>1. SafeInv => CleanupSparesBoundGroups
  BY DEF SafeInv, SeenOrLate
<1> QED
  BY <1>1, VultrSafe, PTL

(* release_access_with_authority reports access as closed only when every  *)
(* transient rule is gone, but for one whose creation was late.            *)
THEOREM ReleaseClosesAccess == Spec => []ReleaseIsComplete
<1>1. SafeInv => ReleaseIsComplete
  BY DEF SafeInv, SeenOrLate
<1> QED
  BY <1>1, VultrSafe, PTL

(* cleanup_vpc_once never deletes a VPC with an attachment, but for one    *)
(* that a late attach made.                                                *)
THEOREM AttachedVpcIsSpared == Spec => []VpcDeleteSparesAttachments
<1>1. SafeInv => VpcDeleteSparesAttachments
  BY DEF SafeInv, SeenOrLate
<1> QED
  BY <1>1, VultrSafe, PTL
=============================================================================
