---------------------------- MODULE VultrCloud ----------------------------
(***************************************************************************)
(* What the Vultr lifecycle commands share: the provider's account, the    *)
(* requests that outlive the call that sent them, and the one job the      *)
(* GitHub concurrency group vultr-control-plane-production lets run.       *)
(*                                                                         *)
(* One environment with one desired machine is modelled.  The provider     *)
(* (edge_provider_vultr behind the LifecycleProvider, VpcProvider and      *)
(* SupportResourceProvider traits) is external: it applies a request, loses*)
(* it, rejects it, or applies it after the caller has given up.            *)
(***************************************************************************)
EXTENDS Integers, FiniteSets

CONSTANTS
    MaxObjects,  \* provider objects ever created: the account's quota
    MaxFaults,   \* requests that are lost or late, and killed jobs
    Attempts     \* re-observations after a mutation (30 and 180 in the code)

ASSUME BoundsAssumption ==
    /\ MaxObjects \in Nat \ {0}
    /\ MaxFaults \in Nat
    /\ Attempts \in Nat \ {0}

VARIABLES
    cloud,   \* the provider's account
    flight,  \* accepted requests the provider has yet to apply
    late,    \* history: objects created, and VPCs attached to, by a late request
    faults,
    job,     \* the running job: program counter and locals
    git,     \* the receipt branch and how far GitHub says its first use got
    issued   \* the last destroy authority a plan job printed

cloudVars == <<cloud, flight, late, faults>>
vars == <<cloud, flight, late, faults, job, git, issued>>

None == 0
Ids == 1 .. MaxObjects

(***************************************************************************)
(* The account.  An instance is "exact" when its tags carry the managed    *)
(* identity of the desired machine, "conflict" when it only has its label, *)
(* "other" otherwise.  drift says how its fields differ from the desired   *)
(* ones.  A rule of a firewall group is wanted by the persistent profile   *)
(* ("keep"), the controller's transient access ("ctl") or "stray".         *)
(***************************************************************************)
Instance == [id : Ids, own : {"exact", "conflict", "other"}, fw : Ids \cup {None},
             drift : {"none", "update", "replace"}]
Attachment == [vpc : Ids, sub : Ids, known : BOOLEAN]
Rule == [id : Ids, spec : {"keep", "ctl", "stray"}]
Request == [op : {"create", "destroy", "vpcCreate", "vpcDelete", "attach", "detach",
                  "groupCreate", "groupDelete", "ruleCreate", "ruleDelete"},
            on : Ids \cup {None}, arg : Ids \cup {None}, spec : {"none", "keep", "ctl"}]

Runs == {"none", "begun", "skipped", "entered", "created"}

Exact(inst) == {i \in inst : i.own = "exact"}
GroupIds(c) == {g.id : g \in c.groups}
RulesOf(c, g) == UNION {h.rules : h \in {x \in c.groups : x.id = g}}

Creates(r) == r.op \in {"create", "vpcCreate", "groupCreate", "ruleCreate"}

(***************************************************************************)
(* The object a request is about exists (a request about an absent one is  *)
(* answered 404).                                                          *)
(***************************************************************************)
Found(r, c) ==
    CASE r.op = "destroy"                     -> \E i \in c.inst : i.id = r.on
      [] r.op = "vpcDelete"                   -> r.on \in c.vpcs
      [] r.op = "attach"                      -> r.arg \in c.vpcs /\ \E i \in c.inst : i.id = r.on
      [] r.op = "detach"                      -> \E a \in c.atts : a.vpc = r.arg /\ a.sub = r.on
      [] r.op \in {"groupDelete", "ruleCreate"} -> r.on \in GroupIds(c)
      [] r.op = "ruleDelete"                  -> \E x \in RulesOf(c, r.on) : x.id = r.arg
      [] OTHER                                -> TRUE

(***************************************************************************)
(* The account after the provider has applied r.  A new attachment may not *)
(* name its subscription yet.                                              *)
(***************************************************************************)
Applied(r, c, known) ==
    CASE r.op = "create" ->
           [c EXCEPT !.inst = @ \cup {[id |-> c.next, own |-> "exact", fw |-> r.arg, drift |-> "none"]}]
      [] r.op = "destroy" ->
           [c EXCEPT !.inst = {i \in @ : i.id # r.on}, !.atts = {a \in @ : a.sub # r.on}]
      [] r.op = "vpcCreate" -> [c EXCEPT !.vpcs = @ \cup {c.next}]
      [] r.op = "vpcDelete" ->
           [c EXCEPT !.vpcs = @ \ {r.on}, !.atts = {a \in @ : a.vpc # r.on}]
      [] r.op = "attach" ->
           [c EXCEPT !.atts = IF \E a \in @ : a.vpc = r.arg /\ a.sub = r.on THEN @
                              ELSE @ \cup {[vpc |-> r.arg, sub |-> r.on, known |-> known]}]
      [] r.op = "detach" ->
           [c EXCEPT !.atts = {a \in @ : ~(a.vpc = r.arg /\ a.sub = r.on)}]
      [] r.op = "groupCreate" -> [c EXCEPT !.groups = @ \cup {[id |-> c.next, rules |-> {}]}]
      [] r.op = "groupDelete" -> [c EXCEPT !.groups = {g \in @ : g.id # r.on}]
      [] r.op = "ruleCreate" ->
           [c EXCEPT !.groups = {IF g.id = r.on
                                 THEN [g EXCEPT !.rules = @ \cup {[id |-> c.next, spec |-> r.spec]}]
                                 ELSE g : g \in @}]
      [] r.op = "ruleDelete" ->
           [c EXCEPT !.groups = {IF g.id = r.on
                                 THEN [g EXCEPT !.rules = {x \in @ : x.id # r.arg}]
                                 ELSE g : g \in @}]

(***************************************************************************)
(* The provider applies r now, if its object is there and the quota allows.*)
(***************************************************************************)
ProviderApply(r) ==
    /\ Found(r, cloud)
    /\ Creates(r) => cloud.next <= MaxObjects
    /\ \E known \in BOOLEAN :
         /\ r.op # "attach" => known
         /\ cloud' = [Applied(r, cloud, known) EXCEPT !.next = IF Creates(r) THEN @ + 1 ELSE @]

(***************************************************************************)
(* An authority stands for its digest: the observation and the plan that   *)
(* authorize_plan hashes.  The plan is a function of what was observed.    *)
(***************************************************************************)
NoAuthority == [inv |-> {}, tgt |-> None, vpc |-> None, atts |-> {}, top |-> 0]
NoRequest == [op |-> "create", on |-> None, arg |-> None, spec |-> "none"]

(***************************************************************************)
(* The running job: program counter, the label a subroutine returns to and *)
(* what it has observed so far.                                            *)
(***************************************************************************)
Idle == [pc |-> "idle", ret |-> "idle", pass |-> "plan", bind |-> {}, inv |-> {},
         tgt |-> None, vpc |-> None, grp |-> None, want |-> "keep",
         left |-> 0, rounds |-> 0, req |-> NoRequest, auth |-> NoAuthority]

At(label) == job.pc = label
Goto(label) == job' = [job EXCEPT !.pc = label]
GotoWith(j, label) == job' = [j EXCEPT !.pc = label]

(***************************************************************************)
(* A job ends: with a report, with an error, or killed (a runner timeout). *)
(***************************************************************************)
End == job' = Idle

Killed ==
    /\ ~At("idle")
    /\ faults < MaxFaults
    /\ faults' = faults + 1
    /\ End
    /\ UNCHANGED <<cloud, flight, late, git, issued>>

(***************************************************************************)
(* A mutation is sent once.  Answers that leave its outcome open (a lost   *)
(* answer, 429, 5xx) lead to the bounded re-observation at label wait, like*)
(* success does; a definite error ends the job.  Nothing is sent again.    *)
(* For an instance, a group or a rule, 404 proves the absence.             *)
(***************************************************************************)
Send(r, wait) ==
    /\ UNCHANGED <<git, issued>>
    /\ \/ /\ ProviderApply(r)
          /\ job' = [job EXCEPT !.pc = wait, !.left = Attempts]
          /\ UNCHANGED <<flight, late, faults>>
       \/ /\ Found(r, cloud)
          /\ faults < MaxFaults
          /\ faults' = faults + 1
          /\ flight' \in {flight, flight \cup {r}}
          /\ job' = [job EXCEPT !.pc = wait, !.left = Attempts]
          /\ UNCHANGED <<cloud, late>>
       \/ /\ ~Found(r, cloud) \/ (Creates(r) /\ cloud.next > MaxObjects)
          /\ IF r.op \in {"destroy", "groupDelete", "ruleDelete"}
             THEN job' = [job EXCEPT !.pc = wait, !.left = Attempts]
             ELSE End
          /\ UNCHANGED cloudVars

(***************************************************************************)
(* Broken on purpose, for the mutant: the loop does not stop at its bound. *)
(***************************************************************************)
AgainWithoutBound(label) == job' = [job EXCEPT !.left = @ - 1, !.pc = label]

(***************************************************************************)
(* One more re-observation, or the error of the bounded loop.              *)
(***************************************************************************)
AgainFrom(label) ==
    IF job.left > 1 THEN job' = [job EXCEPT !.left = @ - 1, !.pc = label] ELSE End
Again == AgainFrom(job.pc)

(***************************************************************************)
(* External: a request that is late takes effect or comes to nothing; an   *)
(* attachment gets its subscription; an operator or the provider changes   *)
(* fields of an instance.                                                  *)
(***************************************************************************)
LateEffect ==
    \E r \in flight :
        /\ \/ /\ ProviderApply(r)
              /\ late' = late \cup (CASE Creates(r) -> {cloud.next}
                                      [] r.op = "attach" -> {r.arg}
                                      [] OTHER -> {})
           \/ UNCHANGED <<cloud, late>>
        /\ flight' = flight \ {r}
        /\ UNCHANGED <<faults, job, git, issued>>

AttachmentLinked ==
    \E a \in cloud.atts :
        /\ ~a.known
        /\ cloud' = [cloud EXCEPT !.atts = (@ \ {a}) \cup {[a EXCEPT !.known = TRUE]}]
        /\ UNCHANGED <<flight, late, faults, job, git, issued>>

InstanceDrifts ==
    \E i \in Exact(cloud.inst), d \in {"update", "replace"} :
        /\ faults < MaxFaults
        /\ faults' = faults + 1
        /\ i.drift # d
        /\ cloud' = [cloud EXCEPT !.inst = (@ \ {i}) \cup {[i EXCEPT !.drift = d]}]
        /\ UNCHANGED <<flight, late, job, git, issued>>
=============================================================================
