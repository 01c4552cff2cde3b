# A TLA+ model of the edge platform's host ownership

The repository (`src/edge-platform`, a Rust workspace) drives a small fleet of
sing-box hosts from Git: a planner compares a Git-owned target with a native
readback, a Cloudflare Worker signs one intent, and the *native owner* of the
host (root `edge-agent` on a VM, a SYSTEM controller on Windows) admits it into
a durable journal, executes it at most once, reads the host back and stores a
typed result. The rule that everything serves is non-repeatability: an
operation whose outcome is unknown is never replayed (`UNKNOWN_NO_REPLAY`).

This directory models that core on both kinds of hosts, the Docker effectors
behind it on the VM, and the jobs that create and remove the VM at its cloud
provider. TLC checks the models on small instances; TLAPS proves every safety
property the passing runs check, for every instance.

## 1. Inventory

| Component | State it keeps | Operations | What makes it hard |
|---|---|---|---|
| Host planner (`host_planner.rs`, `host_lifecycle.rs`) | none, a pure function | propose, propose signed, validate | a dozen ordered blockers; three degraded readbacks that still lead to a plan |
| Native journal (`host_journal.rs`) | per resource a gate, per operation a BEGIN and one terminal, all files | admit, finish, resolve (RECOVER), store and unlock | a crash or power loss between any two file operations; resubmission; RECOVER adjudicating from a later readback |
| VM owner (`host_native.rs`) | owner lock, `trust.pb`, its own binary | apply | several root processes; checks before an await (the Worker) used after it |
| ADMIN commands (`host_admin_native.rs`) | pending and terminal record per command | execute | shares lock and directory with the journal; a child whose pipes end incompletely |
| Enrollment and refresh (`host_enroll.rs`) | `trust.pb`, binary | enroll, refresh_current | two renames that can be cut between; independent of pending operations |
| Docker effectors, managed network (`docker_observation.rs`, `docker_native_gateway.rs`, `docker_managed_*.rs`, `network_managed_*.rs`) | containers, image pins, templates, rendered files, manifests, release marker; the kernel's routes, nft tables and DNS | install, start, stop, replace images, one configuration or one managed object | a dozen calls in a fixed order, no rollback; lost answers; containers others touch |
| Windows owner (`windows_signed_host.rs`, `windows_config.rs`, `windows_update.rs`) | the request file, the configuration, the network baseline, the same journal | dispatch, configure, install, start, stop, recover | a before-state of the foreign network that must exist while the TUN captures it |
| Windows controller (`edge-controller`, `windows_native_runtime.rs`) | the SCM service and its one child | the signed effect, service start and stop, supervision | a call that times out while its effect goes on; a child that dies alone |
| Vultr machine, firewall and VPC (`vultr_lifecycle*.rs`, `vultr_support_resources.rs`, `vultr_vpc_*.rs`, `lifecycle.rs`) | none locally; the provider's objects, a receipt branch and a BEGIN comment in Git | first use and its abort; helpers without a caller: apply, destroy, converge, acquire and release access, clean up | lost and late answers of the provider; a plan or an authority that is stale when used; killed jobs |
| Cloudflare DNS, Mesh and application lifecycles | provider objects | plan, authorize, apply, clean up | as the Vultr lifecycles |
| Host command, Worker reconciliation (`host_command.rs`, `vm_worker_begin_reconciliation.rs`) | runner side of an operation | dispatch, reconcile | lost answers |
| Credential plane (`credential_*`, `cloudflare_credential_plane_command.rs`) | credential journal, delivered secrets | initial, join, transition | journalled multi-step creation |
| Generators, provider clients, types, tracing | none | rendering, HTTP, encoding | not stateful |

The components meet in files and in messages: the planner is called by the
journal, the journal by `apply`; `apply`, ADMIN and refresh are separate root
processes that share only the lock file, the trust directory, the journal
directory and the host itself. The journal's one native call is the list of
Docker calls of `VmDocker` on a VM and the controller's signed effect on
Windows. The Vultr jobs run on GitHub, one at a time, and meet the hosts only
through the machine they create. Two of them can be reached at this commit:
first use and its abort (`edge-control-plane.yml`). The destroy, access,
cleanup and VPC functions have neither a command nor a workflow any more; the
source calls them "internal, unreachable old helpers"
(`vultr_lifecycle_command.rs:66`). They are modelled as functions, each in any
order after the others: what is shown of them is what they would do if called,
and nothing is assumed about when that is.

`PROJECT.json` lists every component with its status, and under `hazards` what
a test would hardly reach, each at its line.

## 2. Modules

| Module | Models | Notes |
|---|---|---|
| `HostPlanner` | `propose_host_transition`, `propose_signed_host_transition`, `validate_host_transition_plan`, the observation rules | pure operators; reason codes in five classes; clocks as `fresh` |
| `HostConvergence` | rounds of plan and verified effect on one host of either kind | any readback initially |
| `NativeOwner` | what root processes share: journal directory, lock, trust, binary, host | every file has what is read now (`cache`) and what survives a power loss (`disk`) |
| `HostJournal` | `apply` and `execute_after_protected_owner_check_once` with admit, finish, resolve, store | one action per file operation |
| `HostAdmin` | `execute` of the ADMIN command | same style |
| `HostEnroll` | `enroll` and `refresh_current` on an enrolled VM | rename and sync are separate |
| `VmOwner` | the composition, with faults | `Abort`, `PowerLoss`, `Drift` |
| `VmOwnerInv` | the inductive invariant of `VmOwner`, in six layers | section 5 |
| `OneShot` | what the owner promises of its operations, without files or processes | abstract |
| `VmOwnerRefinement` | the status of an operation read off the journal's files; `VmOwner` implements `OneShot` | refinement mapping |
| `VmDocker` | the inside of `Effect` on a VM: preflights, lists of calls, poststates, and the readback over them | one task per Docker, file or kernel call |
| `WindowsController` | SCM service, child, adapter, foreign network, the signed effect | shared state of a Windows host |
| `WindowsOwner` | `dispatch_if_present` with the Windows path of the journal | one action per record or call |
| `VultrCloud` | the provider's account, requests in flight, the one running job | the provider is external |
| `VultrSupport` | firewall group and transient rules: ensure, acquire, release, clean up | |
| `VultrMachine` | first use and its abort; apply, destroy plan and destroy | the receipt branch and the run that reserved it in `git` |
| `VultrVpc` | VPC and attachment: converge and clean up | |
| `VultrLifecycle` | the composition | |
| `VmDockerInv`, `WindowsInv`, `VultrInv` | the inductive invariants of the three later systems | section 5 |
| `MCVmOwner`, `MCVmDocker`, `MCWindowsOwner` | instances for TLC | |
| `*Proofs` | the theorems | section 5 |

How state and actions correspond to the code:

* A process is one call of the agent; `pc` says how far it is and the locals
  (`op`, `subj`, `step`, `prev`, `tname`, `reason`) are the Rust locals that
  are alive across steps. `Exit` is the return: locals and lock are gone.
* `create_private_native_record` + `write_all` + `sync_all` + directory sync
  are three actions (`Create...`, `Write...`, `Sync...`). A created and not yet
  written file is `torn`: it exists and does not decode. `SyncAll` makes one
  file and all directory entries durable, `SyncDirectory` only the entries.
* Every error return of the code is `Refuse` (a guard of the code is false) or
  `Abort` (the environment fails); both leave the files as they are.
* `Effect` is the single call of `apply_once`. It may leave any state of
  `HostStates`: success, failure and partial success look alike until the
  readback. A killed process's effect that completes later is `Drift`.
* Signatures, digests and protobuf encoding are abstracted to identities: an
  intent is its operation ID with a source, an action and a resource.
* `effects`, `reached`, `decided` and `spawns` are history: no guard reads them.

In the later modules:

* `VmDocker`: `op.todo` is what an effector has still to do, put together by
  `ForEach` over the services in the order the code takes. `Proceeds` makes
  the next call, `AnswerLost` makes it and ends the operation, `Dies` ends it
  before the call, `Refuses` ends it at a check that does not hold. A container
  is identified as far as an operation does: `seen` before BEGIN, `made` by the
  operation, `foreign`. A configuration is named after its template; `cfg` is
  what the process has read. `next` is any staged file left beside its target.
  `Begin` starts from the readback and the preflight at one point of time,
  since both happen under the owner's lock; what others do to Docker afterwards
  is a `Disturbance`.
* `WindowsOwner`: one request file, one owner process. A controller call that
  times out is `Dies` at that step: the owner leaves and the controller goes
  on. The controller's effect is five steps (verify, consume, launch, observe
  the startup, confirm), with anything in between: the network check belongs to
  the second, and the third looks at the network without comparing it with the
  effect. `StopService` reports the service stopped whether or not it could end
  the child. `NetworkChanges`, `AdapterGone`, `ChildExits`, `ControllerDies` and
  `GitAdvances` may happen at any time and any number of times.
* `VultrCloud`: a request is applied, rejected, lost, or stays in `flight` and
  lands at any later time (`LateEffect`), also in the middle of another job.
  `late` is history. `Attempts` is how often a job looks again after a mutation
  (30 and 180 in the code). `git.run` is what the abort script can prove of the
  run that reserved the branch: only if its CREATE step was skipped, and the
  provider shows nothing, is the branch deleted.

Definitions introduced with "Broken on purpose" are variants of a definition
with a plausible mistake in it; they are used by nothing, and each shows, when
it takes the place of the definition, that some property really depends on it.

## 3. Runs

| Run | Instance | What it shows |
|---|---|---|
| `convergence` | 2 releases, all hosts, actions and readbacks | the planner blocks on anything unproven, respects the run target, and needs one effect |
| `owner` | 2 processes, APPLY + RECOVER + ADMIN, 1 source, 3 faults of any kind | at most one effect, gates survive, no operation over an unknown one, VERIFIED is true |
| `refresh` | 1 process, 3 APPLYs (one scoped) + RECOVER, 2 sources, refreshes, 3 crashes or drifts | verdicts on operations of the old source stay consistent; effects only from accepted source and binary |
| `recovery_liveness` | 1 process, 2 APPLYs + RECOVER, two sources with a running target and different releases, 2 faults, fairness | a recoverable operation is settled in the end |
| `docker` | 3 services, 4 releases (base, other images, another template, a managed route), fresh or installed VM, 3 faults | what is on disk never claims more than the containers have reached; only planned containers are touched |
| `windows` | one START, STOP, APPLY and RECOVER, 3 Git states, 2 releases, 2 foreign networks, no bound on deaths and disturbances | the TUN captures only with a before-state on record and by a decision over that network; the record is kept until the network is restored |
| `vultr` | empty or foreign account, quota of 4 objects, 2 faults, 2 re-observations | one billable machine at most; nothing is deleted beyond its authority or under somebody's feet |
| `crash_after_terminal`, `result_durability`, `admin_unknown`, `windows_verified`, `stopped_vm` | | the findings of section 6 |

`refresh` also checks `ImplementsOneShot`, the refinement.

Bounds. Three faults are what the deepest scenario takes: one process is
killed, its recovery is killed, and the power fails. Two processes suffice for
interference since the lock admits one at a time and a third adds no new
order; sources 1 and 2 stand for the source of the old operation and the
current one. `MaxFaults` is the only bound on behaviours; operation IDs are
finite, and an operation can be submitted any number of times. Host states are
healthy on either release, stopped with the reason codes the readback gives a
stopped VM, and running with a broken consumer datapath. `refresh` leaves the
stopped one out, over which no operation with a running target is admitted or
verified. The power does not fail there: with a power loss as the third fault
`SettledNeverRuns` and `NoConflictingTerminals` are false for the reason
`result_durability` shows, and a terminal that is lost again is
no step of `OneShot`.

The other instances. `docker`: three faults are a replacement that is cut, its
successor that is cut, and a container somebody touches in between; each of the
four releases differs from the base by the kind of change one effector takes,
and two gateways with WARP are all the services the code knows. The run does
not check for deadlock: a VM with a torn marker or with a staged file in the
way really stays as it is. `vultr`: two faults are a late CREATE and a killed
job; the quota leaves room for a second machine and a second VPC, which is what
must not happen. `windows`: two networks and two releases are enough for
"changed" and "the same", and each action appears once, since a used operation
ID is refused.

Fairness (`FairSpec`): weak fairness of each process's next step, since a
started process is scheduled until it returns; strong fairness of submitting
each operation, since the runner submits again after a refusal and the lock is
only taken and released around calls. Faults, refreshes and ADMIN commands are
not fair. The other systems state no fairness: nothing in the repository
dispatches the Vultr helpers, and the Windows owner promises no progress.

## 4. Properties

`AtMostOnce`, `UnknownKeepsGate` and `NoEffectOverUnknown` are the
non-repeatability rule, for the journal and ADMIN paths together.
`VerifiedWasReached` says a VERIFIED result is never an assumption, although
RECOVER may write it long after the effect and from another process.
`NoConflictingTerminals` and `SettledNeverRuns` say adjudication by RECOVER is
final. `EffectUnderAcceptedSource` covers the two-step refresh.
`RecoverableIsSettled` is the liveness counterpart of keeping gates closed.
`ImplementsOneShot` puts the rule in one formula: begun once, at most one
operation open, run at most once, settled by a final verdict, and never called
a mere observation after it ran. The mapping calls an operation settled when
its gate is gone: until then a RECOVER may add VERIFIED beside the OBSERVED of
a process that was killed in between, which the model showed and the code
allows (only VERIFIED and INCOMPLETE exclude each other).

Docker. `PinsFollowContainers`: the order of an image replacement (containers,
readback, pins, marker) means that a host cut half way never looks complete.
`MarkerSealsRelease`: whichever effector writes the marker, the files are that
release's and a replaced gateway reads them. `OnlyPlannedContainers`: neither a
neighbour nor a container put in place of a planned one is touched, by any
effector, between preflight and readback. `ContainersHaveCredential` is the
order of a first install.

Windows. `CaptureHasBaseline` and `BaselineRetiredRestored` say the before-state
of the foreign network exists while our adapter is there and is retired only
over a restored network, although network, child and controller change at any
time. `CaptureDecidedOverRecordedNetwork` says the decision to capture is made
over the recorded network: an effect is consumed only while the machine shows
it, and a TUN child is launched only for a consumed effect of the active
baseline. It does not say the network is still that one when the child comes
up. The code does not compare it again before the launch; a change in between
is seen by the poststate, and the START is not VERIFIED.
`OneEffectPerOperation` and `VerifiedStartStopHappened` are the Windows side of
non-repeatability. A VERIFIED STOP means a stopped service, no adapter and the
recorded network; a sing-box process that survived the service is possible, see
section 6.

Vultr. `AtMostOneMachine` under late and lost CREATEs; `DestroyStaysWithinAuthority`
for authorities of any age; `CleanupSparesBoundGroups` and
`VpcDeleteSparesAttachments` for lists read in several calls;
`ReleaseIsComplete` for access reported as closed. Only the first is about jobs
that run today. A request that was late is the only exception each of them makes.

## 5. Proofs

| Module | Theorems |
|---|---|
| `HostConvergenceProofs` | the five invariants and `OneEffectConverges`, for any set of releases |
| `VmOwnerTypeProofs` | `TypeCorrect`; `EffectsAreAccepted` |
| `VmOwnerJournalProofs` | lemma `JournalSafe`, layer 3 |
| `VmOwnerSafetyProofs` | `EffectsAtMostOnce`, `UnknownAlwaysKeepsGate`, `NoEffectStartsOverUnknown`, `VerifiedIsNeverAssumed` |
| `VmOwnerSettleProofs` | `TerminalsNeverConflict`, `SettledOperationsNeverRun`, `JournalImplementsOneShot`, while the power does not fail |
| `VmDockerProofs` | `DockerTypes`, `CredentialComesFirst`, `PinsAreWrittenLast`, `MarkerComesLast`, `OnlyPlannedMove` |
| `WindowsOwnerProofs` | `TypeCorrect`, `NoCaptureWithoutBaseline`, `CapturesAreDecided`, `RetiredIsRestored`, `EffectsAtMostOnce`, `VerifiedStartStopIsTrue` |
| `VultrProofs` | `CloudIsTyped`, `MachineIsUnique`, `DestroyIsAuthorized`, `BoundGroupsAreSpared`, `ReleaseClosesAccess`, `AttachedVpcIsSpared` |

They hold for every value of the constants: any number of processes,
operations, resources, sources, releases, networks, objects and faults. Each
theorem names the property the run of section 3 checks. None of the properties
is inductive; each invariant below was checked by TLC on the run's instance
first.

### The VM's journal

Power losses are included in everything but `VmOwnerSettleProofs`. Assumptions:
the constants have their types (`NamesAssumption`, `SourceAssumption`), a
RECOVER names the whole host and intents are well formed (`IntentAssumption`),
host states are valid readbacks (`HostStatesAssumption`), operation IDs are not
file marks (`ContentsAssumption`). `VmOwnerInv` says, layer by layer, what must
be true of the shared state for a process at each label:

1. *Typed*: a process in the middle of an operation knows which one.
2. *Exclusive, Accepted*: only the lock's holder is past submission, and the
   source and binary it was authorized for are still in place.
3. *JournalInv*: gate and BEGIN are durable before the effect, no other pending
   record exists, the operation has not run; an operation that ran has a
   durable BEGIN, and until it is decided a durable gate of its own.
4. *AdminInv*: the same for pending and terminal records of ADMIN commands.
5. *ResultInv*: a target state that held after BEGIN is in `reached`, and a
   VERIFIED record is only begun for such an operation.
6. *SettleInv*: a begun operation keeps its gate until one of its terminal
   records can be read, what is being settled was begun and has no opposite
   record, and an observation is only recorded of what did not run.

Layer 3 is the long one. Each step writes at most one file, so `Kept` (what a
file operation leaves of every other file) carries most conjuncts, and
`OneProcess` (from layer 2) reduces every per-process conjunct to the process
that moved.

Layer 6 has `~PowerMayFail` as its hypothesis, which the `refresh` run's
instance satisfies and `result_durability` shows to be needed: a terminal that
was read and not durable can be lost after its gate. With it
`JournalImplementsOneShot` shows the whole refinement: `OneShot` states no
fairness, the initial states correspond, and every step of `VmOwner` maps to a
step of `OneShot` or leaves the status of every operation.

### The Docker effectors

Assumptions: a bundle pins one image for each service and one template for
each gateway, one image for both gateways and another for WARP
(`PolicyAssumption`); "no image" and "half a marker" are no image and no release
(`NoneAssumption`). The idea of `VmDockerInv` is that *what is left to do says
what has been done*:

1. *Typed*: also of every call in `op.todo`.
2. *Planned*: an operation's calls are of its effector's repertoire, on the
   containers of its scope, and in the order of their phases.
3. *Credentialed*: while the bundle has yet to be activated there is no stack,
   and the credential is active or still to be promoted.
4. *ImagesReplaced, ConfigReplaced, ManagedReplaced*: for each replacement, if
   the readback, the commit, the rendering or the removal is no longer due,
   then images, pins, templates, rendered files and manifest are as it left
   them.

The lists are composed with `\o`; `JoinTasks`, `JoinWithin` and `EachDocking` say
what a composed list contains and that it is ordered, and one lemma for each
effector (`InstallList` to `ManagedList`) shows that its list fits layer 2.
Deaths need no case of their own: an operation that has ended has nothing left
to be said of it. For a container somebody touches, the invariant says only
what the properties say. `Refuses` has an ENABLED in its guard; the proofs do
not open it and hold whenever the operation is refused.

### The Windows owner

Assumptions: there is a Git target, targets and actions are typed
(`TargetAssumption`), no operation is `NoOp` (`OpAssumption`). `WindowsInv`:
*Typed*; *Admitted*, what preflight and plan have fixed (a TUN target is
started by START alone); *Gated*, whose gate a process holds; *BeginsOnce*, an
effect follows its BEGIN; *Baselines, Remembered, PendingRecorded*, an owner
that is at work remembers the network of the active baseline, and a TUN effect
the controller has yet to carry out belongs to a START that holds the gate and
its before-state is that baseline; *Started*, what a START finds at its
readback; *Truthful*, what is claimed was so. The middle layers are needed
because a controller call outlives the owner that sent it: between the call and
the capture only the gate and the baseline on disk tell what it will do. None
of them says anything of a child whose service has stopped.

### The Vultr lifecycles

Assumptions: the account has room for one object, a job looks at least once
after a mutation (`BoundsAssumption`). `VultrInv`: *Typed*, of everything a job
has observed; *OwnRequests*, what a subroutine was called for and may send;
*OneCreate* and *Reserved*, a CREATE that may still land is the only one,
nothing managed exists yet, and the receipt branch keeps every other first use
out, which is why no CREATE may be in flight for a run whose branch an abort or
a new epoch can delete; *AuthorityHeld*, an authority names a managed machine of its own inventory
and IDs are given out in order, so that no later machine can be taken for it;
*SeenOrLate*, what a cleanup or a release has seen is still so, but for what
came late.

### Only model-checked

Liveness (`RecoverableIsSettled`): fairness is outside the prover. The
findings of section 6, which are counterexamples.

## 6. Findings

1. `crash_after_terminal`: a process killed between syncing its terminal and
   removing the gate leaves a record with the reason `NO_FURTHER_ACTION`;
   RECOVER compares it with the record it would write itself
   (`RECOVERED_NATIVE_...`) and refuses. The comment at
   `host_journal.rs:1414` calls this crash recoverable.
2. `result_durability`: RECOVER accepts a terminal it can read, durable or not,
   and removes the gate; `host_journal.rs:1605` promises a durable result
   before the gate is released.
3. `admin_unknown`: a retained ADMIN pending record keeps out the signed
   RECOVER that `host_admin_native.rs:40` names as the way to reconcile it.
4. `windows_verified`: on Windows a RECOVER expects the release that is
   installed, so an APPLY killed before its installer ran is stored VERIFIED;
   `host_journal.rs:1343` says never to misrepresent a different release as
   original success.
5. `stopped_vm`: the readback of an installed VM after a STOP lists "expected
   containers are not running" and missing listeners (`main.rs:718-752`); the
   planner blocks on every such reason code, so START is never proposed, for any
   target. `main.rs:302` says "Stopped VM resources are not a broken
   observation; do not flag them as an evidence error merely because the
   application is intentionally stopped." The completion that
   `docker_observation.rs:3180-3182` expects of an interrupted image replacement
   ("later signed recovery can observe target containers with old pins and
   finish without replay") meets the same wall, since image drift is a reason
   code as well; it has no run of its own.

A neighbouring gap is in the model and in the hazards, without a run:
`stop_runtime_process` may fail while the Windows service shuts down
(`edge-controller/src/main.rs:928-966`), SERVICE_STOPPED is reported all the
same, and neither `wait_for_service_state` nor `system_native_observation` looks
at processes of a stopped service, so a STOP can be VERIFIED over a live
child. The comment at `edge-console/src/main.rs:4914` says SCM shutdown
"terminates only its owned child before reporting Stopped".

Met on the way and safe, so only listed as hazards: a killed scoped APPLY and a
gate without BEGIN cannot be recovered by any signed operation; torn records
keep the owner closed.

Met in the other models, and no promise of the code: a Windows STOP killed
between unlock and archive leaves a baseline that only an operator retires; a
replacement of WARP cut between remove and create, a container left off its
network and a leftover staged file are refused by every later operation; the
release marker is written in place and a torn one stops every readback; after a
configuration replacement cut behind the rename of the template, a revert in
Git plans nothing over files that are not the marker's.

## 7. Plan

Done: planner, VM journal, ADMIN, refresh, their composition; the abstract
`OneShot` and its refinement; the Vultr lifecycles; the Windows owner and
controller; the VM's Docker effectors; the proofs of their safety properties.

Next, in this order:

1. Proofs: a promise of the Docker effectors on the level of `HostJournal`'s
   `Effect` (which readbacks a carried out and a cut operation can leave), and
   `VmDocker` shown to implement it.
2. The VM Worker's source and signer (`host_vm_worker_authorizer_upgrade`,
   `host_vm_signer_prepare` and `_commit`, `host_access_cutover.rs`,
   `vm_worker_begin_reconciliation.rs`): versions uploaded and deployed by jobs
   that can be killed with a request in flight, one Worker shared by all VMs
   while the BEGIN records are read per machine.
3. The rest of the runner's side (`host_command.rs`) and the Cloudflare
   lifecycles, which repeat the pattern of `VultrVpc`.

The initial credential pair (`credential_initial_journal.rs`: publish, commit
and recovery) is not in the plan: the command line no longer reaches it.

## 8. Not modelled

Cryptography, protobuf, HTTP and JSON parsing; the Worker and GitHub (only
through what the owners see of them); the content of ReleaseSets; rendering of
sing-box and Clash configurations; diagnostics and logging; scripts and
infrastructure files. These, the message types and the tests inside the source
files are most of the repository's lines, which is why the map covers about a
tenth of them: it covers the code that decides and changes state.

Left out of the parts that are modelled:

* VM: the first enrollment (the model starts on an enrolled host with an empty
  journal). The constant `HostStates` may be any set of readbacks; the instances
  give a stopped host a reason code, as `inspect_runtime` does, so an operation
  with a stopped target is never recoverable in them and `RecoverableIsSettled`
  is about running targets.
* Docker: image pulls, health and repository checks, edits of the stack's files
  by others; nft tables, DNS links and Docker objects, which follow the managed
  route; the Mesh container. `Effect` of `HostJournal` and `VmDocker` are not
  composed in one run.
* Windows: enrollment of the trust and receipt keys, ADMIN and handoff
  requests, torn journal files (the VM model has them), the identity of an
  adapter that is deleted and created again under one name, the datapath checks
  of WARP.
* Vultr: SSH keys, cloud-init and the guest's bootstrap; prices and plans; the
  Cloudflare services. Of the abort job the branch that finds a machine and
  completes its receipt is left out, and of the abort script the exception for
  one historical revision. `NewEpoch` is external: people delete the merged
  receipt branch of a completed first use. `PlanDestroy`, `IssueDestroy` and
  `Destroy` are jobs of their own with an authority that may grow old, which is
  wider than the one caller in the source (`acceptance_destroy_and_cleanup`
  plans, authorizes, destroys and cleans up in one call). `PlanMachine` omits two
  refusals (an empty ID, a missing image), and where a function lists the same
  groups twice in a row the model reads them once.
* The legacy credential transitions, which the dispatchers answer with an error.
