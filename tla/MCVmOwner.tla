------------------------------ MODULE MCVmOwner ------------------------------
(* Small instances of VmOwner for TLC.                                     *)
EXTENDS VmOwnerInv, TLC

CONSTANTS a1, a2, a3, v1, v2, m1, rel1, rel2, scoped

(* The second source moves the running host to another release.            *)
MCRunOf == [s \in Sources |-> "Running"]
MCReleaseOf == [s \in Sources |-> IF s = 1 THEN rel1 ELSE rel2]
MCAgentOf == [s \in Sources |-> IF s = 1 THEN "agent1" ELSE "agent2"]

MCActionOf == [o \in Ops |-> IF o \in {v1, v2} THEN "Recover" ELSE "Apply"]
MCResourceOf == [o \in Ops |-> IF o = a3 THEN scoped ELSE WholeHost]
MCSourceOf == [o \in Ops |-> IF o \in {a1, a3, v1} THEN 1 ELSE LastSource]
MCAdminSourceOf == [a \in Admins |-> 1]

State(owner, rel, ready, why) ==
  [kind |-> "Vm", owner |-> owner, proof |-> "ApplicationBundle",
   release |-> rel, readyProven |-> TRUE, ready |-> ready, why |-> why,
   fresh |-> TRUE]

(* Healthy on either release, stopped (which the VM readback always        *)
(* reports with reasons) and a broken consumer datapath.                   *)
MCHostStates ==
  {State("Running", rel1, TRUE, "none"), State("Running", rel2, TRUE, "none"),
   State("Stopped", rel1, FALSE, "other"), State("Running", rel1, FALSE, "consumer")}

(* Those a refresh is about: a stopped VM only keeps every operation out.  *)
MCRunningStates == {s \in MCHostStates : s.owner = "Running"}

Symm == Permutations(Procs)
=============================================================================
