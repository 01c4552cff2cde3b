-------------------------- MODULE VmOwnerRefinement --------------------------
(***************************************************************************)
(* The journal implements OneShot as long as the power does not fail.  An  *)
(* operation is begun when its BEGIN can be read, and settled when its     *)
(* gate is gone and one of its terminal records can be read: a RECOVER may *)
(* still add VERIFIED to the OBSERVED of a process that was killed before  *)
(* it removed the gate.  A gate that went without a readable terminal      *)
(* would leave its operation open for ever.                                *)
(***************************************************************************)
EXTENDS VmOwner

Readable(f) == cache[f] \notin {"absent", "torn"}
Gated(o)    == cache[Scope(ResourceOf[o])] = o
Settled(o)  == ~Gated(o) /\ \E t \in Terminals : Readable(Term(t, o))

StatusOf(o) ==
  IF ~Readable(Begin(o)) /\ effects[o] = 0 THEN "unused"
  ELSE IF ~Settled(o) THEN (IF effects[o] > 0 THEN "unknown" ELSE "begun")
  ELSE IF Readable(Term("verified", o)) THEN "verified"
  ELSE IF Readable(Term("incomplete", o)) THEN "incomplete" ELSE "observed"

Promise ==
  INSTANCE OneShot WITH
    Operations <- Ops,
    Mutators   <- {o \in Ops : ActionOf[o] = "Apply"},
    status     <- [o \in Ops |-> StatusOf(o)]

(* Killed processes, resubmissions, recoveries by other processes and      *)
(* refreshes in between: every step of the journal's files is a step of    *)
(* OneShot, or changes no operation's status (execute, admit, finish and   *)
(* resolve_pending_native_recovery_once of host_journal.rs together).      *)
ImplementsOneShot == Promise!Spec
=============================================================================
