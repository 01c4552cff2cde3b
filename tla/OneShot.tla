------------------------------- MODULE OneShot -------------------------------
(***************************************************************************)
(* What the native owner of a host promises of its signed operations, with *)
(* no files, processes or locks: ARCHITECTURE.md's non-repeatability rule. *)
(* An operation is begun once, at most one operation is open at a time, a  *)
(* mutator runs at most once, and an open operation leaves only by a       *)
(* verdict, which is final.  One that ran is never called a mere           *)
(* observation.                                                            *)
(***************************************************************************)
CONSTANTS Operations,  \* operation IDs
          Mutators     \* those that may touch the host

VARIABLE status

Verdicts == {"verified", "observed", "incomplete"}

Open(o)    == status[o] \in {"begun", "unknown"}
NothingOpen == \A o \in Operations : ~Open(o)

Init == status = [o \in Operations |-> "unused"]

Begin(o) ==
  /\ status[o] = "unused" /\ NothingOpen
  /\ status' = [status EXCEPT ![o] = "begun"]

(* From here on the outcome is unknown until somebody has read it back.    *)
Run(o) ==
  /\ o \in Mutators /\ status[o] = "begun"
  /\ status' = [status EXCEPT ![o] = "unknown"]

Settle(o, v) ==
  /\ Open(o)
  /\ status[o] = "unknown" => v # "observed"
  /\ status' = [status EXCEPT ![o] = v]

Next ==
  \E o \in Operations : Begin(o) \/ Run(o) \/ \E v \in Verdicts : Settle(o, v)

Spec == Init /\ [][Next]_status
=============================================================================
