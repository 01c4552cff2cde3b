--------------------------- MODULE MCWindowsOwner ---------------------------
(* Small instances of WindowsOwner: one operation of each action, the Git  *)
(* states that switch the TUN on and off, and one other release.           *)
EXTENDS WindowsOwner, TLC

CONSTANTS start, stop, apply, recover, r1, r2

MCActionOf ==
  (start :> "Start") @@ (stop :> "Stop") @@ (apply :> "Apply") @@ (recover :> "Recover")

Git(mode, run, rel) == [mode |-> mode, run |-> run, release |-> rel]

MCTargets ==
  {Git("ManagedTun", "Running", r1), Git("ProxyOnly", "Stopped", r1),
   Git("ProxyOnly", "Running", r2)}
=============================================================================
