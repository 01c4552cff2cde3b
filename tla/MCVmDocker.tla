------------------------------ MODULE MCVmDocker ------------------------------
(* One base release and three that differ from it by one kind of change:   *)
(* all images, one template, the managed route.                            *)
EXTENDS VmDocker, TLC

CONSTANTS base, images, config, managed

MCPolicy ==
  [r \in Releases |->
     [image |-> [s \in Services |->
                   IF s = Warp THEN (IF r = images THEN "warp2" ELSE "warp1")
                               ELSE (IF r = images THEN "gateway2" ELSE "gateway1")],
      tmpl |-> [g \in Gateways |->
                  IF r = config /\ g = "line1-gateway" THEN "t2" ELSE "t1"],
      route |-> r = managed]]
=============================================================================
