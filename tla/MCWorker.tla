------------------------------ MODULE MCWorker ------------------------------
(* Two readers, a generation, and administrators that upload and delete      *)
(* specs: one spec loaded at boot, two that can be uploaded, room for one.   *)
EXTENDS Worker, TLC

CONSTANTS r1, r2, g1, a1, a2, d1, boot, up, up2

AllOps == (r1 :> "read") @@ (r2 :> "read") @@ (g1 :> "generate")
            @@ (a1 :> "register") @@ (a2 :> "register") @@ (d1 :> "unregister")
AllTargets == (r1 :> up) @@ (r2 :> boot) @@ (g1 :> up)
                @@ (a1 :> up) @@ (a2 :> up2) @@ (d1 :> up)
MCOp == [c \in Callers |-> AllOps[c]]
MCTarget == [c \in Callers |-> AllTargets[c]]
MCSpecs == {boot, up, up2}
=============================================================================
