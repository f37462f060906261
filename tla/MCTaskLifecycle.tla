--------------------------- MODULE MCTaskLifecycle ---------------------------
(* TaskLifecycle for TLC.  Pipeline slots are interchangeable, and so are    *)
(* webhook requests: no definition tells one from another.  Symmetry is used *)
(* only where no liveness property is checked.                               *)
EXTENDS TaskLifecycle, TLC

Symmetry == Permutations(Pipes) \cup Permutations(Webhooks)
=============================================================================
