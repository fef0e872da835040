----------------------------- MODULE MCLockOrder -----------------------------
(* LockOrder with a few clients on the handlers named by the configuration. *)
EXTENDS LockOrder, TLC

Symmetry == Permutations(Clients)
=============================================================================
