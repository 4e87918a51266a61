----------------------------- MODULE MCDepsCache -----------------------------
(* Requests and tenants are interchangeable; not used for liveness.        *)
EXTENDS DepsCache, TLC

DepsSymmetry == Permutations(Requests) \cup Permutations(Tenants)
=============================================================================
