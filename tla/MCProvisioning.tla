---------------------------- MODULE MCProvisioning ----------------------------
(* Requests, organisations and workers are interchangeable; not used for    *)
(* liveness.                                                                *)
EXTENDS Provisioning, TLC

ProvisioningSymmetry ==
    Permutations(Requests) \cup Permutations(Orgs) \cup Permutations(Workers)
=============================================================================
