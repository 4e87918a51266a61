---------------------------- MODULE MCNegotiation ----------------------------
(* Values of Negotiation's constants for TLC: a ladder of up to three      *)
(* rungs, the dearest beyond the authority cap; with one cause diagnosed    *)
(* the ladder is one of its parts, with none it is empty.                  *)
EXTENDS Negotiation, TLC

CONSTANTS boost, credit, upgrade

MCCost == (boost :> 5) @@ (credit :> 8) @@ (upgrade :> 20)
MCRank == (credit :> 1) @@ (boost :> 2) @@ (upgrade :> 3)
MCFits == (boost :> {"OVERAGE"}) @@ (credit :> {"OVERAGE"})
          @@ (upgrade :> {"OVERAGE", "EXPIRY"})
=============================================================================
