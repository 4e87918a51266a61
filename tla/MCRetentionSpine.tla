-------------------------- MODULE MCRetentionSpine --------------------------
(* Values of RetentionSpine's constants for TLC: a customer and a catalog  *)
(* with a cheap arm, an arm above the value cap and, for the last          *)
(* customer, an arm that leaves too little margin.                         *)
EXTENDS RetentionSpine, TLC

CONSTANTS r1, r2, r3, ada, ben, credit, boost, api, agent

MCCost == (credit :> 8) @@ (boost :> 45)
MCFloor == (credit :> 12) @@ (boost :> 10)
MCMargin == [c \in Customers |-> IF c = ada THEN 60 ELSE 40]
MCAnswers == {{}, Arms}
MCSuits == Customers \X Arms

-----------------------------------------------------------------------------
(* The gates are explored with two runs of either customer through any     *)
(* entry point of the graph, the overlap with three runs of one customer,  *)
(* the chat's among them, as time goes on.  The runs are alike, so they    *)
(* begin in one order; and only the ages of contacts matter, so the clock  *)
(* waits for the first.                                                    *)

Begun == {r \in Runs : request[r] # None}

Gates ==
    /\ now = 0 /\ r3 \notin Begun
    /\ \A r \in Begun : request[r].entry # "chat"
Overlap == \A r \in Begun : request[r].customer = ada /\ request[r].entry \in {"api", "chat"}

Bounds ==
    /\ r2 \in Begun => r1 \in Begun
    /\ r3 \in Begun => r2 \in Begun
    /\ now > 0 => contacts # {}
    /\ Gates \/ Overlap

\* No step of a run leaves the bounds, so the fairness is intact.
BoundedSpec ==
    /\ Init /\ [][Next /\ Bounds']_vars
    /\ \A r \in Runs : WF_vars(Step(r))
=============================================================================
