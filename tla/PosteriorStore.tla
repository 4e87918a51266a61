---------------------------- MODULE PosteriorStore ----------------------------
(***************************************************************************)
(* What the table of a bandit's posterior promises to the commands that    *)
(* share it: a command loads the whole posterior at one moment, a save      *)
(* replaces the whole of it at one moment with what its command holds, and  *)
(* nothing else ever touches it; a command that gives up leaves no trace.   *)
(*                                                                         *)
(* BanditStore, whose saves go row by row, implements this specification:   *)
(* see Store there.                                                        *)
(***************************************************************************)
CONSTANTS Commands, Savers, Untrained

VARIABLES
    table,  \* the posterior, as anybody who loads finds it
    held,   \* what each command holds
    doing   \* what each command does: "waiting", "working" or "over"

storeVars == <<table, held, doing>>

Init ==
    /\ table = Untrained
    /\ held = [c \in Commands |-> Untrained]
    /\ doing = [c \in Commands |-> "waiting"]

Load(c) ==
    /\ doing[c] = "waiting"
    /\ held' = [held EXCEPT ![c] = table]
    /\ doing' = [doing EXCEPT ![c] = IF c \in Savers THEN "working" ELSE "over"]
    /\ UNCHANGED table

\* How a command learns is its own affair, what the others hold is not.
Train(c) ==
    /\ doing[c] = "working"
    /\ \A d \in Commands \ {c} : held'[d] = held[d]
    /\ UNCHANGED <<table, doing>>

Save(c) ==
    /\ doing[c] = "working"
    /\ table' = held[c]
    /\ doing' = [doing EXCEPT ![c] = "over"]
    /\ UNCHANGED held

GiveUp(c) ==
    /\ doing[c] # "over"
    /\ doing' = [doing EXCEPT ![c] = "over"]
    /\ UNCHANGED <<table, held>>

Next == \E c \in Commands : Load(c) \/ Train(c) \/ Save(c) \/ GiveUp(c)

Spec == Init /\ [][Next]_storeVars
=============================================================================
