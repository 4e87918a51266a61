----------------------------- MODULE MemoryEval -----------------------------
(***************************************************************************)
(* `magenta memory eval` (memory/eval.py) over the edges of the customer    *)
(* memory (memory/store.py): each evaluation writes the timelines of its    *)
(* own throwaway tenant to the table that all tenants share, asks it back,   *)
(* scores the answers and deletes what it wrote.                           *)
(***************************************************************************)
EXTENDS Naturals, FiniteSets

CONSTANTS
    Evals,       \* `memory eval` processes; each one names its tenant
    EvalSize,    \* customers of an evaluation, n
    Plans,       \* _PLAN_PAIRS: a superseded plan and the current one
    MaxRecall,   \* semantic_recall's k, 5
    Open         \* VALID_TO of a current fact, NULL

ASSUME MemoryAssumption ==
    /\ IsFiniteSet(Evals) /\ EvalSize \in Nat \ {0}
    /\ \A p \in Plans : p.old # p.new
    /\ MaxRecall \in Nat /\ MaxRecall >= 2 /\ Open \notin Nat

VARIABLES
    evalAt,    \* where each evaluation is
    cid,       \* its customer
    pair,      \* the customer's plans
    edges,     \* MEMORY_EDGES, as committed
    closing,   \* the edges that its open transaction has closed
    scores     \* temporal_correct and conflict_resolved

memoryVars == <<evalAt, cid, pair, edges, closing, scores>>

-----------------------------------------------------------------------------

EvalEnds == {"returned", "raised", "leftover", "killed"}

\* VALID_FROM and VALID_TO are the old date, 1, or the new one, 2.
Edge == [tenant : Evals, customer : 1..EvalSize, object : UNION {{p.old, p.new} : p \in Plans},
         from : 1..2, to : {1, 2, Open}]

MemoryTypeOK ==
    /\ evalAt \in [Evals -> {"close1", "insert1", "close2", "insert2", "ask",
                             "cleanup", "abort"} \cup EvalEnds]
    /\ cid \in [Evals -> 1..EvalSize] /\ pair \in [Evals -> Plans]
    /\ edges \subseteq Edge /\ closing \in [Evals -> SUBSET Edge]
    /\ scores \in [Evals -> [temporal : 0..EvalSize, conflict : 0..EvalSize]]

EdgesOf(e, c) == {x \in edges : x.tenant = e /\ x.customer = c}
IsOpen(x) == x.to = Open
GoesTo(e, loc) == evalAt' = [evalAt EXCEPT ![e] = loc]

-----------------------------------------------------------------------------
(* consolidate, twice for a customer *)

\* Mutant: the UPDATE is committed by itself.
CloseCommitted(e, loc, next) ==
    /\ evalAt[e] = loc
    /\ edges' = {IF x \in EdgesOf(e, cid[e]) /\ IsOpen(x)
                 THEN [x EXCEPT !.to = 2] ELSE x : x \in edges}
    /\ GoesTo(e, next)
    /\ UNCHANGED <<cid, pair, closing, scores>>

\* The UPDATE: seen by others with the insert, when both are committed.
CloseOpen(e, loc, next) ==
    /\ evalAt[e] = loc
    /\ closing' = [closing EXCEPT ![e] = {x \in EdgesOf(e, cid[e]) : IsOpen(x)}]
    /\ GoesTo(e, next)
    /\ UNCHANGED <<cid, pair, edges, scores>>

\* add_edge: the text is embedded before the INSERT, one commit for both.
AddEdge(e, loc, date, object, next) ==
    /\ evalAt[e] = loc
    /\ edges' = (edges \ closing[e])
                  \cup {[x EXCEPT !.to = date] : x \in closing[e]}
                  \cup {[tenant |-> e, customer |-> cid[e], object |-> object,
                         from |-> date, to |-> Open]}
    /\ closing' = [closing EXCEPT ![e] = {}]
    /\ GoesTo(e, next)
    /\ UNCHANGED <<cid, pair, scores>>

-----------------------------------------------------------------------------
(* The questions *)

\* semantic_recall gives the nearest k in any order; the first of them that is
\* open must be the current plan.
Recalled(e, recall) ==
    /\ recall \subseteq EdgesOf(e, cid[e])
    /\ Cardinality(recall) = IF Cardinality(EdgesOf(e, cid[e])) < MaxRecall
                             THEN Cardinality(EdgesOf(e, cid[e])) ELSE MaxRecall

\* The timeline has one closed edge: the old plan, closed on the new date.
Resolved(e) ==
    \E x \in EdgesOf(e, cid[e]) :
        /\ {y \in EdgesOf(e, cid[e]) : ~IsOpen(y)} = {x}
        /\ x.object = pair[e].old /\ x.to = 2

Point(won) == IF won THEN 1 ELSE 0

\* Mutant: one customer too many.
NextCustomerOffByOne(e) ==
    IF cid[e] > EvalSize
    THEN GoesTo(e, "cleanup") /\ UNCHANGED <<cid, pair>>
    ELSE GoesTo(e, "close1") /\ cid' = [cid EXCEPT ![e] = @ + 1] /\ UNCHANGED pair

NextCustomer(e) ==
    IF cid[e] = EvalSize
    THEN GoesTo(e, "cleanup") /\ UNCHANGED <<cid, pair>>
    ELSE /\ GoesTo(e, "close1")
         /\ cid' = [cid EXCEPT ![e] = @ + 1]
         /\ \E p \in Plans : pair' = [pair EXCEPT ![e] = p]

Ask(e) ==
    /\ evalAt[e] = "ask"
    /\ \E recall \in SUBSET EdgesOf(e, cid[e]) : Recalled(e, recall) /\
          \E first \in {x \in recall : IsOpen(x)} \cup {Open} :
             /\ first = Open => \A x \in recall : ~IsOpen(x)
             /\ scores' = [scores EXCEPT ![e] =
                   [temporal |-> @.temporal + Point(first # Open /\ first.object = pair[e].new),
                    conflict |-> @.conflict + Point(Resolved(e))]]
    /\ NextCustomer(e)
    /\ UNCHANGED <<edges, closing>>

-----------------------------------------------------------------------------
(* The end *)

\* The embedder or the database raises somewhere in the loop.
EvalRaises(e) ==
    /\ evalAt[e] \notin {"cleanup", "abort"} \cup EvalEnds
    /\ GoesTo(e, "abort")
    /\ UNCHANGED <<cid, pair, edges, closing, scores>>

\* finally: rollback, DELETE of the tenant's rows, commit.
CleanUp(e) ==
    /\ evalAt[e] \in {"cleanup", "abort"}
    /\ closing' = [closing EXCEPT ![e] = {}]
    /\ edges' = {x \in edges : x.tenant # e}
    /\ GoesTo(e, IF evalAt[e] = "cleanup" THEN "returned" ELSE "raised")
    /\ UNCHANGED <<cid, pair, scores>>

\* The cleanup fails too, or the process dies: what was committed stays.
Leave(e) ==
    /\ \/ evalAt[e] \in {"cleanup", "abort"} /\ GoesTo(e, "leftover")
       \/ evalAt[e] \notin EvalEnds /\ GoesTo(e, "killed")
    /\ closing' = [closing EXCEPT ![e] = {}]
    /\ UNCHANGED <<cid, pair, edges, scores>>

-----------------------------------------------------------------------------

MemoryInit ==
    /\ evalAt = [e \in Evals |-> "close1"] /\ cid = [e \in Evals |-> 1]
    /\ pair \in [Evals -> Plans]
    /\ edges = {} /\ closing = [e \in Evals |-> {}]
    /\ scores = [e \in Evals |-> [temporal |-> 0, conflict |-> 0]]

MemoryNext ==
    \E e \in Evals :
        \/ CloseOpen(e, "close1", "insert1") \/ AddEdge(e, "insert1", 1, pair[e].old, "close2")
        \/ CloseOpen(e, "close2", "insert2") \/ AddEdge(e, "insert2", 2, pair[e].new, "ask")
        \/ Ask(e) \/ EvalRaises(e) \/ CleanUp(e) \/ Leave(e)

MemorySpec == MemoryInit /\ [][MemoryNext]_memoryVars

-----------------------------------------------------------------------------
(* Safety *)

\* memory/store.py:132: what is committed of a customer is a history: one fact is
\* current, and each other one ended when its successor began.
IsHistory(timeline) ==
    /\ \A x, y \in timeline : x.from = y.from => x = y
    /\ timeline # {} => \E x \in timeline :
          /\ {y \in timeline : IsOpen(y)} = {x}
          /\ \A y \in timeline \ {x} : y.to = x.from

\* memory/eval.py:51: wherever evaluations raise, are killed or overlap, the table
\* holds histories only; one that has cleaned up has left nothing, not even of a
\* half-done consolidation; and one that has returned has full marks.
MemoryKept ==
    \A e \in Evals :
        /\ \A c \in 1..EvalSize : IsHistory(EdgesOf(e, c))
        /\ evalAt[e] \in {"returned", "raised"} => \A x \in edges : x.tenant # e
        /\ evalAt[e] = "returned" =>
              scores[e] = [temporal |-> EvalSize, conflict |-> EvalSize]
=============================================================================
