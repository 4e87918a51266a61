------------------------------ MODULE Lab_proofs ------------------------------
(***************************************************************************)
(* Proofs about the commands of the laboratory, which share nothing:       *)
(* MemoryEval for every number of evaluations and customers, GoldenReport  *)
(* for every catalog and every number of reports and runs, CostReport for  *)
(* every cohort, similarity and way the LLM answers, BanditStore for every *)
(* set of commands and list of arms; and all of them side by side, with    *)
(* Experiment, whose proofs are in Experiment_proofs.                      *)
(***************************************************************************)
EXTENDS MCLab, Experiment_proofs, TLAPS, FiniteSetTheorems, SequenceTheorems,
        WellFoundedInduction, NaturalsInduction

-----------------------------------------------------------------------------
(* MemoryEval.  What an evaluation has committed of its customer follows     *)
(* from where it is: nothing, the first fact, or both; of the customers to   *)
(* come, nothing; and its scores are the customers it is done with.          *)

Writing == {"close1", "insert1", "close2", "insert2", "ask"}

Fact(e, object, from, to) ==
    [tenant |-> e, customer |-> cid[e], object |-> object, from |-> from, to |-> to]
OldFact(e) == Fact(e, pair[e].old, 1, Open)
Superseded(e) == Fact(e, pair[e].old, 1, 2)
NewFact(e) == Fact(e, pair[e].new, 2, Open)
Timeline(e) == EdgesOf(e, cid[e])
Marks(n) == [temporal |-> n, conflict |-> n]

EvalInv(e) ==
    /\ evalAt[e] \in {"close1", "insert1"} => Timeline(e) = {}
    /\ evalAt[e] \in {"close2", "insert2"} => Timeline(e) = {OldFact(e)}
    /\ evalAt[e] = "ask" => Timeline(e) = {Superseded(e), NewFact(e)}
    /\ evalAt[e] \in Writing =>
          /\ \A c \in 1..EvalSize : c > cid[e] => EdgesOf(e, c) = {}
          /\ scores[e] = Marks(cid[e] - 1)
    /\ \A x \in closing[e] : x.tenant = e
    /\ evalAt[e] = "insert1" => closing[e] = {}
    /\ evalAt[e] = "insert2" => closing[e] = {OldFact(e)}
    /\ evalAt[e] \in {"cleanup", "returned"} => scores[e] = Marks(EvalSize)
    /\ evalAt[e] \in {"returned", "raised"} => \A x \in edges : x.tenant # e
    /\ \A c \in 1..EvalSize : IsHistory(EdgesOf(e, c))

MemoryInv == MemoryTypeOK /\ \A e \in Evals : EvalInv(e)

EvalStep(e) ==
    \/ CloseOpen(e, "close1", "insert1") \/ AddEdge(e, "insert1", 1, pair[e].old, "close2")
    \/ CloseOpen(e, "close2", "insert2") \/ AddEdge(e, "insert2", 2, pair[e].new, "ask")
    \/ Ask(e) \/ EvalRaises(e) \/ CleanUp(e) \/ Leave(e)

\* The three timelines there can be are histories.
LEMMA Histories ==
    ASSUME NEW e \in Evals
    PROVE  /\ IsHistory({}) /\ IsHistory({OldFact(e)})
           /\ IsHistory({Superseded(e), NewFact(e)})
<1>1. Open # 2
  BY MemoryAssumption
<1>2. IsHistory({})
  BY DEF IsHistory
<1>3. IsHistory({OldFact(e)})
  BY DEF IsHistory, OldFact, Fact, IsOpen
<1>4. IsHistory({Superseded(e), NewFact(e)})
  <2>1. {y \in {Superseded(e), NewFact(e)} : IsOpen(y)} = {NewFact(e)}
    BY <1>1 DEF Superseded, NewFact, Fact, IsOpen
  <2>2. Superseded(e).from = 1 /\ NewFact(e).from = 2 /\ Superseded(e).to = 2
    BY DEF Superseded, NewFact, Fact
  <2> QED BY <2>1, <2>2 DEF IsHistory
<1> QED BY <1>2, <1>3, <1>4

\* A step of one evaluation is nothing to another one.
LEMMA OtherEvals ==
    ASSUME MemoryInv, NEW e \in Evals, EvalStep(e), NEW f \in Evals, f # e
    PROVE  EvalInv(f)'
<1> USE DEF MemoryInv, MemoryTypeOK
<1>1. /\ evalAt'[f] = evalAt[f] /\ cid'[f] = cid[f] /\ pair'[f] = pair[f]
      /\ closing'[f] = closing[f] /\ scores'[f] = scores[f]
  BY DEF EvalStep, CloseOpen, AddEdge, Ask, NextCustomer, EvalRaises, CleanUp, Leave, GoesTo
<1>2. ASSUME NEW c PROVE EdgesOf(f, c)' = EdgesOf(f, c)
  <2>1. CASE UNCHANGED edges
    BY <2>1 DEF EdgesOf
  <2>2. ASSUME NEW loc, NEW date, NEW object, NEW next, AddEdge(e, loc, date, object, next)
        PROVE  EdgesOf(f, c)' = EdgesOf(f, c)
    <3>1. \A x \in closing[e] : x.tenant = e /\ x \in Edge
      BY DEF EvalInv
    <3>2. \A x \in closing[e] : [x EXCEPT !.to = date].tenant = e
      BY <3>1 DEF Edge
    <3> DEFINE new == [tenant |-> e, customer |-> cid[e], object |-> object,
                       from |-> date, to |-> Open]
               closed == {[x EXCEPT !.to = date] : x \in closing[e]}
    <3>3. edges' = (edges \ closing[e]) \cup closed \cup {new}
      BY <2>2 DEF AddEdge
    <3>4. new.tenant = e /\ \A y \in closed : y.tenant = e
      BY <3>2
    <3> HIDE DEF new, closed
    <3>5. \A y : y.tenant = f => (y \in edges' <=> y \in edges)
      BY <3>1, <3>3, <3>4
    <3> QED BY <3>5 DEF EdgesOf
  <2>3. CASE CleanUp(e)
    BY <2>3 DEF CleanUp, EdgesOf
  <2> QED BY <2>1, <2>2, <2>3 DEF EvalStep, CloseOpen, Ask, EvalRaises, Leave
<1>3. (\A x \in edges : x.tenant # f) => \A x \in edges' : x.tenant # f
  <2> SUFFICES ASSUME \A x \in edges : x.tenant # f, NEW x \in edges', x.tenant = f
               PROVE  FALSE
    OBVIOUS
  <2>1. x \in EdgesOf(f, x.customer)'
    BY DEF EdgesOf
  <2> QED BY <1>2, <2>1 DEF EdgesOf
<1> QED BY <1>1, <1>2, <1>3
        DEF EvalInv, Timeline, OldFact, Superseded, NewFact, Fact, Marks

LEMMA CloseKeeps ==
    ASSUME MemoryInv, NEW e \in Evals,
           \/ CloseOpen(e, "close1", "insert1") \/ CloseOpen(e, "close2", "insert2")
    PROVE  MemoryTypeOK' /\ EvalInv(e)'
<1> USE DEF MemoryInv, MemoryTypeOK
<1>1. /\ UNCHANGED <<cid, pair, edges, scores>>
      /\ closing' = [closing EXCEPT ![e] = {x \in Timeline(e) : IsOpen(x)}]
      /\ \/ evalAt[e] = "close1" /\ evalAt' = [evalAt EXCEPT ![e] = "insert1"]
         \/ evalAt[e] = "close2" /\ evalAt' = [evalAt EXCEPT ![e] = "insert2"]
  BY DEF CloseOpen, GoesTo, Timeline
<1>2. {x \in Timeline(e) : IsOpen(x)} \subseteq Edge
      /\ \A x \in Timeline(e) : x.tenant = e
  BY DEF Timeline, EdgesOf
<1>3. MemoryTypeOK'
  BY <1>1, <1>2 DEF EvalEnds
<1>4. UNCHANGED <<Timeline(e), OldFact(e)>> /\ \A c : EdgesOf(e, c)' = EdgesOf(e, c)
  BY <1>1 DEF Timeline, EdgesOf, OldFact, Fact
<1>5. IsOpen(OldFact(e))
  BY DEF IsOpen, OldFact, Fact
<1>6. closing'[e] = {x \in Timeline(e) : IsOpen(x)}
  BY <1>1
<1> QED BY <1>1, <1>2, <1>3, <1>4, <1>5, <1>6 DEF EvalInv, Writing, Marks, EvalEnds

\* Both consolidations leave the customer's timeline as expected, and no other's
\* changed.
LEMMA AddKeeps ==
    ASSUME MemoryInv, NEW e \in Evals,
           \/ AddEdge(e, "insert1", 1, pair[e].old, "close2")
           \/ AddEdge(e, "insert2", 2, pair[e].new, "ask")
    PROVE  MemoryTypeOK' /\ EvalInv(e)'
<1> USE DEF MemoryInv, MemoryTypeOK
<1>1. UNCHANGED <<cid, pair, scores, OldFact(e), NewFact(e), Superseded(e)>>
  BY DEF AddEdge, OldFact, NewFact, Superseded, Fact
<1>2. /\ {OldFact(e), NewFact(e), Superseded(e)} \subseteq Edge
      /\ \A x \in {OldFact(e), NewFact(e), Superseded(e)} : x.tenant = e /\ x.customer = cid[e]
      /\ [OldFact(e) EXCEPT !.to = 2] = Superseded(e)
  <2>1. cid[e] \in 1..EvalSize /\ pair[e] \in Plans
    OBVIOUS
  <2>2. {pair[e].old, pair[e].new} \subseteq UNION {{p.old, p.new} : p \in Plans}
    BY <2>1
  <2> QED BY <2>1, <2>2 DEF OldFact, NewFact, Superseded, Fact, Edge
<1>3. CASE AddEdge(e, "insert1", 1, pair[e].old, "close2")
  <2>1. /\ evalAt[e] = "insert1" /\ evalAt' = [evalAt EXCEPT ![e] = "close2"]
        /\ closing[e] = {} /\ closing' = [closing EXCEPT ![e] = {}]
        /\ edges' = edges \cup {OldFact(e)}
    BY <1>3 DEF AddEdge, GoesTo, EvalInv, OldFact, Fact
  <2>2. MemoryTypeOK'
    BY <1>1, <1>2, <2>1
  <2>3. Timeline(e)' = {OldFact(e)}
    <3>1. Timeline(e) = {}
      BY <2>1 DEF EvalInv
    <3> QED BY <1>1, <1>2, <2>1, <3>1 DEF Timeline, EdgesOf
  <2>4. \A c \in 1..EvalSize : c # cid[e] => EdgesOf(e, c)' = EdgesOf(e, c)
    BY <1>2, <2>1 DEF EdgesOf
  <2>5. \A c \in 1..EvalSize : c > cid[e] => c # cid[e]
    OBVIOUS
  <2>6. \A c \in 1..EvalSize : IsHistory(EdgesOf(e, c))'
    <3> TAKE c \in 1..EvalSize
    <3>1. CASE c = cid[e]
      BY <1>1, <2>3, <3>1, Histories DEF Timeline, IsHistory
    <3>2. CASE c # cid[e]
      <4>1. EdgesOf(e, c)' = EdgesOf(e, c) /\ IsHistory(EdgesOf(e, c))
        BY <2>4, <3>2 DEF EvalInv
      <4> QED BY <4>1 DEF IsHistory, IsOpen
    <3> QED BY <3>1, <3>2
  <2> QED BY <1>1, <2>1, <2>2, <2>3, <2>4, <2>5, <2>6 DEF EvalInv, Writing, Marks
<1>4. CASE AddEdge(e, "insert2", 2, pair[e].new, "ask")
  <2>1. /\ evalAt[e] = "insert2" /\ evalAt' = [evalAt EXCEPT ![e] = "ask"]
        /\ closing[e] = {OldFact(e)} /\ closing' = [closing EXCEPT ![e] = {}]
        /\ edges' = (edges \ {OldFact(e)}) \cup {Superseded(e)} \cup {NewFact(e)}
    <3>1. evalAt[e] = "insert2" /\ closing[e] = {OldFact(e)}
      BY <1>4 DEF AddEdge, EvalInv
    <3>2. {[x EXCEPT !.to = 2] : x \in closing[e]} = {Superseded(e)}
      BY <1>2, <3>1
    <3> QED BY <1>4, <3>1, <3>2 DEF AddEdge, GoesTo, NewFact, Fact
  <2>2. MemoryTypeOK'
    BY <1>1, <1>2, <2>1
  <2>3. Timeline(e)' = {Superseded(e), NewFact(e)}
    <3>1. Timeline(e) = {OldFact(e)}
      BY <2>1 DEF EvalInv
    <3> QED BY <1>1, <1>2, <2>1, <3>1 DEF Timeline, EdgesOf
  <2>4. \A c \in 1..EvalSize : c # cid[e] => EdgesOf(e, c)' = EdgesOf(e, c)
    BY <1>2, <2>1 DEF EdgesOf
  <2>5. \A c \in 1..EvalSize : c > cid[e] => c # cid[e]
    OBVIOUS
  <2>6. \A c \in 1..EvalSize : IsHistory(EdgesOf(e, c))'
    <3> TAKE c \in 1..EvalSize
    <3>1. CASE c = cid[e]
      BY <1>1, <2>3, <3>1, Histories DEF Timeline, IsHistory
    <3>2. CASE c # cid[e]
      <4>1. EdgesOf(e, c)' = EdgesOf(e, c) /\ IsHistory(EdgesOf(e, c))
        BY <2>4, <3>2 DEF EvalInv
      <4> QED BY <4>1 DEF IsHistory, IsOpen
    <3> QED BY <3>1, <3>2
  <2> QED BY <1>1, <2>1, <2>2, <2>3, <2>4, <2>5, <2>6 DEF EvalInv, Writing, Marks
<1> QED BY <1>3, <1>4

LEMMA NextNumber ==
    ASSUME NEW n \in Nat, NEW k \in 1..n
    PROVE  k # n => k + 1 \in 1..n /\ k + 1 > k
OBVIOUS

\* Whatever the recall returns, the timeline holds two facts, MaxRecall is no
\* less, and the one that is open is the current plan: both points are won.
LEMMA FullMarks ==
    ASSUME MemoryInv, NEW e \in Evals, evalAt[e] = "ask",
           NEW recall \in SUBSET Timeline(e), Recalled(e, recall)
    PROVE  /\ \E x \in recall : IsOpen(x)
           /\ \A first \in {x \in recall : IsOpen(x)} :
                 first # Open => first.object = pair[e].new
           /\ Resolved(e)
<1> USE DEF MemoryInv, MemoryTypeOK
<1>1. Timeline(e) = {Superseded(e), NewFact(e)}
  BY DEF EvalInv
<1>2. /\ Superseded(e) # NewFact(e)
      /\ ~IsOpen(Superseded(e)) /\ IsOpen(NewFact(e))
      /\ Superseded(e).object = pair[e].old /\ Superseded(e).to = 2
      /\ NewFact(e).object = pair[e].new
  BY MemoryAssumption DEF Superseded, NewFact, Fact, IsOpen
<1>3. IsFiniteSet(Timeline(e)) /\ Cardinality(Timeline(e)) = 2
  <2>1. IsFiniteSet({Superseded(e)}) /\ Cardinality({Superseded(e)}) = 1
    BY FS_Singleton
  <2>2. Timeline(e) = {Superseded(e)} \cup {NewFact(e)}
    BY <1>1
  <2>3. NewFact(e) \notin {Superseded(e)}
    BY <1>2
  <2>4. /\ IsFiniteSet({Superseded(e)} \cup {NewFact(e)})
        /\ Cardinality({Superseded(e)} \cup {NewFact(e)}) = Cardinality({Superseded(e)}) + 1
    BY ONLY <2>1, <2>3, FS_AddElement
  <2> QED BY <2>1, <2>2, <2>4
<1>4. recall = Timeline(e)
  <2>1. Cardinality(recall) = 2
    BY <1>3, MemoryAssumption DEF Recalled, Timeline
  <2> QED BY <1>3, <2>1, FS_Subset
<1>5. Resolved(e)
  BY <1>1, <1>2 DEF Resolved, Timeline
<1> QED BY <1>1, <1>2, <1>4, <1>5

LEMMA AskKeeps ==
    ASSUME MemoryInv, NEW e \in Evals, Ask(e)
    PROVE  MemoryTypeOK' /\ EvalInv(e)'
<1> USE DEF MemoryInv, MemoryTypeOK
<1>1. /\ evalAt[e] = "ask" /\ UNCHANGED <<edges, closing>> /\ NextCustomer(e)
      /\ scores[e] = Marks(cid[e] - 1) /\ cid[e] \in 1..EvalSize
  BY DEF Ask, EvalInv, Writing
<1>2. scores' = [scores EXCEPT ![e] = Marks(cid[e])]
  <2>1. PICK recall \in SUBSET Timeline(e) :
           /\ Recalled(e, recall)
           /\ \E first \in {x \in recall : IsOpen(x)} \cup {Open} :
                /\ first = Open => \A x \in recall : ~IsOpen(x)
                /\ scores' = [scores EXCEPT ![e] =
                      [temporal |-> @.temporal + Point(first # Open /\ first.object = pair[e].new),
                       conflict |-> @.conflict + Point(Resolved(e))]]
    BY DEF Ask, Timeline
  <2>2. PICK first \in {x \in recall : IsOpen(x)} \cup {Open} :
           /\ first = Open => \A x \in recall : ~IsOpen(x)
           /\ scores' = [scores EXCEPT ![e] =
                 [temporal |-> @.temporal + Point(first # Open /\ first.object = pair[e].new),
                  conflict |-> @.conflict + Point(Resolved(e))]]
    BY <2>1
  <2>3. first # Open /\ first.object = pair[e].new /\ Resolved(e)
    BY <1>1, <2>1, <2>2, FullMarks
  <2>4. Point(first # Open /\ first.object = pair[e].new) = 1 /\ Point(Resolved(e)) = 1
    BY <2>3 DEF Point
  <2>5. scores[e].temporal = cid[e] - 1 /\ scores[e].conflict = cid[e] - 1
    BY <1>1 DEF Marks
  <2>6. scores[e].temporal + 1 = cid[e] /\ scores[e].conflict + 1 = cid[e]
    BY <1>1, <2>5
  <2> QED BY <2>2, <2>4, <2>6 DEF Marks
<1>3. MemoryTypeOK'
  <2>1. Marks(cid[e]) \in [temporal : 0..EvalSize, conflict : 0..EvalSize]
    BY <1>1 DEF Marks
  <2>2. cid' \in [Evals -> 1..EvalSize] /\ pair' \in [Evals -> Plans]
    <3>1. EvalSize \in Nat
      BY MemoryAssumption
    <3>2. cid[e] # EvalSize => cid[e] + 1 \in 1..EvalSize
      BY <1>1, <3>1, NextNumber
    <3> QED BY <1>1, <3>2 DEF NextCustomer
  <2>3. evalAt' \in [Evals -> Writing \cup {"cleanup", "abort"} \cup EvalEnds]
    BY <1>1 DEF NextCustomer, GoesTo, Writing
  <2> QED BY <1>1, <1>2, <2>1, <2>2, <2>3 DEF Writing
<1>4. /\ \A c : EdgesOf(e, c)' = EdgesOf(e, c)
      /\ \A c \in 1..EvalSize : c > cid[e] => EdgesOf(e, c) = {}
      /\ \A c \in 1..EvalSize : IsHistory(EdgesOf(e, c))
  BY <1>1 DEF EdgesOf, EvalInv, Writing
<1>5. \A c \in 1..EvalSize : IsHistory(EdgesOf(e, c))'
  BY <1>4 DEF IsHistory, IsOpen
<1>6. \A x \in closing'[e] : x.tenant = e
  BY <1>1 DEF EvalInv
<1>7. CASE cid[e] = EvalSize
  <2>1. evalAt'[e] = "cleanup" /\ scores'[e] = Marks(EvalSize)
    BY <1>1, <1>2, <1>7 DEF NextCustomer, GoesTo
  <2> QED BY <1>3, <1>5, <1>6, <2>1 DEF EvalInv, Writing, Marks
<1>8. CASE cid[e] # EvalSize
  <2>1. /\ evalAt'[e] = "close1" /\ cid'[e] = cid[e] + 1
        /\ scores'[e] = Marks(cid'[e] - 1)
    BY <1>1, <1>2, <1>8 DEF NextCustomer, GoesTo
  <2>2. cid[e] + 1 \in 1..EvalSize /\ cid[e] + 1 > cid[e]
    <3>1. EvalSize \in Nat
      BY MemoryAssumption
    <3> QED BY <1>1, <1>8, <3>1, NextNumber
  <2>3. Timeline(e)' = {}
    BY <1>4, <2>1, <2>2 DEF Timeline
  <2>4. \A c \in 1..EvalSize : c > cid'[e] => EdgesOf(e, c)' = {}
    BY <1>1, <1>4, <2>1
  <2> QED BY <1>3, <1>5, <1>6, <2>1, <2>3, <2>4 DEF EvalInv, Writing, Marks
<1> QED BY <1>7, <1>8

LEMMA EndKeeps ==
    ASSUME MemoryInv, NEW e \in Evals, EvalRaises(e) \/ CleanUp(e) \/ Leave(e)
    PROVE  MemoryTypeOK' /\ EvalInv(e)'
<1> USE DEF MemoryInv, MemoryTypeOK, GoesTo, EvalEnds
<1>1. UNCHANGED <<cid, pair, scores>>
  BY DEF EvalRaises, CleanUp, Leave
<1>2. CASE CleanUp(e)
  <2>1. /\ evalAt'[e] \in {"returned", "raised"}
        /\ evalAt'[e] = "returned" => scores[e] = Marks(EvalSize)
        /\ edges' = {x \in edges : x.tenant # e} /\ closing'[e] = {}
    BY <1>2 DEF CleanUp, EvalInv
  <2>2. MemoryTypeOK'
    BY <1>2 DEF CleanUp
  <2>3. \A c : EdgesOf(e, c)' = {}
    BY <2>1 DEF EdgesOf
  <2>4. \A c \in 1..EvalSize : IsHistory(EdgesOf(e, c))'
    BY <2>3, Histories DEF IsHistory
  <2> QED BY <1>1, <2>1, <2>2, <2>4 DEF EvalInv, Writing, Marks
<1>3. CASE EvalRaises(e) \/ Leave(e)
  <2>1. /\ evalAt'[e] \in {"abort", "leftover", "killed"} /\ UNCHANGED edges
        /\ closing'[e] = {} \/ UNCHANGED closing
    BY <1>3 DEF EvalRaises, Leave
  <2>2. MemoryTypeOK'
    BY <1>3 DEF EvalRaises, Leave
  <2>3. \A c : EdgesOf(e, c)' = EdgesOf(e, c)
    BY <2>1 DEF EdgesOf
  <2>4. \A c \in 1..EvalSize : IsHistory(EdgesOf(e, c))'
    <3>1. \A c \in 1..EvalSize : IsHistory(EdgesOf(e, c))
      BY DEF EvalInv
    <3> TAKE c \in 1..EvalSize
    <3>2. EdgesOf(e, c)' = EdgesOf(e, c) /\ IsHistory(EdgesOf(e, c))
      BY <2>3, <3>1
    <3> QED BY <3>2 DEF IsHistory, IsOpen
  <2> QED BY <1>1, <2>1, <2>2, <2>4 DEF EvalInv, Writing, Marks
<1> QED BY <1>2, <1>3

LEMMA MemoryInvInit == MemoryInit => MemoryInv
<1> SUFFICES ASSUME MemoryInit PROVE MemoryInv
  OBVIOUS
<1>1. MemoryTypeOK
  BY MemoryAssumption DEF MemoryInit, MemoryTypeOK
<1>2. ASSUME NEW e \in Evals PROVE EvalInv(e)
  <2>1. \A c : EdgesOf(e, c) = {}
    BY DEF MemoryInit, EdgesOf
  <2>2. \A c \in 1..EvalSize : IsHistory(EdgesOf(e, c))
    BY <2>1, Histories
  <2>3. /\ evalAt[e] = "close1" /\ cid[e] = 1 /\ closing[e] = {}
        /\ scores[e] = Marks(cid[e] - 1)
    BY DEF MemoryInit, Marks
  <2> QED BY <2>1, <2>2, <2>3 DEF EvalInv, Timeline
<1> QED BY <1>1, <1>2 DEF MemoryInv

LEMMA MemoryInvNext == MemoryInv /\ [MemoryNext]_memoryVars => MemoryInv'
<1> SUFFICES ASSUME MemoryInv, [MemoryNext]_memoryVars PROVE MemoryInv'
  OBVIOUS
<1>1. ASSUME NEW e \in Evals, EvalStep(e) PROVE MemoryInv'
  <2>1. MemoryTypeOK' /\ EvalInv(e)'
    BY <1>1, CloseKeeps, AddKeeps, AskKeeps, EndKeeps DEF EvalStep
  <2>2. \A f \in Evals : f # e => EvalInv(f)'
    BY <1>1, OtherEvals
  <2> QED BY <2>1, <2>2 DEF MemoryInv
<1>2. CASE UNCHANGED memoryVars
  <2> USE <1>2 DEF memoryVars, MemoryInv
  <2>1. MemoryTypeOK'
    BY DEF MemoryTypeOK
  <2>2. ASSUME NEW e \in Evals PROVE EvalInv(e)'
    BY DEF EvalInv, Timeline, EdgesOf, OldFact, NewFact, Superseded, Fact, Marks, IsHistory, IsOpen
  <2> QED BY <2>1, <2>2
<1> QED BY <1>1, <1>2 DEF MemoryNext, EvalStep

LEMMA MemoryInvImplies == MemoryInv => MemoryKept
BY DEF MemoryInv, EvalInv, MemoryKept, Marks

\* memory/eval.py:51: no score leaves its range, however an evaluation ends.
THEOREM MemoryTypeCorrect == MemorySpec => []MemoryTypeOK
<1>1. MemoryInv => MemoryTypeOK
  BY DEF MemoryInv
<1> QED BY <1>1, MemoryInvInit, MemoryInvNext, PTL DEF MemorySpec

\* memory/store.py:132, memory/eval.py:51: any number of evaluations, raising,
\* killed or side by side, leave histories only; one that has cleaned up has left
\* nothing, and one that has returned has full marks.
THEOREM MemoryKeptAlways == MemorySpec => []MemoryKept
<1> QED BY MemoryInvInit, MemoryInvNext, MemoryInvImplies, PTL DEF MemorySpec

-----------------------------------------------------------------------------
(* GoldenReport.  What a scan has read stays true while runs go on: a row    *)
(* stays, and so does the status of a run whose audit rows are there.        *)

TenantInv ==
    /\ \A r \in auditRows : runPc[r] = "done"
    /\ \A r \in fulfilledRows : runPc[r] # "idle"

ScanInv(e) ==
    /\ evalPc[e] = "golden" => holdoutViol[e] = {}
    /\ evalPc[e] = "shadow" =>
          /\ before[e] \subseteq idsRead[e] /\ before[e] \subseteq Shadowed
          /\ idsRead[e] \subseteq CustomersOf(fulfilledRows)
    /\ evalPc[e] \in {"acts", "approved", "exit0", "exit1"} =>
          before[e] \subseteq holdoutViol[e] /\ holdoutViol[e] \subseteq BothNow
    /\ evalPc[e] = "approved" => idsRead[e] \subseteq ApprovedIds
    /\ Reported(e) => guardrailViol[e] = {}

\* The tenant of a scenario that has not been run has had no contact, so each
\* result is that of a first run.
FirstRunInv(e) ==
    /\ \A i \in DOMAIN GoldenScenarios :
          i > Len(results[e]) => scenarioContacts[TenantOf(e, i)] = 0
    /\ Len(results[e]) <= Len(GoldenScenarios)
    /\ \A i \in DOMAIN results[e] : results[e][i] = RunScenario(GoldenScenarios[i], 0)

GoldenInv ==
    /\ GoldenTypeOK /\ TenantInv
    /\ \A e \in Evaluators : ScanInv(e) /\ FirstRunInv(e)

LEMMA Scenarios == Len(GoldenScenarios) = 11 /\ DOMAIN GoldenScenarios = 1..11
BY DEF GoldenScenarios

LEMMA ArmIndex == DOMAIN Arm = 1..8 /\ Arms = {Arm[i] : i \in 1..8}
<1>1. DOMAIN Arm = 1..8
  BY DEF Arm
<1> QED BY <1>1 DEF Arms

\* FirstEligible's CHOOSE finds an arm.
LEMMA ResultType ==
    ASSUME NEW scenario, NEW n
    PROVE  RunScenario(scenario, n) \in Result
<1> DEFINE c == scenario.customer
           menu == CatalogEligible(c) \cap DiagnoseStub(c)
<1>1. FirstEligible(c) \in Arms
  <2>1. CASE menu = {}
    <3>1. "NO_ACTION" = Arm[1]
      BY DEF Arm
    <3> QED BY <2>1, <3>1, ArmIndex DEF FirstEligible
  <2>2. CASE menu # {}
    <3>1. menu \subseteq Arms
      <4>1. "NO_ACTION" = Arm[1]
        BY DEF Arm
      <4> QED BY <4>1, ArmIndex DEF CatalogEligible
    <3> DEFINE I == {i \in 1..8 : Arm[i] \in menu}
    <3> HIDE DEF menu
    <3>2. I # {} /\ I \in SUBSET Nat
      BY <2>2, <3>1, ArmIndex
    <3>3. PICK i \in I : \A k \in I : i <= k
      BY <3>2, Smallest
    <3>4. Arm[i] \in menu /\ \A j \in 1..(i - 1) : Arm[j] \notin menu
      BY <3>3
    <3>5. \E k \in DOMAIN Arm : Arm[k] \in menu /\ \A j \in 1..(k - 1) : Arm[j] \notin menu
      BY <3>4, ArmIndex
    <3> QED BY <2>2, <3>5, ArmIndex DEF FirstEligible, menu
  <2> QED BY <2>1, <2>2
<1>2. Engages(scenario.segment) \in BOOLEAN
  BY DEF Engages
<1> HIDE DEF c
<1> QED BY <1>1, <1>2 DEF RunScenario, Result, c

\* Runs only add to what the scans read.
LEMMA RunsOnlyAdd ==
    ASSUME GoldenInv, NEW r \in TenantRuns, Act(r) \/ Persist(r) \/ EndUnaudited(r)
    PROVE  /\ TenantInv'
           /\ Shadowed \subseteq Shadowed' /\ BothNow \subseteq BothNow'
           /\ ApprovedIds \subseteq ApprovedIds'
           /\ CustomersOf(fulfilledRows) \subseteq CustomersOf(fulfilledRows)'
<1> USE DEF GoldenInv, GoldenTypeOK, TenantInv
<1>1. /\ fulfilledRows \subseteq fulfilledRows' /\ auditRows \subseteq auditRows'
      /\ \A q \in auditRows : statusOf'[q] = statusOf[q]
  BY DEF Act, Persist, EndUnaudited
<1>2. TenantInv'
  BY DEF Act, Persist, EndUnaudited
<1>3. Shadowed \subseteq Shadowed'
  BY <1>1 DEF Shadowed, CustomersOf
<1>4. CustomersOf(fulfilledRows) \subseteq CustomersOf(fulfilledRows)'
  BY <1>1 DEF CustomersOf
<1>5. ApprovedIds \subseteq ApprovedIds'
  BY <1>1 DEF ApprovedIds, CustomersOf
<1> QED BY <1>2, <1>3, <1>4, <1>5 DEF BothNow

LEMMA ScansSurviveRuns ==
    ASSUME GoldenInv, NEW r \in TenantRuns, Act(r) \/ Persist(r) \/ EndUnaudited(r),
           NEW e \in Evaluators
    PROVE  ScanInv(e)'
<1>1. UNCHANGED <<evalPc, scanVars>>
  BY DEF Act, Persist, EndUnaudited
<1>2. ScanInv(e)
  BY DEF GoldenInv
<1> QED BY <1>1, <1>2, RunsOnlyAdd DEF ScanInv, scanVars, Reported

EvaluatorStep(e) ==
    \/ Golden(e) \/ Kill(e)
    \/ ReadFulfilled(e) \/ ReadShadow(e) \/ ReadActs(e) \/ ReadApproved(e)

LEMMA ActsApproved ==
    ASSUME GoldenInv
    PROVE  /\ ActIds \subseteq ApprovedIds
           /\ ActIds \subseteq TenantCustomers
           /\ CustomersOf(fulfilledRows) \subseteq TenantCustomers
           /\ BothNow \subseteq TenantCustomers
BY DEF GoldenInv, GoldenTypeOK, ActIds, ApprovedIds, CustomersOf, BothNow, TenantCustomers

LEMMA ScanKeeps ==
    ASSUME GoldenInv, NEW e \in Evaluators, EvaluatorStep(e), NEW f \in Evaluators
    PROVE  ScanInv(f)'
<1> USE DEF GoldenInv, GoldenTypeOK, ScanInv, Reported
<1>1. UNCHANGED tenantVars
  BY DEF EvaluatorStep, Golden, Kill, ReadFulfilled, ReadShadow, ReadActs, ReadApproved
<1>2. UNCHANGED <<Shadowed, BothNow, ApprovedIds, CustomersOf(fulfilledRows)>>
  BY <1>1 DEF tenantVars, Shadowed, BothNow, ApprovedIds, CustomersOf
<1>3. CASE f # e
  <2>1. /\ evalPc'[f] = evalPc[f] /\ idsRead'[f] = idsRead[f] /\ before'[f] = before[f]
        /\ holdoutViol'[f] = holdoutViol[f] /\ guardrailViol'[f] = guardrailViol[f]
    BY <1>3 DEF EvaluatorStep, Golden, Kill, ReadFulfilled, ReadShadow, ReadActs,
                ReadApproved, scanVars
  <2> QED BY <1>2, <2>1
<1>4. CASE f = e
  <2>1. CASE Golden(e)
    BY <1>2, <1>4, <2>1 DEF Golden, scanVars
  <2>2. CASE Kill(e)
    BY <1>4, <2>2 DEF Kill
  <2>3. CASE ReadFulfilled(e)
    <3>1. /\ idsRead'[e] = CustomersOf(fulfilledRows) /\ before'[e] = BothNow
          /\ holdoutViol'[e] = {}
          /\ evalPc'[e] = IF fulfilledRows = {} THEN "acts" ELSE "shadow"
      BY <2>3 DEF ReadFulfilled
    <3>2. BothNow \subseteq CustomersOf(fulfilledRows) /\ BothNow \subseteq Shadowed
      BY DEF BothNow
    <3>3. fulfilledRows = {} => BothNow = {}
      BY DEF BothNow, CustomersOf
    <3> QED BY <1>2, <1>4, <3>1, <3>2, <3>3
  <2>4. CASE ReadShadow(e)
    <3>1. /\ evalPc[e] = "shadow" /\ evalPc'[e] = "acts"
          /\ holdoutViol'[e] = idsRead[e] \cap Shadowed /\ before'[e] = before[e]
      BY <2>4 DEF ReadShadow
    <3> QED BY <1>2, <1>4, <3>1 DEF BothNow
  <2>5. CASE ReadActs(e)
    <3>1. /\ evalPc[e] = "acts" /\ evalPc'[e] = "approved"
          /\ idsRead'[e] = ActIds /\ UNCHANGED <<before, holdoutViol>>
      BY <2>5 DEF ReadActs
    <3> QED BY <1>2, <1>4, <3>1, ActsApproved
  <2>6. CASE ReadApproved(e)
    <3>1. /\ evalPc[e] = "approved" /\ evalPc'[e] \in {"exit0", "exit1"}
          /\ guardrailViol'[e] = idsRead[e] \ ApprovedIds /\ UNCHANGED <<before, holdoutViol>>
      BY <2>6 DEF ReadApproved
    <3> QED BY <1>2, <1>4, <3>1
  <2> QED BY <2>1, <2>2, <2>3, <2>4, <2>5, <2>6 DEF EvaluatorStep
<1> QED BY <1>3, <1>4

\* A scenario is a first run: its tenant is its own.
LEMMA FirstRunKeeps ==
    ASSUME GoldenInv, NEW e \in Evaluators, Golden(e), NEW f \in Evaluators
    PROVE  FirstRunInv(f)' /\ results'[f] \in Seq(Result)
           /\ scenarioContacts' \in [Evaluators \X DOMAIN GoldenScenarios -> Nat]
<1> DEFINE i == Len(results[e]) + 1
           result == RunScenario(GoldenScenarios[i], scenarioContacts[TenantOf(e, i)])
<1>1. /\ Len(results[e]) < Len(GoldenScenarios)
      /\ results' = [results EXCEPT ![e] = Append(@, result)]
      /\ scenarioContacts' = IF result.fulfilled
                             THEN [scenarioContacts EXCEPT ![TenantOf(e, i)] = @ + 1]
                             ELSE scenarioContacts
  BY DEF Golden
<1>2. /\ results \in [Evaluators -> Seq(Result)] /\ results[e] \in Seq(Result)
      /\ Len(results[e]) \in Nat /\ DOMAIN results[e] = 1..Len(results[e])
      /\ i \in 1..11 /\ i > Len(results[e])
      /\ scenarioContacts \in [Evaluators \X (1..11) -> Nat]
  <2>1. results \in [Evaluators -> Seq(Result)]
        /\ scenarioContacts \in [Evaluators \X (1..11) -> Nat]
    BY Scenarios DEF GoldenInv, GoldenTypeOK
  <2>2. Len(results[e]) \in Nat /\ DOMAIN results[e] = 1..Len(results[e])
    BY <2>1
  <2>3. Len(results[e]) < 11
    BY <1>1, Scenarios
  <2>4. i \in 1..11 /\ i > Len(results[e])
    BY ONLY <2>2, <2>3
  <2> QED BY <2>1, <2>2, <2>4
<1>3. result = RunScenario(GoldenScenarios[i], 0) /\ result \in Result
  <2>1. FirstRunInv(e) /\ i \in DOMAIN GoldenScenarios /\ i > Len(results[e])
    BY <1>2, Scenarios DEF GoldenInv
  <2>2. scenarioContacts[TenantOf(e, i)] = 0
    BY <2>1 DEF FirstRunInv
  <2> QED BY <2>2, ResultType
<1> HIDE DEF result, i
<1>4. TenantOf(e, i) \in Evaluators \X (1..11)
  BY <1>2 DEF TenantOf
<1>5. scenarioContacts' \in [Evaluators \X DOMAIN GoldenScenarios -> Nat]
  BY <1>1, <1>2, <1>4, Scenarios
<1>6. \A g \in Evaluators, j \in 1..11 :
          TenantOf(g, j) # TenantOf(e, i)
          => scenarioContacts'[TenantOf(g, j)] = scenarioContacts[TenantOf(g, j)]
  BY <1>1, <1>2 DEF TenantOf
<1>7. CASE f # e
  <2>1. results'[f] = results[f]
    BY <1>1, <1>7
  <2>2. \A j \in 1..11 : scenarioContacts'[TenantOf(f, j)] = scenarioContacts[TenantOf(f, j)]
    BY <1>6, <1>7 DEF TenantOf
  <2> QED BY <1>5, <2>1, <2>2, Scenarios DEF GoldenInv, GoldenTypeOK, FirstRunInv
<1>8. CASE f = e
  <2>1. results'[e] = Append(results[e], result)
    BY <1>1, <1>2
  <2>2. /\ results'[e] \in Seq(Result) /\ Len(results'[e]) = i
        /\ results'[e][i] = result
        /\ \A j \in 1..Len(results[e]) : results'[e][j] = results[e][j]
    BY <1>2, <1>3, <2>1 DEF i
  <2>3. \A j \in 1..11 : j > i => scenarioContacts'[TenantOf(e, j)] = 0
    <3> SUFFICES ASSUME NEW j \in 1..11, j > i PROVE scenarioContacts'[TenantOf(e, j)] = 0
      OBVIOUS
    <3>1. j > Len(results[e]) /\ j # i
      BY <1>2 DEF i
    <3>2. scenarioContacts[TenantOf(e, j)] = 0
      BY <3>1, Scenarios DEF GoldenInv, FirstRunInv
    <3>3. TenantOf(e, j) # TenantOf(e, i)
      BY <3>1 DEF TenantOf
    <3> QED BY <1>6, <3>2, <3>3
  <2>4. \A j \in DOMAIN results'[e] : results'[e][j] = RunScenario(GoldenScenarios[j], 0)
    <3> SUFFICES ASSUME NEW j \in DOMAIN results'[e]
                 PROVE  results'[e][j] = RunScenario(GoldenScenarios[j], 0)
      OBVIOUS
    <3>1. CASE j = i
      BY <1>3, <2>2, <3>1
    <3>2. CASE j # i
      <4>1. j \in 1..Len(results[e])
        BY <1>2, <2>2, <3>2 DEF i
      <4>2. j \in DOMAIN results[e]
        BY <1>2, <4>1
      <4> QED BY <2>2, <4>1, <4>2 DEF GoldenInv, FirstRunInv
    <3> QED BY <3>1, <3>2
  <2> QED BY <1>2, <1>5, <1>8, <2>2, <2>3, <2>4, Scenarios DEF FirstRunInv
<1> QED BY <1>7, <1>8

LEMMA EvaluatorType ==
    ASSUME GoldenInv, NEW e \in Evaluators, EvaluatorStep(e)
    PROVE  GoldenTypeOK' /\ \A f \in Evaluators : FirstRunInv(f)'
<1>1. CASE Golden(e)
  <2>1. /\ \A f \in Evaluators : FirstRunInv(f)' /\ results'[f] \in Seq(Result)
        /\ scenarioContacts' \in [Evaluators \X DOMAIN GoldenScenarios -> Nat]
        /\ UNCHANGED <<evalPc, tenantVars, scanVars>>
    BY <1>1, FirstRunKeeps DEF Golden
  <2>2. \E result : results' = [results EXCEPT ![e] = result]
    BY <1>1 DEF Golden
  <2>3. results' \in [Evaluators -> Seq(Result)]
    BY <2>1, <2>2 DEF GoldenInv, GoldenTypeOK
  <2> QED BY <2>1, <2>3 DEF GoldenInv, GoldenTypeOK, tenantVars, scanVars
<1>2. CASE ~Golden(e)
  <2>1. UNCHANGED <<results, scenarioContacts, tenantVars>>
    BY <1>2 DEF EvaluatorStep, Kill, ReadFulfilled, ReadShadow, ReadActs, ReadApproved
  <2>2. \A f \in Evaluators : FirstRunInv(f)'
    BY <2>1 DEF GoldenInv, FirstRunInv, TenantOf
  <2>3. /\ results' \in [Evaluators -> Seq(Result)]
        /\ scenarioContacts' \in [Evaluators \X DOMAIN GoldenScenarios -> Nat]
        /\ runPc' \in [TenantRuns -> {"idle", "acted", "done", "died"}]
        /\ statusOf' \in [TenantRuns -> Statuses \cup {Nothing}]
        /\ fulfilledRows' \subseteq TenantRuns /\ auditRows' \subseteq TenantRuns
    BY <2>1 DEF GoldenInv, GoldenTypeOK, tenantVars
  <2> DEFINE Locations == {"golden", "fulfilled", "shadow", "acts",
                           "approved", "exit0", "exit1", "killed"}
             Sets == [Evaluators -> SUBSET TenantCustomers]
             ScanTypes == /\ evalPc \in [Evaluators -> Locations]
                          /\ idsRead \in Sets /\ holdoutViol \in Sets
                          /\ guardrailViol \in Sets /\ before \in Sets
  <2>4. ScanTypes
    BY DEF GoldenInv, GoldenTypeOK
  <2>5. ScanTypes'
    <3>1. CASE ReadFulfilled(e)
      BY <2>4, <3>1, ActsApproved DEF ReadFulfilled
    <3>2. CASE ReadShadow(e)
      BY <2>4, <3>2 DEF ReadShadow
    <3>3. CASE ReadActs(e)
      BY <2>4, <3>3, ActsApproved DEF ReadActs
    <3>4. CASE ReadApproved(e)
      BY <2>4, <3>4 DEF ReadApproved
    <3>5. CASE Kill(e)
      BY <2>4, <3>5 DEF Kill, scanVars
    <3> QED BY <1>2, <3>1, <3>2, <3>3, <3>4, <3>5 DEF EvaluatorStep
  <2> QED BY <2>2, <2>3, <2>5 DEF GoldenTypeOK
<1> QED BY <1>1, <1>2

LEMMA GoldenInvInit == GoldenInit => GoldenInv
<1> SUFFICES ASSUME GoldenInit PROVE GoldenInv
  OBVIOUS
<1>1. GoldenTypeOK
  BY DEF GoldenInit, GoldenTypeOK
<1>2. ASSUME NEW e \in Evaluators PROVE ScanInv(e) /\ FirstRunInv(e)
  <2>1. ScanInv(e)
    BY DEF GoldenInit, ScanInv, Reported
  <2>2. results[e] = <<>> /\ Len(results[e]) = 0 /\ DOMAIN results[e] = {}
    BY DEF GoldenInit
  <2>3. \A i \in DOMAIN GoldenScenarios : scenarioContacts[TenantOf(e, i)] = 0
    BY DEF GoldenInit, TenantOf
  <2> QED BY <2>1, <2>2, <2>3, Scenarios DEF FirstRunInv
<1> QED BY <1>1, <1>2 DEF GoldenInv, TenantInv, GoldenInit

LEMMA GoldenInvNext == GoldenInv /\ [GoldenNext]_goldenVars => GoldenInv'
<1> SUFFICES ASSUME GoldenInv, [GoldenNext]_goldenVars PROVE GoldenInv'
  OBVIOUS
<1>1. ASSUME NEW r \in TenantRuns, Act(r) \/ Persist(r) \/ EndUnaudited(r) PROVE GoldenInv'
  <2>1. UNCHANGED <<evalPc, results, scenarioContacts, scanVars>>
    BY <1>1 DEF Act, Persist, EndUnaudited
  <2>2. GoldenTypeOK'
    BY <1>1, <2>1 DEF Act, Persist, EndUnaudited, GoldenInv, GoldenTypeOK, scanVars
  <2>3. \A e \in Evaluators : FirstRunInv(e)'
    BY <2>1 DEF GoldenInv, FirstRunInv, TenantOf
  <2> QED BY <1>1, <2>2, <2>3, RunsOnlyAdd, ScansSurviveRuns DEF GoldenInv
<1>2. ASSUME NEW e \in Evaluators, EvaluatorStep(e) PROVE GoldenInv'
  <2>1. UNCHANGED tenantVars
    BY <1>2 DEF EvaluatorStep, Golden, Kill, ReadFulfilled, ReadShadow, ReadActs, ReadApproved
  <2>2. TenantInv'
    BY <2>1 DEF GoldenInv, TenantInv, tenantVars
  <2> QED BY <1>2, <2>2, EvaluatorType, ScanKeeps DEF GoldenInv
<1>3. CASE UNCHANGED goldenVars
  BY <1>3 DEF goldenVars, GoldenInv, GoldenTypeOK, TenantInv, ScanInv, FirstRunInv,
              Reported, Shadowed, BothNow, ApprovedIds, CustomersOf, TenantOf
<1> QED BY <1>1, <1>2, <1>3 DEF GoldenNext, EvaluatorStep

\* evalx/golden.py: each count and each set of a report keeps its range.
THEOREM GoldenTypeCorrect == GoldenSpec => []GoldenTypeOK
<1>1. GoldenInv => GoldenTypeOK
  BY DEF GoldenInv
<1> QED BY <1>1, GoldenInvInit, GoldenInvNext, PTL DEF GoldenSpec

\* evalx/hardchecks.py:105, 136: whatever commits between the four queries, a
\* report that ends has named each customer who was treated and held out when they
\* began, nobody who is not, and raises no false alarm about the guardrail.
THEOREM ScansAreExactAlways == GoldenSpec => []ScansAreExact
<1>1. GoldenInv => ScansAreExact
  BY DEF GoldenInv, ScanInv, ScansAreExact, Reported
<1> QED BY <1>1, GoldenInvInit, GoldenInvNext, PTL DEF GoldenSpec

\* The catalog gives each scenario, run by itself, the disposition it pins.
CatalogHolds ==
    \A i \in DOMAIN GoldenScenarios :
        Passes(GoldenScenarios[i], RunScenario(GoldenScenarios[i], 0))

\* graph/scenario.py:248: then it has it in every report, whatever has run before
\* in this one or runs in others.
THEOREM ScenariosHoldAlways ==
    CatalogHolds /\ GoldenSpec => []ScenariosHold
<1>1. CatalogHolds => CatalogHolds'
  BY DEF CatalogHolds
<1>2. CatalogHolds /\ GoldenInv => ScenariosHold
  <2> SUFFICES ASSUME CatalogHolds, GoldenInv, NEW e \in Evaluators, results[e] # <<>>
               PROVE  LET i == Len(results[e])
                          scenario == GoldenScenarios[i]
                      IN /\ Passes(scenario, results[e][i])
                         /\ results[e][i] = RunScenario(scenario, 0)
    BY DEF ScenariosHold
  <2>1. results[e] \in Seq(Result) /\ Len(results[e]) <= 11
    BY Scenarios DEF GoldenInv, GoldenTypeOK, FirstRunInv
  <2>2. Len(results[e]) \in DOMAIN results[e] /\ Len(results[e]) \in 1..11
    <3>1. Len(results[e]) \in Nat \ {0}
      BY <2>1, EmptySeq
    <3>2. DOMAIN results[e] = 1..Len(results[e])
      BY <2>1
    <3> DEFINE n == Len(results[e])
    <3>3. n \in Nat /\ n # 0 /\ n <= 11
      BY <2>1, <3>1
    <3> HIDE DEF n
    <3>4. n \in 1..n /\ n \in 1..11
      BY <3>3
    <3> QED BY <3>2, <3>4 DEF n
  <2>3. results[e][Len(results[e])] = RunScenario(GoldenScenarios[Len(results[e])], 0)
    BY <2>2 DEF GoldenInv, FirstRunInv
  <2> QED BY <2>2, <2>3, Scenarios DEF CatalogHolds
<1> QED BY <1>1, <1>2, GoldenInvInit, GoldenInvNext, PTL DEF GoldenSpec

-----------------------------------------------------------------------------
(* CostReport.  A report puts a customer in the cache only after a miss, and  *)
(* between the two only others put: which is why of two near rows the second *)
(* is that of a report that had not seen the first.                        *)

Diagnosing == {"idle", "lookup", "put"} \cup Asking
Answered == [text : Answers, role : {"cheap", "large"}]

\* What a report knows of the cache from its miss to its put.
Missed(r) ==
    /\ missedAt[r] <= Len(semantic)
    /\ \A i \in DOMAIN semantic :
          i <= missedAt[r] => Similarity[Shape(r)][semantic[i].shape] < Threshold
    /\ \A i \in DOMAIN semantic : i > missedAt[r] => semantic[i].by # r

Drift(r) ==
    \A c \in CohortCustomers : out[r][c] # NoAnswer =>
        \E row \in Rows : /\ row.answer = out[r][c]
                          /\ Similarity[ShapeOf[c]][row.shape] >= Threshold

Metered(r) ==
    /\ step[r] \in Sampling => meter[r].n = Len(Cohort)
    /\ meter[r].n = meter[r].hits + meter[r].cheap + meter[r].esc
    /\ step[r] \notin EndStates => meter[r].n - meter[r].hits = Cardinality(OwnRows(r))

ReportInv(r) ==
    /\ Drift(r) /\ Metered(r)
    /\ step[r] \in Diagnosing => pos[r] <= Len(Cohort) /\ meter[r].n = pos[r] - 1
    /\ step[r] = "put" => answer[r] \in Answered
    /\ step[r] \in Asking \cup {"put"} => Missed(r)
    /\ step[r] \in {"again", "escalated", "forced"} => agree[r] < sampled[r]

CostInv == CostTypeOK /\ PaidOnce /\ \A r \in Reports : ReportInv(r)

LEMMA CohortFacts ==
    /\ Len(Cohort) \in Nat \ {0} /\ DOMAIN Cohort = 1..Len(Cohort)
    /\ \A i \in 1..Len(Cohort) : Cohort[i] \in CohortCustomers /\ ShapeOf[Cohort[i]] \in Shapes
<1>1. Len(Cohort) \in Nat \ {0}
  BY EmptySeq, CostReportAssumption
<1>2. DOMAIN Cohort = 1..Len(Cohort) /\ Cohort \in [1..Len(Cohort) -> CohortCustomers]
  BY CostReportAssumption
<1> QED BY <1>1, <1>2, CostReportAssumption

LEMMA CustomerFacts ==
    ASSUME CostInv, NEW r \in Reports, step[r] \in Diagnosing
    PROVE  /\ pos[r] \in 1..Len(Cohort) /\ meter[r].n = pos[r] - 1
           /\ Cohort[pos[r]] \in CohortCustomers /\ Shape(r) \in Shapes
           /\ Len(Cohort) \in Nat
<1>1. pos[r] \in 1..Len(Cohort) /\ Len(Cohort) \in Nat
  <2>1. Len(Cohort) \in Nat /\ pos[r] \in 1..(Len(Cohort) + 1) /\ pos[r] <= Len(Cohort)
    BY CohortFacts DEF CostInv, ReportInv, CostTypeOK
  <2> QED BY ONLY <2>1
<1>2. Cohort[pos[r]] \in CohortCustomers /\ ShapeOf[Cohort[pos[r]]] \in Shapes
  BY <1>1, CohortFacts
<1> QED BY <1>1, <1>2 DEF CostInv, ReportInv, Shape

LEMMA BelowThreshold ==
    ASSUME NEW x \in 0..100, NEW y \in 0..100, ~(x >= y)
    PROVE  x < y
OBVIOUS

LEMMA OwnRowsFinite ==
    ASSUME semantic \in Seq(Row), NEW r \in Reports
    PROVE  IsFiniteSet(OwnRows(r)) /\ Cardinality(OwnRows(r)) \in Nat
<1>1. IsFiniteSet(1..Len(semantic)) /\ OwnRows(r) \subseteq 1..Len(semantic)
  BY FS_Interval DEF OwnRows
<1> QED BY <1>1, FS_Subset, FS_CardinalityType

\* What a row more leaves of the cache, and adds to it.
LEMMA OneRowMore ==
    ASSUME semantic \in Seq(Row), NEW row \in Row, semantic' = Append(semantic, row)
    PROVE  /\ semantic' \in Seq(Row) /\ Len(semantic) \in Nat
           /\ Len(semantic') = Len(semantic) + 1
           /\ semantic'[Len(semantic) + 1] = row
           /\ \A i \in 1..Len(semantic) : semantic'[i] = semantic[i]
           /\ DOMAIN semantic = 1..Len(semantic)
           /\ DOMAIN semantic' = 1..(Len(semantic) + 1)
           /\ Rows \subseteq Rows' /\ row \in Rows'
           /\ \A r \in Reports : r # row.by => OwnRows(r)' = OwnRows(r)
           /\ OwnRows(row.by)' = OwnRows(row.by) \cup {Len(semantic) + 1}
<1>1. /\ semantic' \in Seq(Row) /\ Len(semantic) \in Nat
      /\ Len(semantic') = Len(semantic) + 1
      /\ semantic'[Len(semantic) + 1] = row
      /\ \A i \in 1..Len(semantic) : semantic'[i] = semantic[i]
      /\ DOMAIN semantic = 1..Len(semantic)
      /\ DOMAIN semantic' = 1..(Len(semantic) + 1)
  OBVIOUS
<1>2. /\ \A i \in DOMAIN semantic : i \in DOMAIN semantic' /\ semantic'[i] = semantic[i]
      /\ Len(semantic) + 1 \in DOMAIN semantic'
      /\ \A i \in DOMAIN semantic' : i \in DOMAIN semantic \/ i = Len(semantic) + 1
  BY <1>1
<1>3. Rows \subseteq Rows' /\ row \in Rows'
  BY <1>1, <1>2 DEF Rows
<1>4. \A r \in Reports : r # row.by => OwnRows(r)' = OwnRows(r)
  BY <1>1, <1>2 DEF OwnRows
<1>5. OwnRows(row.by)' = OwnRows(row.by) \cup {Len(semantic) + 1}
  BY <1>1, <1>2 DEF OwnRows
<1> QED BY <1>1, <1>3, <1>4, <1>5

\* A step of one report leaves the others', and adds at most a row of its own.
OnlyOf(r) ==
    /\ \A o \in Reports \ {r} :
          /\ step'[o] = step[o] /\ pos'[o] = pos[o] /\ answer'[o] = answer[o]
          /\ out'[o] = out[o] /\ meter'[o] = meter[o] /\ sampled'[o] = sampled[o]
          /\ agree'[o] = agree[o] /\ missedAt'[o] = missedAt[o]
    /\ \/ UNCHANGED semantic
       \/ \E row \in Row : row.by = r /\ semantic' = Append(semantic, row)

LEMMA OthersKeep ==
    ASSUME CostInv, NEW r \in Reports, OnlyOf(r), NEW o \in Reports, o # r
    PROVE  ReportInv(o)'
<1> USE DEF OnlyOf
<1>1. /\ step'[o] = step[o] /\ pos'[o] = pos[o] /\ answer'[o] = answer[o]
      /\ out'[o] = out[o] /\ meter'[o] = meter[o] /\ sampled'[o] = sampled[o]
      /\ agree'[o] = agree[o] /\ missedAt'[o] = missedAt[o]
      /\ Shape(o)' = Shape(o) /\ ReportInv(o) /\ semantic \in Seq(Row)
  BY DEF Shape, CostInv, CostTypeOK
<1>2. CASE UNCHANGED semantic
  BY <1>1, <1>2 DEF ReportInv, Drift, Metered, Missed, Rows, OwnRows
<1>3. CASE \E row \in Row : row.by = r /\ semantic' = Append(semantic, row)
  <2>1. PICK row \in Row : row.by = r /\ semantic' = Append(semantic, row)
    BY <1>3
  <2>2. /\ Len(semantic) \in Nat /\ Len(semantic') = Len(semantic) + 1
        /\ semantic'[Len(semantic) + 1] = row
        /\ \A i \in 1..Len(semantic) : semantic'[i] = semantic[i]
        /\ DOMAIN semantic = 1..Len(semantic) /\ DOMAIN semantic' = 1..(Len(semantic) + 1)
        /\ Rows \subseteq Rows' /\ OwnRows(o)' = OwnRows(o)
    BY <1>1, <2>1, OneRowMore
  <2>3. Drift(o)'
    BY <1>1, <2>2 DEF ReportInv, Drift
  <2>4. Metered(o)'
    BY <1>1, <2>2 DEF ReportInv, Metered
  <2>5. ASSUME Missed(o) PROVE Missed(o)'
    <3>1. missedAt[o] \in Nat /\ missedAt[o] <= Len(semantic)
      BY <2>5 DEF CostInv, CostTypeOK, Missed
    <3>2. ASSUME NEW i \in DOMAIN semantic', i <= missedAt[o]
          PROVE  Similarity[Shape(o)][semantic'[i].shape] < Threshold
      <4>1. i \in DOMAIN semantic /\ semantic'[i] = semantic[i]
        BY <2>2, <2>5, <3>1, <3>2
      <4> QED BY <2>5, <3>2, <4>1 DEF Missed
    <3>3. ASSUME NEW i \in DOMAIN semantic', i > missedAt[o]
          PROVE  semantic'[i].by # o
      <4>1. CASE i \in DOMAIN semantic
        BY <2>2, <2>5, <3>3, <4>1 DEF Missed
      <4>2. CASE i \notin DOMAIN semantic
        <5>1. semantic'[i] = row
          BY <2>2, <4>2
        <5> QED BY <2>1, <5>1
      <4> QED BY <4>1, <4>2
    <3>4. missedAt[o]' <= Len(semantic')
      BY <1>1, <2>2, <3>1
    <3> QED BY <1>1, <3>2, <3>3, <3>4 DEF Missed
  <2> QED BY <1>1, <2>3, <2>4, <2>5 DEF ReportInv
<1> QED BY <1>2, <1>3

\* Each step is of one report only.
LEMMA OneReportMoves ==
    ASSUME CostInv, NEW r \in Reports, ReportStep(r), step[r] # "put"
    PROVE  OnlyOf(r)
<1> USE DEF CostInv, CostTypeOK, OnlyOf, Goto, At, sampling
<1>1. CASE StartReport(r)
  BY <1>1 DEF StartReport
<1>2. CASE LookupHits(r)
  BY <1>2 DEF LookupHits, Diagnosed
<1>3. CASE LookupMisses(r)
  BY <1>3 DEF LookupMisses
<1>4. CASE Cascade(r)
  BY <1>4 DEF Cascade, AnswerCheap, AnswerLarge
<1>5. CASE Sample(r)
  BY <1>5 DEF Sample
<1>6. CASE CascadeAgain(r)
  BY <1>6 DEF CascadeAgain, AnswerCheap, AnswerLarge
<1>7. CASE Compare(r)
  BY <1>7 DEF Compare
<1>8. CASE ReportEnds(r) \/ ReportFails(r)
  BY <1>8 DEF ReportEnds, ReportFails, Fresh
<1> QED BY <1>1, <1>2, <1>3, <1>4, <1>5, <1>6, <1>7, <1>8 DEF ReportStep, Put

\* What is left to show of a step that adds no row.
LEMMA OneReportKeeps ==
    ASSUME CostInv, NEW r \in Reports, ReportStep(r), UNCHANGED semantic, step[r] # "put",
           CostTypeOK', ReportInv(r)'
    PROVE  CostInv'
<1>1. \A o \in Reports : ReportInv(o)'
  BY OneReportMoves, OthersKeep
<1>2. PaidOnce'
  BY DEF CostInv, PaidOnce
<1> QED BY <1>1, <1>2 DEF CostInv

LEMMA StartKeeps ==
    ASSUME CostInv, NEW r \in Reports, StartReport(r)
    PROVE  CostInv'
<1> USE DEF CostInv
<1>1. /\ step[r] = "idle" /\ step' = [step EXCEPT ![r] = "lookup"]
      /\ UNCHANGED <<pos, answer, semantic, out, meter, sampled, agree, missedAt>>
  BY DEF StartReport, At, Goto, sampling
<1>2. CostTypeOK' /\ step'[r] = "lookup"
  BY <1>1 DEF CostTypeOK
<1>3. ReportInv(r) /\ ReportStep(r)
  BY DEF ReportStep
<1>4. ReportInv(r)'
  BY <1>1, <1>2, <1>3
    DEF ReportInv, Drift, Metered, Diagnosing, Asking, Sampling, EndStates, Rows, OwnRows
<1> QED BY <1>1, <1>2, <1>3, <1>4, OneReportKeeps

\* What Diagnosed makes of the step and the position.
LEMMA DiagnosedMoves ==
    ASSUME CostInv, NEW r \in Reports, step[r] \in Diagnosing, NEW text \in Answers,
           Diagnosed(r, text)
    PROVE  /\ pos' \in [Reports -> 1..(Len(Cohort) + 1)] /\ pos'[r] = pos[r] + 1
           /\ out' \in [Reports -> [CohortCustomers -> Answers \cup {NoAnswer}]]
           /\ \A c \in CohortCustomers :
                 out'[r][c] = IF c = Cohort[pos[r]] THEN text ELSE out[r][c]
           /\ step' \in [Reports -> {"idle", "lookup", "put"} \cup Asking \cup Sampling \cup EndStates]
           /\ \/ step'[r] = "sample" /\ pos[r] = Len(Cohort)
              \/ step'[r] = "lookup" /\ pos'[r] <= Len(Cohort)
<1>1. pos[r] \in 1..Len(Cohort) /\ Len(Cohort) \in Nat /\ Cohort[pos[r]] \in CohortCustomers
  BY CustomerFacts
<1>2. /\ out \in [Reports -> [CohortCustomers -> Answers \cup {NoAnswer}]]
      /\ pos \in [Reports -> 1..(Len(Cohort) + 1)]
      /\ step \in [Reports -> {"idle", "lookup", "put"} \cup Asking \cup Sampling \cup EndStates]
  BY DEF CostInv, CostTypeOK
<1>3. /\ pos' = [pos EXCEPT ![r] = pos[r] + 1]
      /\ out' = [out EXCEPT ![r] = [out[r] EXCEPT ![Cohort[pos[r]]] = text]]
      /\ step' = [step EXCEPT ![r] = IF pos[r] = Len(Cohort) THEN "sample" ELSE "lookup"]
  BY <1>2 DEF Diagnosed, Goto
<1>4. pos[r] + 1 \in 1..(Len(Cohort) + 1) /\ (pos[r] # Len(Cohort) => pos[r] + 1 <= Len(Cohort))
  BY <1>1
<1>5. pos' \in [Reports -> 1..(Len(Cohort) + 1)] /\ pos'[r] = pos[r] + 1
  BY <1>2, <1>3, <1>4
<1>6. /\ out' \in [Reports -> [CohortCustomers -> Answers \cup {NoAnswer}]]
      /\ \A c \in CohortCustomers :
            out'[r][c] = IF c = Cohort[pos[r]] THEN text ELSE out[r][c]
  BY <1>1, <1>2, <1>3
<1> QED BY <1>2, <1>3, <1>4, <1>5, <1>6 DEF Sampling

\* The meter adds up after one more customer.
LEMMA MeterStep ==
    ASSUME NEW m, NEW m2, m.n \in Nat, m.hits \in Nat, m.cheap \in Nat, m.esc \in Nat,
           m2.cheap \in Nat, m2.esc \in Nat, m2.n = m.n + 1, m2.hits = m.hits,
           m.n = m.hits + m.cheap + m.esc, m2.cheap + m2.esc = m.cheap + m.esc + 1
    PROVE  m2.n = m2.hits + m2.cheap + m2.esc /\ m2.n - m2.hits = (m.n - m.hits) + 1
OBVIOUS

LEMMA MeterHit ==
    ASSUME NEW m, NEW m2, m.n \in Nat, m.hits \in Nat, m.cheap \in Nat, m.esc \in Nat,
           m2.n = m.n + 1, m2.hits = m.hits + 1, m2.cheap = m.cheap, m2.esc = m.esc,
           m.n = m.hits + m.cheap + m.esc
    PROVE  m2.n = m2.hits + m2.cheap + m2.esc /\ m2.n - m2.hits = m.n - m.hits
OBVIOUS

LEMMA HitKeeps ==
    ASSUME CostInv, NEW r \in Reports, LookupHits(r)
    PROVE  CostInv'
<1> USE DEF CostInv
<1>1. /\ step[r] = "lookup" /\ step[r] \in Diagnosing /\ Hit(Shape(r))
      /\ UNCHANGED <<answer, semantic, sampled, agree, missedAt>>
  BY DEF LookupHits, Diagnosing, At, sampling
<1>2. PICK i \in Nearest(Shape(r)) : Diagnosed(r, semantic[i].answer)
  BY DEF LookupHits
<1>3. /\ Shape(r) \in Shapes /\ Cohort[pos[r]] \in CohortCustomers
      /\ meter[r].n = pos[r] - 1 /\ pos[r] \in 1..Len(Cohort) /\ Len(Cohort) \in Nat
  BY <1>1, CustomerFacts
<1>4. i \in DOMAIN semantic /\ semantic[i] \in Row /\ semantic[i] \in Rows
  BY <1>2 DEF Nearest, CostTypeOK, Rows
<1>5. Similarity[Shape(r)][semantic[i].shape] >= Threshold
  <2>1. PICK h \in DOMAIN semantic : Closeness(h, Shape(r)) >= Threshold
    BY <1>1 DEF Hit
  <2>2. Closeness(h, Shape(r)) <= Closeness(i, Shape(r))
    BY <1>2 DEF Nearest
  <2>3. semantic[h] \in Row
    BY DEF CostTypeOK
  <2>4. /\ Closeness(h, Shape(r)) \in 0..100 /\ Closeness(i, Shape(r)) \in 0..100
        /\ Threshold \in 0..100
    BY <1>3, <1>4, <2>3, CostReportAssumption DEF Row, Closeness
  <2>5. Closeness(i, Shape(r)) >= Threshold
    BY ONLY <2>1, <2>2, <2>4
  <2> QED BY <2>5 DEF Closeness
<1>6. semantic[i].answer \in Answers
  BY <1>4 DEF Row
<1>7. /\ pos' \in [Reports -> 1..(Len(Cohort) + 1)] /\ pos'[r] = pos[r] + 1
      /\ out' \in [Reports -> [CohortCustomers -> Answers \cup {NoAnswer}]]
      /\ \A c \in CohortCustomers :
            out'[r][c] = IF c = Cohort[pos[r]] THEN semantic[i].answer ELSE out[r][c]
      /\ step' \in [Reports -> {"idle", "lookup", "put"} \cup Asking \cup Sampling \cup EndStates]
      /\ \/ step'[r] = "sample" /\ pos[r] = Len(Cohort)
         \/ step'[r] = "lookup" /\ pos'[r] <= Len(Cohort)
  BY <1>1, <1>2, <1>6, DiagnosedMoves
<1>8. ReportInv(r) /\ ReportStep(r)
  BY DEF ReportStep
<1>9. Drift(r)'
  <2>1. Rows' = Rows
    BY <1>1 DEF Rows
  <2>2. ShapeOf[Cohort[pos[r]]] = Shape(r)
    BY DEF Shape
  <2> QED BY <1>4, <1>5, <1>7, <1>8, <2>1, <2>2 DEF ReportInv, Drift
<1>10. /\ meter[r].n \in Nat /\ meter[r].hits \in Nat /\ meter[r].cheap \in Nat /\ meter[r].esc \in Nat
       /\ meter \in [Reports -> Meter]
  BY DEF CostTypeOK, Meter
<1>11. /\ meter' \in [Reports -> Meter]
       /\ meter'[r].n = meter[r].n + 1 /\ meter'[r].hits = meter[r].hits + 1
       /\ meter'[r].cheap = meter[r].cheap /\ meter'[r].esc = meter[r].esc
  <2>1. meter' = [meter EXCEPT ![r] = Recorded(meter[r], "cache")]
    BY DEF LookupHits
  <2>2. meter'[r] = [n |-> meter[r].n + 1, hits |-> meter[r].hits + 1,
                     cheap |-> meter[r].cheap, esc |-> meter[r].esc]
    BY <1>10, <2>1 DEF Recorded
  <2>3. meter'[r] \in Meter
    BY <1>10, <2>2 DEF Meter
  <2> QED BY <1>10, <2>1, <2>2, <2>3
<1>12. Metered(r)'
  <2>1. /\ meter[r].n = meter[r].hits + meter[r].cheap + meter[r].esc
        /\ meter[r].n - meter[r].hits = Cardinality(OwnRows(r)) /\ OwnRows(r)' = OwnRows(r)
    BY <1>1, <1>8 DEF ReportInv, Metered, EndStates, OwnRows
  <2>2. /\ meter'[r].n = meter'[r].hits + meter'[r].cheap + meter'[r].esc
        /\ meter'[r].n - meter'[r].hits = meter[r].n - meter[r].hits
    BY ONLY <1>10, <1>11, <2>1, MeterHit
  <2>3. meter'[r].n = pos[r]
    BY <1>3, <1>11
  <2> QED BY <1>7, <2>1, <2>2, <2>3 DEF Metered, Sampling
<1>13. CostTypeOK'
  BY <1>1, <1>7, <1>11 DEF CostTypeOK
<1>14. meter'[r].n = pos'[r] - 1
  BY <1>3, <1>7, <1>11
<1>15. ReportInv(r)'
  BY <1>7, <1>9, <1>12, <1>14 DEF ReportInv, Diagnosing, Asking
<1> QED BY <1>1, <1>8, <1>13, <1>15, OneReportKeeps

LEMMA MissKeeps ==
    ASSUME CostInv, NEW r \in Reports, LookupMisses(r)
    PROVE  CostInv'
<1> USE DEF CostInv
<1>1. /\ step[r] = "lookup" /\ ~Hit(Shape(r)) /\ step' = [step EXCEPT ![r] = "cheap"]
      /\ missedAt' = [missedAt EXCEPT ![r] = Len(semantic)]
      /\ UNCHANGED <<pos, answer, semantic, out, meter, sampled, agree>>
  BY DEF LookupMisses, At, Goto, sampling
<1>2. semantic \in Seq(Row) /\ Len(semantic) \in Nat /\ DOMAIN semantic = 1..Len(semantic)
  BY DEF CostTypeOK
<1>3. CostTypeOK' /\ step'[r] = "cheap" /\ missedAt'[r] = Len(semantic)
  BY <1>1, <1>2 DEF CostTypeOK, Asking
<1>4. Shape(r)' = Shape(r) /\ Shape(r) \in Shapes
  BY <1>1, CustomerFacts DEF Shape, Diagnosing
<1>5. Missed(r)'
  <2>1. ASSUME NEW i \in DOMAIN semantic
        PROVE  Similarity[Shape(r)][semantic[i].shape] < Threshold
    <3>1. semantic[i] \in Row
      BY <1>2
    <3>2. Similarity[Shape(r)][semantic[i].shape] \in 0..100 /\ Threshold \in 0..100
      BY <1>4, <3>1, CostReportAssumption DEF Row
    <3>3. ~(Similarity[Shape(r)][semantic[i].shape] >= Threshold)
      BY <1>1 DEF Hit, Closeness
    <3> QED BY <3>2, <3>3, BelowThreshold
  <2>2. \A i \in DOMAIN semantic : ~(i > Len(semantic))
    BY <1>2
  <2> QED BY <1>1, <1>2, <1>3, <1>4, <2>1, <2>2 DEF Missed
<1>6. ReportInv(r) /\ ReportStep(r)
  BY DEF ReportStep
<1>7. ReportInv(r)'
  BY <1>1, <1>3, <1>5, <1>6
    DEF ReportInv, Drift, Metered, Diagnosing, Asking, Sampling, EndStates, Rows, OwnRows
<1> QED BY <1>1, <1>3, <1>6, <1>7, OneReportKeeps

\* The row that Put adds is near none that its report had seen, and those it had
\* not seen are others'.
LEMMA PutKeeps ==
    ASSUME CostInv, NEW r \in Reports, Put(r)
    PROVE  CostInv'
<1> USE DEF CostInv
<1> DEFINE row == [shape |-> Shape(r), answer |-> answer[r].text, by |-> r, seen |-> missedAt[r]]
<1>1. /\ step[r] = "put" /\ step[r] \in Diagnosing /\ UNCHANGED <<sampled, agree>>
      /\ answer' = [answer EXCEPT ![r] = NoAnswer] /\ missedAt' = [missedAt EXCEPT ![r] = 0]
      /\ semantic' = Append(semantic, row) /\ Diagnosed(r, answer[r].text)
  BY DEF Put, Diagnosing, At, sampling
<1>2. /\ Shape(r) \in Shapes /\ Cohort[pos[r]] \in CohortCustomers
      /\ meter[r].n = pos[r] - 1 /\ pos[r] \in 1..Len(Cohort) /\ Len(Cohort) \in Nat
  BY <1>1, CustomerFacts
<1>3. /\ ReportInv(r) /\ Missed(r) /\ answer[r] \in Answered
      /\ answer[r].text \in Answers /\ answer[r].role \in {"cheap", "large"}
  BY <1>1 DEF ReportInv, Answered
<1>4. semantic \in Seq(Row) /\ missedAt[r] \in Nat
  BY DEF CostTypeOK
<1>5. row \in Row /\ row.by = r /\ row.shape = Shape(r) /\ row.seen = missedAt[r]
      /\ row.answer = answer[r].text
  BY <1>2, <1>3, <1>4 DEF Row
<1> HIDE DEF row
<1>6. /\ semantic' \in Seq(Row) /\ Len(semantic) \in Nat
      /\ semantic'[Len(semantic) + 1] = row
      /\ \A i \in 1..Len(semantic) : semantic'[i] = semantic[i]
      /\ DOMAIN semantic = 1..Len(semantic)
      /\ DOMAIN semantic' = 1..(Len(semantic) + 1)
      /\ Rows \subseteq Rows' /\ row \in Rows'
      /\ OwnRows(r)' = OwnRows(r) \cup {Len(semantic) + 1}
  BY <1>1, <1>4, <1>5, OneRowMore
<1>7. /\ pos' \in [Reports -> 1..(Len(Cohort) + 1)] /\ pos'[r] = pos[r] + 1
      /\ out' \in [Reports -> [CohortCustomers -> Answers \cup {NoAnswer}]]
      /\ \A c \in CohortCustomers :
            out'[r][c] = IF c = Cohort[pos[r]] THEN answer[r].text ELSE out[r][c]
      /\ step' \in [Reports -> {"idle", "lookup", "put"} \cup Asking \cup Sampling \cup EndStates]
      /\ \/ step'[r] = "sample" /\ pos[r] = Len(Cohort)
         \/ step'[r] = "lookup" /\ pos'[r] <= Len(Cohort)
  BY <1>1, <1>3, DiagnosedMoves
<1>8. /\ meter[r].n \in Nat /\ meter[r].hits \in Nat /\ meter[r].cheap \in Nat /\ meter[r].esc \in Nat
      /\ meter \in [Reports -> Meter]
  BY DEF CostTypeOK, Meter
<1>9. /\ meter' \in [Reports -> Meter]
      /\ meter'[r].n = meter[r].n + 1 /\ meter'[r].hits = meter[r].hits
      /\ meter'[r].cheap \in Nat /\ meter'[r].esc \in Nat
      /\ meter'[r].cheap + meter'[r].esc = meter[r].cheap + meter[r].esc + 1
  <2>1. meter' = [meter EXCEPT ![r] = Recorded(meter[r], answer[r].role)]
    BY DEF Put
  <2>2. CASE answer[r].role = "cheap"
    <3>1. meter'[r] = [n |-> meter[r].n + 1, hits |-> meter[r].hits,
                       cheap |-> meter[r].cheap + 1, esc |-> meter[r].esc]
      BY <1>8, <2>1, <2>2 DEF Recorded
    <3>2. meter'[r] \in Meter
      BY <1>8, <3>1 DEF Meter
    <3> QED BY <1>8, <2>1, <3>1, <3>2
  <2>3. CASE answer[r].role = "large"
    <3>1. meter'[r] = [n |-> meter[r].n + 1, hits |-> meter[r].hits,
                       cheap |-> meter[r].cheap, esc |-> meter[r].esc + 1]
      BY <1>8, <2>1, <2>3 DEF Recorded
    <3>2. meter'[r] \in Meter
      BY <1>8, <3>1 DEF Meter
    <3> QED BY <1>8, <2>1, <3>1, <3>2
  <2> QED BY <1>3, <2>2, <2>3
<1>10. CostTypeOK'
  <2>1. answer' \in [Reports -> Answered \cup {NoAnswer}] /\ missedAt' \in [Reports -> Nat]
    BY <1>1 DEF CostTypeOK, Answered
  <2> QED BY <1>1, <1>6, <1>7, <1>9, <2>1 DEF CostTypeOK, Answered
<1>11. Drift(r)'
  <2>1. Similarity[Shape(r)][row.shape] >= Threshold
    <3>1. Similarity[Shape(r)][Shape(r)] = 100 /\ Threshold \in 0..100
      BY <1>2, CostReportAssumption
    <3>2. 100 >= Threshold
      BY ONLY <3>1
    <3> QED BY <1>5, <3>1, <3>2
  <2>2. ASSUME NEW c \in CohortCustomers, out'[r][c] # NoAnswer
        PROVE  \E x \in Rows' : /\ x.answer = out'[r][c]
                               /\ Similarity[ShapeOf[c]][x.shape] >= Threshold
    <3>1. CASE c = Cohort[pos[r]]
      BY <1>5, <1>6, <1>7, <2>1, <3>1 DEF Shape
    <3>2. CASE c # Cohort[pos[r]]
      BY <1>3, <1>6, <1>7, <2>2, <3>2 DEF ReportInv, Drift
    <3> QED BY <3>1, <3>2
  <2> QED BY <2>2 DEF Drift
<1>12. Metered(r)'
  <2>1. /\ meter[r].n = meter[r].hits + meter[r].cheap + meter[r].esc
        /\ meter[r].n - meter[r].hits = Cardinality(OwnRows(r))
    BY <1>1, <1>3 DEF ReportInv, Metered, EndStates
  <2>2. /\ meter'[r].n = meter'[r].hits + meter'[r].cheap + meter'[r].esc
        /\ meter'[r].n - meter'[r].hits = (meter[r].n - meter[r].hits) + 1
    BY ONLY <1>8, <1>9, <2>1, MeterStep
  <2>3. meter'[r].n = pos[r]
    BY <1>2, <1>9
  <2>4. Cardinality(OwnRows(r)') = Cardinality(OwnRows(r)) + 1
    <3>1. IsFiniteSet(OwnRows(r))
      BY <1>4, OwnRowsFinite
    <3>2. Len(semantic) + 1 \notin OwnRows(r)
      BY <1>6 DEF OwnRows
    <3> QED BY <1>6, <3>1, <3>2, FS_AddElement
  <2> QED BY <1>7, <2>1, <2>2, <2>3, <2>4 DEF Metered, Sampling
<1>13. PaidOnce'
  <2> SUFFICES ASSUME NEW i \in DOMAIN semantic', NEW j \in DOMAIN semantic', i < j
               PROVE  \/ Similarity[semantic'[j].shape][semantic'[i].shape] < Threshold
                      \/ semantic'[j].seen < i /\ semantic'[i].by # semantic'[j].by
    BY DEF PaidOnce
  <2>1. i \in DOMAIN semantic /\ semantic'[i] = semantic[i] /\ i \in Nat
    BY <1>6
  <2>2. CASE j \in DOMAIN semantic
    BY <1>6, <2>1, <2>2 DEF PaidOnce
  <2>3. CASE j \notin DOMAIN semantic
    <3>1. semantic'[j] = row
      BY <1>6, <2>3
    <3>2. CASE i <= missedAt[r]
      BY <1>3, <1>5, <2>1, <3>1, <3>2 DEF Missed
    <3>3. CASE i > missedAt[r]
      BY <1>3, <1>4, <1>5, <2>1, <3>1, <3>3 DEF Missed
    <3> QED BY <1>4, <2>1, <3>2, <3>3
  <2> QED BY <2>2, <2>3
<1>14. ReportInv(r)'
  <2>1. meter'[r].n = pos'[r] - 1
    BY <1>2, <1>7, <1>9
  <2> QED BY <1>7, <1>11, <1>12, <2>1 DEF ReportInv, Diagnosing, Asking
<1>15. OnlyOf(r)
  <2>1. /\ step' = [step EXCEPT ![r] = IF pos[r] = Len(Cohort) THEN "sample" ELSE "lookup"]
        /\ \A o \in Reports \ {r} : pos'[o] = pos[o] /\ out'[o] = out[o]
    BY <1>1 DEF Diagnosed, Goto, CostTypeOK
  <2>2. \A o \in Reports \ {r} : meter'[o] = meter[o]
    BY DEF Put, CostTypeOK
  <2> QED BY <1>1, <1>5, <2>1, <2>2 DEF OnlyOf, CostTypeOK
<1> QED BY <1>10, <1>13, <1>14, <1>15, OthersKeep

LEMMA AskingKeeps ==
    ASSUME CostInv, NEW r \in Reports, Cascade(r)
    PROVE  CostInv'
<1> USE DEF CostInv
<1>1. /\ step[r] \in Asking /\ step[r] # "put"
      /\ UNCHANGED <<pos, semantic, out, meter, sampled, agree, missedAt>>
  BY DEF Cascade, Asking, At, sampling
<1>2. /\ \/ step' = [step EXCEPT ![r] = "put"]
            /\ \E got \in Answered : answer' = [answer EXCEPT ![r] = got]
         \/ step' = [step EXCEPT ![r] = "large"] /\ UNCHANGED answer
  BY DEF Cascade, AnswerCheap, AnswerLarge, Answered, Goto
<1>3. /\ CostTypeOK' /\ step'[r] \in {"put", "large"}
      /\ step'[r] = "put" => answer'[r] \in Answered
  BY <1>1, <1>2 DEF CostTypeOK, Asking, Answered
<1>4. ReportInv(r) /\ ReportStep(r)
  BY DEF ReportStep
<1>5. Missed(r)'
  BY <1>1, <1>4 DEF ReportInv, Missed, Shape
<1>6. ReportInv(r)'
  BY <1>1, <1>3, <1>4, <1>5
    DEF ReportInv, Drift, Metered, Diagnosing, Asking, Sampling, EndStates, Rows, OwnRows
<1> QED BY <1>1, <1>3, <1>4, <1>6, OneReportKeeps

LEMMA SamplingKeeps ==
    ASSUME CostInv, NEW r \in Reports, Sample(r) \/ CascadeAgain(r) \/ Compare(r)
    PROVE  CostInv'
<1> USE DEF CostInv
<1>1. /\ step[r] \in Sampling /\ step[r] # "put"
      /\ step' \in [Reports -> {"idle", "lookup", "put"} \cup Asking \cup Sampling \cup EndStates]
      /\ step'[r] \in Sampling
      /\ UNCHANGED <<pos, semantic, out, meter, missedAt>>
  BY DEF Sample, CascadeAgain, Compare, AnswerCheap, AnswerLarge, Sampling, At, Goto, sampling,
         CostTypeOK
<1>2. ReportInv(r) /\ ReportStep(r)
  BY DEF ReportStep
<1>3. sampled[r] \in 0..SampleSize /\ agree[r] \in 0..SampleSize /\ agree[r] <= sampled[r]
      /\ SampleSize \in Nat /\ Len(Cohort) \in Nat
  BY CohortFacts, CostReportAssumption DEF CostTypeOK
<1>4. /\ sampled' \in [Reports -> 0..SampleSize] /\ agree' \in [Reports -> 0..SampleSize]
      /\ \A o \in Reports : agree'[o] <= sampled'[o]
      /\ answer' \in [Reports -> Answered \cup {NoAnswer}]
      /\ step'[r] \in {"again", "escalated", "forced"} => agree'[r] < sampled'[r]
  <2>1. CASE Sample(r)
    <3>1. sampled' = [sampled EXCEPT ![r] = sampled[r] + 1] /\ UNCHANGED <<agree, answer>>
          /\ sampled[r] # SampleSize
      BY <2>1 DEF Sample, AllSampled
    <3>2. sampled[r] + 1 \in 0..SampleSize /\ agree[r] < sampled[r] + 1
      BY ONLY <1>3, <3>1
    <3>3. sampled'[r] = sampled[r] + 1 /\ \A o \in Reports \ {r} : sampled'[o] = sampled[o]
      BY <3>1 DEF CostTypeOK
    <3>4. sampled' \in [Reports -> 0..SampleSize]
      BY <3>1, <3>2 DEF CostTypeOK
    <3>5. \A o \in Reports : agree'[o] <= sampled'[o]
      BY <1>3, <3>1, <3>2, <3>3 DEF CostTypeOK
    <3> QED BY <3>1, <3>2, <3>3, <3>4, <3>5 DEF CostTypeOK, Answered
  <2>2. CASE CascadeAgain(r)
    <3>1. UNCHANGED <<sampled, agree>> /\ step[r] \in {"again", "escalated"}
      BY <2>2 DEF CascadeAgain, At, sampling
    <3>2. agree[r] < sampled[r]
      BY <1>2, <3>1 DEF ReportInv
    <3>3. answer' \in [Reports -> Answered \cup {NoAnswer}]
      <4>1. \/ UNCHANGED answer
            \/ \E got \in Answered : answer' = [answer EXCEPT ![r] = got]
        BY <2>2 DEF CascadeAgain, AnswerCheap, AnswerLarge, Answered
      <4> QED BY <4>1 DEF CostTypeOK, Answered
    <3> QED BY <3>1, <3>2, <3>3 DEF CostTypeOK
  <2>3. CASE Compare(r)
    <3>1. /\ agree' = [agree EXCEPT ![r] = agree[r] + 1] \/ agree' = agree
          /\ UNCHANGED sampled /\ answer' = [answer EXCEPT ![r] = NoAnswer]
          /\ step[r] = "forced" /\ step' = [step EXCEPT ![r] = "sample"]
      BY <2>3 DEF Compare, At, Goto
    <3>2. agree[r] < sampled[r]
      BY <1>2, <3>1 DEF ReportInv
    <3>3. agree[r] + 1 \in 0..SampleSize /\ agree[r] + 1 <= sampled[r]
      BY ONLY <1>3, <3>2
    <3>4. agree' \in [Reports -> 0..SampleSize] /\ \A o \in Reports : agree'[o] <= sampled'[o]
      BY <3>1, <3>3 DEF CostTypeOK
    <3>5. answer' \in [Reports -> Answered \cup {NoAnswer}] /\ step'[r] = "sample"
      BY <3>1 DEF CostTypeOK, Answered
    <3> QED BY <3>1, <3>4, <3>5 DEF CostTypeOK
  <2> QED BY <2>1, <2>2, <2>3
<1>5. CostTypeOK'
  BY <1>1, <1>4 DEF CostTypeOK, Answered
<1>6. ReportInv(r)'
  BY <1>1, <1>2, <1>4
    DEF ReportInv, Drift, Metered, Diagnosing, Asking, Sampling, EndStates, Rows, OwnRows
<1> QED BY <1>1, <1>2, <1>5, <1>6, OneReportKeeps

\* A report that is over holds nothing.
LEMMA OverKeeps ==
    ASSUME CostInv, NEW r \in Reports, ReportEnds(r) \/ ReportFails(r)
    PROVE  CostInv'
<1> USE DEF CostInv
<1> DEFINE zero == [n |-> 0, cheap |-> 0, hits |-> 0, esc |-> 0]
<1>1. /\ Fresh(r) /\ UNCHANGED semantic
      /\ step' \in [Reports -> {"idle", "lookup", "put"} \cup Asking \cup Sampling \cup EndStates]
      /\ step'[r] \in EndStates
  BY DEF ReportEnds, ReportFails, Fresh, Goto, EndStates, CostTypeOK
<1>2. /\ zero \in Meter /\ 1 \in 1..(Len(Cohort) + 1) /\ 0 \in 0..SampleSize
      /\ [c \in CohortCustomers |-> NoAnswer] \in [CohortCustomers -> Answers \cup {NoAnswer}]
  BY CohortFacts, CostReportAssumption DEF Meter
<1>3. meter' = [meter EXCEPT ![r] = zero] /\ meter'[r] = zero
  BY <1>1 DEF Fresh, CostTypeOK
<1>4. meter' \in [Reports -> Meter]
  BY <1>2, <1>3 DEF CostTypeOK
<1> HIDE DEF zero
<1>5. CostTypeOK'
  BY <1>1, <1>2, <1>4 DEF CostTypeOK, Fresh
<1>6. ReportInv(r)'
  <2>1. \A c \in CohortCustomers : out'[r][c] = NoAnswer
    BY <1>1 DEF Fresh, CostTypeOK
  <2>2. meter'[r].n = meter'[r].hits + meter'[r].cheap + meter'[r].esc
    BY <1>3 DEF zero
  <2> QED BY <1>1, <2>1, <2>2
        DEF ReportInv, Drift, Metered, Diagnosing, Asking, Sampling, EndStates
<1>7. OnlyOf(r)
  BY <1>1 DEF ReportEnds, ReportFails, Fresh, Goto, OnlyOf, CostTypeOK
<1>8. \A o \in Reports : ReportInv(o)'
  BY <1>6, <1>7, OthersKeep
<1>9. PaidOnce'
  BY <1>1 DEF PaidOnce
<1> QED BY <1>5, <1>8, <1>9

LEMMA CostInvInit == CostInit => CostInv
<1> SUFFICES ASSUME CostInit PROVE CostInv
  OBVIOUS
<1>1. /\ 1 \in 1..(Len(Cohort) + 1) /\ 0 \in 0..SampleSize /\ 1 <= Len(Cohort)
      /\ <<>> \in Seq(Row) /\ DOMAIN <<>> = {} /\ Cardinality({}) = 0
  BY CohortFacts, FS_EmptySet, EmptySeq, CostReportAssumption
<1>2. CostTypeOK
  BY <1>1 DEF CostInit, CostTypeOK, Meter
<1>3. PaidOnce
  BY <1>1 DEF CostInit, PaidOnce
<1>4. ASSUME NEW r \in Reports PROVE ReportInv(r)
  <2>1. OwnRows(r) = {}
    BY <1>1 DEF CostInit, OwnRows
  <2>2. /\ step[r] = "idle" /\ pos[r] = 1 /\ meter[r].n = 0 /\ meter[r].hits = 0
        /\ meter[r].cheap = 0 /\ meter[r].esc = 0 /\ \A c \in CohortCustomers : out[r][c] = NoAnswer
    BY DEF CostInit
  <2>3. Metered(r)
    BY <1>1, <2>1, <2>2 DEF Metered, Sampling, EndStates
  <2> QED BY <1>1, <2>2, <2>3 DEF ReportInv, Drift, Diagnosing, Asking
<1> QED BY <1>2, <1>3, <1>4 DEF CostInv

LEMMA CostInvNext == CostInv /\ [CostNext]_costVars => CostInv'
<1> SUFFICES ASSUME CostInv, [CostNext]_costVars PROVE CostInv'
  OBVIOUS
<1>1. CASE UNCHANGED costVars
  <2>1. UNCHANGED <<step, pos, answer, semantic, out, meter, sampled, agree, missedAt>>
    BY <1>1 DEF costVars, sampling
  <2>2. CostTypeOK' /\ PaidOnce'
    BY <2>1 DEF CostInv, CostTypeOK, PaidOnce
  <2>3. ASSUME NEW r \in Reports PROVE ReportInv(r)'
    <3>1. ReportInv(r) /\ Shape(r)' = Shape(r) /\ Rows' = Rows /\ OwnRows(r)' = OwnRows(r)
      BY <2>1 DEF CostInv, Rows, OwnRows, Shape
    <3>2. /\ Drift(r) => Drift(r)'
          /\ Metered(r) => Metered(r)'
          /\ Missed(r) => Missed(r)'
      BY <2>1, <3>1 DEF Drift, Metered, Missed
    <3> QED BY <2>1, <3>1, <3>2 DEF ReportInv
  <2> QED BY <2>2, <2>3 DEF CostInv
<1> QED BY <1>1, StartKeeps, HitKeeps, MissKeeps, PutKeeps, AskingKeeps, SamplingKeeps, OverKeeps
        DEF CostNext, ReportStep

\* cost/meter.py:1: no counter of a report leaves its range.
THEOREM CostTypeCorrect == CostSpec => []CostTypeOK
<1>1. CostInv => CostTypeOK
  BY DEF CostInv
<1> QED BY <1>1, CostInvInit, CostInvNext, PTL DEF CostSpec

\* cost/cache.py:3, graph/batch_diagnose.py:3, cost/meter.py:1: for every cohort
\* and every similarity of its texts, a diagnosis is reused for near shapes only,
\* two answers are paid for where one would do only by reports side by side, and
\* every report's meter adds up, however many there are and however they fail.
THEOREM ReuseIsSoundAlways == CostSpec => []ReuseIsSound
<1>1. CostInv => ReuseIsSound
  BY DEF CostInv, ReportInv, Drift, Metered, ReuseIsSound, NoDrift, MeterAddsUp
<1> QED BY <1>1, CostInvInit, CostInvNext, PTL DEF CostSpec

-----------------------------------------------------------------------------
(* BanditStore.  The rows of a save: what a tenant's posterior is after any   *)
(* overlap of saves and any number of deaths.                                *)

LEMMA ArmsFinite ==
    IsFiniteSet(KnownArms) /\ Cardinality(KnownArms) <= Len(ArmOrder)
<1>1. /\ ArmOrder \in Seq(KnownArms) /\ Len(ArmOrder) \in Nat
      /\ DOMAIN ArmOrder = 1..Len(ArmOrder)
  BY BanditAssumption
<1>2. ArmOrder \in Surjection(1..Len(ArmOrder), KnownArms)
  BY <1>1 DEF KnownArms, Surjection
<1>3. /\ IsFiniteSet(1..Len(ArmOrder))
      /\ Cardinality(1..Len(ArmOrder)) =
            IF 1 > Len(ArmOrder) THEN 0 ELSE Len(ArmOrder) - 1 + 1
  BY <1>1, FS_Interval
<1>4. IsFiniteSet(KnownArms) /\ Cardinality(KnownArms) <= Cardinality(1..Len(ArmOrder))
  BY <1>2, <1>3, FS_Surjection
<1> QED BY <1>1, <1>3, <1>4

\* A command that has upserted as many rows as there are arms holds them all.
LEMMA AllUpserted ==
    ASSUME NEW w, Upserted(w) = Len(ArmOrder)
    PROVE  \A arm \in KnownArms : rowLock[arm] = w
<1> DEFINE held == {arm \in KnownArms : rowLock[arm] = w}
<1>1. IsFiniteSet(KnownArms) /\ Cardinality(KnownArms) <= Len(ArmOrder)
  BY ArmsFinite
<1>2. /\ Cardinality(held) <= Cardinality(KnownArms)
      /\ Cardinality(KnownArms) = Cardinality(held) => KnownArms = held
  BY <1>1, FS_Subset
<1>3. /\ Cardinality(held) = Len(ArmOrder)
      /\ Cardinality(KnownArms) \in Nat /\ Len(ArmOrder) \in Nat
  BY <1>1, FS_CardinalityType, BanditAssumption DEF Upserted
<1>4. KnownArms = held
  BY <1>1, <1>2, <1>3
<1> QED BY <1>4

\* The inductive invariant of BanditStore.

\* A belief whose sums and counts speak of the same updates.
Sums(belief) ==
    \A arm \in KnownArms : /\ belief[arm].A = belief[arm].b
                           /\ belief[arm].n = Cardinality(belief[arm].b)

\* What the commit of a finished save left.
Committed(belief) ==
    belief = AllPrior \/ \E w \in Writers : at[w] = "done" /\ belief = mine[w]

SumsInv == Sums(posterior) /\ \A c \in Commands : Sums(mine[c])

\* The table is as one finished save left it, and so is what readers have of it.
SaveInv ==
    /\ Committed(posterior)
    /\ \A c \in Readers : Committed(mine[c])

\* An update is in no belief before its command has made it.
FreshInv ==
    \A w \in Writers : at[w] \in {"idle", "loaded"} =>
        /\ \A arm \in KnownArms : w \notin posterior[arm].b
        /\ \A c \in Commands, arm \in KnownArms : w \notin mine[c][arm].b

\* A row is locked by a transaction that writes what its command holds.
LockInv ==
    \A w \in Writers, arm \in KnownArms : rowLock[arm] = w =>
        at[w] = "saving" /\ written[w][arm] = mine[w][arm]

\* What is committed and not overwritten is in the table, and is in what each
\* command under way has loaded, or was committed since.
MissedInv ==
    /\ saved \ lost \subseteq Updates(posterior)
    /\ \A w \in Writers : at[w] \in {"loaded", "saving"} =>
          saved \ lost \subseteq Updates(mine[w]) \cup missed[w]

BanditInv ==
    /\ BanditTypeOK
    /\ SumsInv /\ SaveInv /\ FreshInv /\ LockInv /\ MissedInv

LEMMA BanditInvImplies ==
    BanditInv => BanditTypeOK /\ RowsOfOneSave /\ LostOnlyToOverlap
<1> SUFFICES ASSUME BanditInv
             PROVE  BanditTypeOK /\ RowsOfOneSave /\ LostOnlyToOverlap
  OBVIOUS
<1>1. ASSUME NEW belief, Sums(belief), Committed(belief) PROVE OfOneSave(belief)
  BY <1>1 DEF Sums, Committed, OfOneSave
<1>2. Sums(posterior) /\ Committed(posterior)
  BY DEF BanditInv, SumsInv, SaveInv
<1>3. \A c \in Readers : Sums(mine[c]) /\ Committed(mine[c])
  BY DEF BanditInv, SumsInv, SaveInv, Commands
<1> QED BY <1>1, <1>2, <1>3 DEF BanditInv, MissedInv, RowsOfOneSave, LostOnlyToOverlap

LEMMA PriorBelief ==
    /\ AllPrior \in [KnownArms -> Belief]
    /\ Sums(AllPrior)
    /\ \A arm \in KnownArms : AllPrior[arm].b = {}
BY FS_EmptySet DEF AllPrior, Prior, Belief, Sums

LEMMA BanditInvInit == BanditInit => BanditInv
<1> SUFFICES ASSUME BanditInit PROVE BanditInv
  OBVIOUS
<1>1. BanditTypeOK
  BY PriorBelief DEF BanditInit, BanditTypeOK
<1>2. SumsInv /\ SaveInv /\ FreshInv
  <2>1. posterior = AllPrior /\ \A c \in Commands : mine[c] = AllPrior
    BY DEF BanditInit
  <2>2. SumsInv
    BY <2>1, PriorBelief DEF SumsInv
  <2>3. SaveInv
    BY <2>1 DEF SaveInv, Committed, Commands
  <2>4. FreshInv
    BY <2>1, PriorBelief DEF FreshInv
  <2> QED BY <2>2, <2>3, <2>4
<1>3. LockInv
  BY BanditAssumption DEF BanditInit, LockInv, Commands
<1>4. MissedInv
  BY DEF BanditInit, MissedInv, Commands
<1> QED BY <1>1, <1>2, <1>3, <1>4 DEF BanditInv

\* Its steps.

LEMMA LoadKeeps ==
    ASSUME BanditInv, NEW c \in Commands, LoadPosterior(c)
    PROVE  BanditInv'
<1> USE DEF BanditInv
<1>1. /\ mine' = [mine EXCEPT ![c] = posterior]
      /\ at' = [at EXCEPT ![c] = IF c \in Writers THEN "loaded" ELSE "done"]
      /\ UNCHANGED <<posterior, rowLock, written, missed, lost, saved>>
      /\ at[c] = "idle" /\ Writers \subseteq Commands /\ Readers \subseteq Commands
  BY DEF LoadPosterior, Commands
<1>2. BanditTypeOK'
  BY <1>1 DEF BanditTypeOK
<1>3. \A d \in Commands : mine'[d] = IF d = c THEN posterior ELSE mine[d]
  BY <1>1 DEF BanditTypeOK
<1>4. \A d \in Commands : at'[d] = IF d = c THEN IF c \in Writers THEN "loaded" ELSE "done"
                                   ELSE at[d]
  BY <1>1 DEF BanditTypeOK
<1>5. SumsInv'
  BY <1>1, <1>3 DEF SumsInv, Sums
<1>6. ASSUME NEW belief, Committed(belief)
      PROVE  Committed(belief)'
  BY <1>1, <1>3, <1>4, <1>6 DEF Committed
<1>7. SaveInv'
  <2>1. Committed(posterior)'
    BY <1>1, <1>6 DEF SaveInv, Committed
  <2>2. ASSUME NEW d \in Readers PROVE Committed(mine[d])'
    BY <1>1, <1>3, <1>6, <2>1 DEF SaveInv, Committed
  <2> QED BY <2>1, <2>2 DEF SaveInv
<1>8. FreshInv'
  BY <1>1, <1>3, <1>4 DEF FreshInv
<1>9. LockInv'
  BY <1>1, <1>3, <1>4 DEF LockInv
<1>10. MissedInv'
  BY <1>1, <1>3, <1>4 DEF MissedInv, Updates
<1> QED BY <1>2, <1>5, <1>7, <1>8, <1>9, <1>10

LEMMA RunOneKeeps ==
    ASSUME BanditInv, NEW w \in Writers, RunOne(w)
    PROVE  BanditInv'
<1> USE DEF BanditInv
<1>1. /\ at' = [at EXCEPT ![w] = "saving"] /\ at[w] = "loaded"
      /\ UNCHANGED <<posterior, rowLock, written, missed, lost, saved>>
      /\ w \in Commands /\ Writers \subseteq Commands
      /\ IsFiniteSet(Writers)
  BY FS_Subset, BanditAssumption DEF RunOne, Commands
<1>2. \/ UNCHANGED mine
      \/ \E arm \in KnownArms : mine' = [mine EXCEPT ![w] = Updated(@, arm, w)]
  BY DEF RunOne
<1>3. ASSUME NEW arm \in KnownArms, mine' = [mine EXCEPT ![w] = Updated(@, arm, w)]
      PROVE  BanditInv'
  <2> DEFINE new == Updated(mine[w], arm, w)
  <2>1. mine[w] \in [KnownArms -> Belief] /\ Sums(mine[w])
    BY <1>1 DEF BanditTypeOK, SumsInv
  <2>2. /\ \A a \in KnownArms \ {arm} : new[a] = mine[w][a]
        /\ new[arm] = [A |-> mine[w][arm].A \cup {w}, b |-> mine[w][arm].b \cup {w},
                       n |-> mine[w][arm].n + 1]
        /\ new = [mine[w] EXCEPT ![arm] = new[arm]]
    BY <2>1 DEF Updated, Belief
  <2>3. new \in [KnownArms -> Belief]
    <3>1. new[arm] \in Belief
      BY <2>1, <2>2 DEF Belief
    <3> HIDE DEF new
    <3> QED BY <2>1, <2>2, <3>1
  <2>4. Sums(new)
    <3>1. mine[w][arm].b \in SUBSET Writers /\ w \notin mine[w][arm].b
      BY <1>1, <2>1 DEF Belief, FreshInv
    <3>2. Cardinality(mine[w][arm].b \cup {w}) = Cardinality(mine[w][arm].b) + 1
      BY <1>1, <3>1, FS_Subset, FS_AddElement
    <3>3. /\ new[arm].A = mine[w][arm].A \cup {w}
          /\ new[arm].b = mine[w][arm].b \cup {w}
          /\ new[arm].n = mine[w][arm].n + 1
      BY <2>2
    <3> HIDE DEF new
    <3> QED BY <2>1, <2>2, <3>2, <3>3 DEF Sums
  <2>5. \A c \in Commands : mine'[c] = IF c = w THEN new ELSE mine[c]
    BY <1>1, <1>3 DEF BanditTypeOK
  <2>6. Updates(new) = Updates(mine[w]) \cup {w}
    <3> HIDE DEF new
    <3> QED BY <2>2 DEF Updates
  <2> HIDE DEF new
  <2>7. BanditTypeOK'
    BY <1>1, <1>3, <2>3, <2>5 DEF BanditTypeOK, new
  <2>8. SumsInv'
    BY <1>1, <2>4, <2>5 DEF SumsInv, Sums
  <2>9. \A d \in Commands : at'[d] = IF d = w THEN "saving" ELSE at[d]
    BY <1>1 DEF BanditTypeOK
  <2>10. ASSUME NEW belief, Committed(belief) PROVE Committed(belief)'
    BY <1>1, <2>5, <2>9, <2>10 DEF Committed
  <2>11. SaveInv'
    <3>1. \A d \in Readers : mine'[d] = mine[d]
      BY <2>5, BanditAssumption DEF Commands
    <3> QED BY <1>1, <2>10, <3>1 DEF SaveInv, Committed
  <2>12. FreshInv'
    <3>1. ASSUME NEW v \in Writers, at'[v] \in {"idle", "loaded"},
                 NEW c \in Commands, NEW a \in KnownArms
          PROVE  v \notin mine'[c][a].b
      <4>1. v # w /\ at[v] \in {"idle", "loaded"}
        BY <1>1, <2>9, <3>1
      <4>2. v \notin mine[c][a].b
        BY <4>1 DEF FreshInv
      <4> QED BY <2>2, <2>5, <4>1, <4>2
    <3> QED BY <1>1, <2>9, <3>1 DEF FreshInv
  <2>13. LockInv'
    BY <1>1, <2>5, <2>9 DEF LockInv
  <2>14. MissedInv'
    BY <1>1, <2>5, <2>6, <2>9 DEF MissedInv, Updates
  <2> QED BY <2>7, <2>8, <2>11, <2>12, <2>13, <2>14
<1>4. CASE UNCHANGED mine
  <2>1. BanditTypeOK'
    BY <1>1, <1>4 DEF BanditTypeOK
  <2>2. SumsInv' /\ SaveInv'
    BY <1>1, <1>4 DEF SumsInv, Sums, SaveInv, Committed, BanditTypeOK
  <2>3. FreshInv' /\ LockInv'
    BY <1>1, <1>4 DEF FreshInv, LockInv, BanditTypeOK
  <2>4. MissedInv'
    BY <1>1, <1>4 DEF MissedInv, Updates, BanditTypeOK
  <2> QED BY <2>1, <2>2, <2>3, <2>4
<1> QED BY <1>2, <1>3, <1>4

LEMMA UpsertKeeps ==
    ASSUME BanditInv, NEW w \in Writers, Upsert(w)
    PROVE  BanditInv'
<1> USE DEF BanditInv
<1>1. PICK arm \in KnownArms :
        /\ rowLock[arm] = Nobody
        /\ rowLock' = [rowLock EXCEPT ![arm] = w]
        /\ written' = [written EXCEPT ![w][arm] = mine[w][arm]]
  <2> DEFINE next == ArmOrder[Upserted(w) + 1]
  <2>1. /\ rowLock[next] = Nobody
        /\ rowLock' = [rowLock EXCEPT ![next] = w]
        /\ written' = [written EXCEPT ![w][next] = mine[w][next]]
    BY DEF Upsert
  <2>2. next \in KnownArms
    <3>1. IsFiniteSet(KnownArms)
      BY ArmsFinite
    <3>2. Upserted(w) \in Nat
      BY <3>1, FS_Subset, FS_CardinalityType DEF Upserted
    <3>3. Upserted(w) + 1 \in DOMAIN ArmOrder
      BY <3>2, BanditAssumption DEF Upsert
    <3> QED BY <3>3 DEF KnownArms
  <2> QED BY <2>1, <2>2
<1>2. /\ at[w] = "saving" /\ w \in Commands
      /\ UNCHANGED <<at, mine, posterior, missed, lost, saved>>
  BY DEF Upsert, Commands
<1>3. mine[w] \in [KnownArms -> Belief]
  BY <1>2 DEF BanditTypeOK
<1>4. /\ rowLock' \in [KnownArms -> Writers \cup {Nobody}]
      /\ written' \in [Writers -> [KnownArms -> Belief]]
  BY <1>1, <1>3 DEF BanditTypeOK
<1>5. BanditTypeOK'
  BY <1>2, <1>4 DEF BanditTypeOK
<1>6. SumsInv' /\ SaveInv' /\ FreshInv' /\ MissedInv'
  BY <1>2 DEF SumsInv, Sums, SaveInv, Committed, FreshInv, MissedInv, Updates
<1>7. LockInv'
  <2>1. ASSUME NEW v \in Writers, NEW a \in KnownArms, rowLock'[a] = v
        PROVE  at[v] = "saving" /\ written'[v][a] = mine[v][a]
    <3>1. CASE a = arm
      <4>1. v = w
        BY <1>1, <2>1, <3>1 DEF BanditTypeOK
      <4> QED BY <1>1, <1>2, <3>1, <4>1 DEF BanditTypeOK
    <3>2. CASE a # arm
      <4>1. rowLock[a] = v /\ written'[v][a] = written[v][a]
        BY <1>1, <2>1, <3>2 DEF BanditTypeOK
      <4> QED BY <4>1 DEF LockInv
    <3> QED BY <3>1, <3>2
  <2> QED BY <1>2, <2>1 DEF LockInv
<1> QED BY <1>5, <1>6, <1>7

\* A commit replaces the whole table with what its command holds.
LEMMA CommitReplaces ==
    ASSUME BanditInv, NEW w \in Writers, CommitSave(w)
    PROVE  posterior' = mine[w]
<1>1. \A arm \in KnownArms : rowLock[arm] = w
  BY AllUpserted DEF CommitSave
<1>2. mine[w] \in [KnownArms -> Belief]
  BY DEF BanditInv, BanditTypeOK, Commands
<1>3. posterior' = [arm \in KnownArms |-> written[w][arm]]
  BY <1>1 DEF CommitSave
<1>4. \A arm \in KnownArms : written[w][arm] = mine[w][arm]
  BY <1>1 DEF BanditInv, LockInv
<1> QED BY <1>2, <1>3, <1>4

LEMMA CommitKeeps ==
    ASSUME BanditInv, NEW w \in Writers, CommitSave(w)
    PROVE  BanditInv'
<1> USE DEF BanditInv
<1>1. /\ at[w] = "saving" /\ w \in Commands /\ Writers \subseteq Commands
      /\ Readers \subseteq Commands /\ Writers \cap Readers = {}
      /\ at' = [at EXCEPT ![w] = "done"] /\ UNCHANGED mine
      /\ written' = [written EXCEPT ![w] = AllPrior]
      /\ saved' = saved \cup (Updates(mine[w]) \cap {w})
      /\ lost' = lost \cup missed[w]
  BY BanditAssumption DEF CommitSave, Commands
<1>2. \A arm \in KnownArms : rowLock[arm] = w
  BY AllUpserted DEF CommitSave
<1>3. \A arm \in KnownArms : rowLock'[arm] = Nobody
  BY <1>2 DEF CommitSave, Release
<1>4. posterior' = mine[w]
  BY CommitReplaces
<1>5. \A c \in Commands : at'[c] = IF c = w THEN "done" ELSE at[c]
  BY <1>1 DEF BanditTypeOK
<1>6. \A c \in Commands :
        missed'[c] = IF at[c] \in {"idle", "done", "dead"} \/ c = w THEN missed[c]
                     ELSE missed[c] \cup (Updates(mine[w]) \cap {w})
  BY DEF CommitSave
<1>7. BanditTypeOK'
  <2>1. missed' \in [Commands -> SUBSET Writers]
    <3>1. DOMAIN missed' = Commands /\ missed' = [c \in Commands |-> missed'[c]]
      BY DEF CommitSave
    <3>2. \A c \in Commands : missed'[c] \in SUBSET Writers
      BY <1>6 DEF BanditTypeOK
    <3> QED BY <3>1, <3>2
  <2>2. rowLock' \in [KnownArms -> Writers \cup {Nobody}]
    BY DEF CommitSave, Release, BanditTypeOK
  <2>3. posterior' \in [KnownArms -> Belief]
    BY <1>1, <1>4 DEF BanditTypeOK
  <2>4. lost' \subseteq Writers /\ saved' \subseteq Writers
    BY <1>1 DEF BanditTypeOK
  <2>5. written' \in [Writers -> [KnownArms -> Belief]]
    BY <1>1, PriorBelief DEF BanditTypeOK
  <2>6. at' \in [Commands -> {"idle", "loaded", "saving", "done", "dead"}]
    BY <1>1 DEF BanditTypeOK
  <2> QED BY <1>1, <2>1, <2>2, <2>3, <2>4, <2>5, <2>6 DEF BanditTypeOK
<1>8. SumsInv'
  BY <1>1, <1>4 DEF SumsInv, Sums
<1>9. SaveInv'
  <2>1. ASSUME NEW belief, Committed(belief) PROVE Committed(belief)'
    BY <1>1, <1>5, <2>1 DEF Committed
  <2>2. Committed(posterior)'
    BY <1>1, <1>4, <1>5 DEF Committed
  <2> QED BY <1>1, <2>1, <2>2 DEF SaveInv, Committed
<1>10. FreshInv'
  BY <1>1, <1>4, <1>5 DEF FreshInv
<1>11. LockInv'
  <2>1. Nobody \notin Writers
    BY BanditAssumption DEF Commands
  <2> QED BY <1>3, <2>1 DEF LockInv
<1>12. MissedInv'
  <2>1. saved' \ lost' \subseteq Updates(mine[w])
    BY <1>1 DEF MissedInv
  <2>2. ASSUME NEW v \in Writers, at'[v] \in {"loaded", "saving"}
        PROVE  saved' \ lost' \subseteq Updates(mine[v]) \cup missed'[v]
    <3>1. v # w /\ at[v] \in {"loaded", "saving"}
      BY <1>1, <1>5, <2>2
    <3>2. missed'[v] = missed[v] \cup (Updates(mine[w]) \cap {w})
      BY <1>1, <1>6, <3>1
    <3>3. saved \ lost \subseteq Updates(mine[v]) \cup missed[v]
      BY <3>1 DEF MissedInv
    <3> QED BY <1>1, <3>2, <3>3
  <2> QED BY <1>1, <1>4, <2>1, <2>2 DEF MissedInv, Updates
<1> QED BY <1>7, <1>8, <1>9, <1>10, <1>11, <1>12

LEMMA DieKeeps ==
    ASSUME BanditInv, NEW c \in Commands, Die(c)
    PROVE  BanditInv'
<1> USE DEF BanditInv
<1>1. /\ at[c] \notin {"done", "dead"} /\ at' = [at EXCEPT ![c] = "dead"]
      /\ UNCHANGED <<mine, posterior, missed, lost, saved>>
      /\ Writers \subseteq Commands
  BY DEF Die, Commands
<1>2. \A d \in Commands : at'[d] = IF d = c THEN "dead" ELSE at[d]
  BY <1>1 DEF BanditTypeOK
<1>3. /\ rowLock' \in [KnownArms -> Writers \cup {Nobody}]
      /\ written' \in [Writers -> [KnownArms -> Belief]]
  BY PriorBelief DEF Die, Release, BanditTypeOK
<1>4. BanditTypeOK'
  BY <1>1, <1>3 DEF BanditTypeOK
<1>5. SumsInv' /\ FreshInv'
  BY <1>1, <1>2 DEF SumsInv, Sums, FreshInv
<1>6. SaveInv'
  BY <1>1, <1>2 DEF SaveInv, Committed
<1>7. MissedInv'
  BY <1>1, <1>2 DEF MissedInv, Updates
<1>8. LockInv'
  <2>1. ASSUME NEW v \in Writers, NEW arm \in KnownArms, rowLock'[arm] = v
        PROVE  v # c /\ rowLock[arm] = v /\ written'[v] = written[v]
    <3>1. Nobody \notin Writers
      BY BanditAssumption DEF Commands
    <3>2. CASE c \in Writers
      BY <2>1, <3>1, <3>2 DEF Die, Release, BanditTypeOK
    <3>3. CASE c \notin Writers
      BY <2>1, <3>3 DEF Die
    <3> QED BY <3>2, <3>3
  <2> QED BY <1>1, <1>2, <2>1 DEF LockInv
<1> QED BY <1>4, <1>5, <1>6, <1>7, <1>8

LEMMA BanditInvNext == BanditInv /\ [BanditNext]_banditVars => BanditInv'
<1> SUFFICES ASSUME BanditInv, [BanditNext]_banditVars PROVE BanditInv'
  OBVIOUS
<1>1. CASE BanditNext
  BY <1>1, LoadKeeps, RunOneKeeps, UpsertKeeps, CommitKeeps, DieKeeps
  DEF BanditNext, WriterStep
<1>2. CASE UNCHANGED banditVars
  <2> USE <1>2 DEF banditVars, BanditInv
  <2>1. BanditTypeOK'
    BY DEF BanditTypeOK
  <2>2. SumsInv' /\ SaveInv'
    BY DEF SumsInv, Sums, SaveInv, Committed
  <2>3. FreshInv' /\ LockInv' /\ MissedInv'
    BY DEF FreshInv, LockInv, MissedInv, Updates
  <2> QED BY <2>1, <2>2, <2>3
<1> QED BY <1>1, <1>2

\* brain/bandit.py:93-149: the table, what commands hold of it and the rows of
\* open transactions keep their shapes whoever saves, loads or dies.
THEOREM BanditTypeCorrect == BanditSpec => []BanditTypeOK
<1> QED BY BanditInvInit, BanditInvNext, BanditInvImplies, PTL DEF BanditSpec

\* brain/bandit.py:93-116: whatever number of commands save at the same time or
\* die in a save, the rows of the table, and what a reader gets, are those of one
\* finished save, with sums and counts of the same updates.
THEOREM RowsOfOneSaveAlways == BanditSpec => []RowsOfOneSave
<1> QED BY BanditInvInit, BanditInvNext, BanditInvImplies, PTL DEF BanditSpec

\* brain/bandit.py:93: a committed update is lost only to the save of a command
\* that had loaded before the commit.
THEOREM LostOnlyToOverlapAlways == BanditSpec => []LostOnlyToOverlap
<1> QED BY BanditInvInit, BanditInvNext, BanditInvImplies, PTL DEF BanditSpec

\* brain/bandit.py:93-149: the table is to its readers what PosteriorStore promises.
\* Every step is a load, a save of the whole table, a lesson or a death there; the
\* upserts before a commit cannot be seen.
THEOREM BanditImplementsStore == BanditSpec => ImplementsStore
<1> USE DEF Store!Load, Store!Train, Store!Save, Store!GiveUp, Store!storeVars, Doing
<1>1. BanditInit => Store!Init
  BY DEF BanditInit, Store!Init
<1>2. BanditInv /\ [BanditNext]_banditVars => [Store!Next]_(Store!storeVars)
  <2> SUFFICES ASSUME BanditInv, [BanditNext]_banditVars
               PROVE  [Store!Next]_(Store!storeVars)
    OBVIOUS
  <2> DEFINE doing == [c \in Commands |-> Doing(c)]
  <2>1. /\ at \in [Commands -> {"idle", "loaded", "saving", "done", "dead"}]
        /\ mine \in [Commands -> [KnownArms -> Belief]]
        /\ Writers \subseteq Commands
    BY DEF BanditInv, BanditTypeOK, Commands
  <2>2. ASSUME NEW c \in Commands, LoadPosterior(c) PROVE Store!Load(c)
    <3>1. /\ at[c] = "idle" /\ mine' = [mine EXCEPT ![c] = posterior] /\ UNCHANGED posterior
          /\ at' = [at EXCEPT ![c] = IF c \in Writers THEN "loaded" ELSE "done"]
      BY <2>2 DEF LoadPosterior
    <3>2. doing' = [doing EXCEPT ![c] = IF c \in Writers THEN "working" ELSE "over"]
      BY <2>1, <3>1
    <3> QED BY <2>1, <3>1, <3>2
  <2>3. ASSUME NEW c \in Commands, Die(c) PROVE Store!GiveUp(c)
    <3>1. /\ at[c] \notin {"done", "dead"} /\ UNCHANGED <<mine, posterior>>
          /\ at' = [at EXCEPT ![c] = "dead"]
      BY <2>3 DEF Die
    <3>2. doing' = [doing EXCEPT ![c] = "over"] /\ doing[c] # "over"
      BY <2>1, <3>1
    <3> QED BY <3>1, <3>2
  <2>4. ASSUME NEW w \in Writers, RunOne(w) PROVE Store!Train(w)
    <3>1. /\ at[w] = "loaded" /\ at' = [at EXCEPT ![w] = "saving"] /\ UNCHANGED posterior
          /\ \A c \in Commands \ {w} : mine'[c] = mine[c]
      BY <2>1, <2>4 DEF RunOne
    <3>2. doing' = doing /\ doing[w] = "working"
      BY <2>1, <3>1
    <3> QED BY <3>1, <3>2
  <2>5. ASSUME NEW w \in Writers, Upsert(w) PROVE UNCHANGED Store!storeVars
    BY <2>5 DEF Upsert
  <2>6. ASSUME NEW w \in Writers, CommitSave(w) PROVE Store!Save(w)
    <3>1. /\ at[w] = "saving" /\ at' = [at EXCEPT ![w] = "done"] /\ UNCHANGED mine
      BY <2>6 DEF CommitSave
    <3>2. posterior' = mine[w]
      BY <2>6, CommitReplaces
    <3>3. doing' = [doing EXCEPT ![w] = "over"] /\ doing[w] = "working"
      BY <2>1, <3>1
    <3> QED BY <3>1, <3>2, <3>3
  <2>7. CASE UNCHANGED banditVars
    BY <2>7 DEF banditVars
  <2> QED
    BY <2>1, <2>2, <2>3, <2>4, <2>5, <2>6, <2>7 DEF BanditNext, WriterStep, Store!Next
<1> QED
  BY <1>1, <1>2, BanditInvInit, BanditInvNext, PTL DEF BanditSpec, ImplementsStore, Store!Spec

-----------------------------------------------------------------------------
(* The commands side by side, as the lab run checks them.  A step is of one   *)
(* part and leaves the variables of the others alone.                         *)

\* Whatever part moves, every other part stutters.
LEMMA OnePartMoves ==
    ASSUME [Next]_partVars
    PROVE  /\ [CostNext]_costVars /\ [ExperimentNext]_experimentVars /\ [BanditNext]_banditVars
           /\ [GoldenNext]_goldenVars /\ [MemoryNext]_memoryVars
<1> USE DEF costPart, labPart, banditPart, goldenPart, memoryPart,
            costVars, sampling, experimentVars, world, command, cut, banditVars, goldenVars, memoryVars,
            tenantVars, scanVars
<1>1. CASE UNCHANGED partVars
  BY <1>1 DEF partVars, NotCost
<1>2. CASE CostNext /\ UNCHANGED NotCost
  BY <1>2 DEF NotCost
<1>3. CASE ExperimentNext /\ UNCHANGED NotLab
  BY <1>3 DEF NotLab
<1>4. CASE BanditNext /\ UNCHANGED NotBandit
  BY <1>4 DEF NotBandit
<1>5. CASE GoldenNext /\ UNCHANGED NotGolden
  BY <1>5 DEF NotGolden
<1>6. CASE MemoryNext /\ UNCHANGED NotMemory
  BY <1>6 DEF NotMemory
<1> QED BY <1>1, <1>2, <1>3, <1>4, <1>5, <1>6 DEF Next

\* Each command behaves, beside the others, as its own module specifies: what is
\* proved of a command alone holds of it in the laboratory.
THEOREM CommandsSideBySide ==
    FairSpec => CostSpec /\ ExperimentSpec /\ BanditSpec /\ GoldenSpec /\ MemorySpec
<1>1. Init => CostInit /\ ExperimentInit /\ BanditInit /\ GoldenInit /\ MemoryInit
  BY DEF Init
<1>2. [Next]_partVars =>
        /\ [CostNext]_costVars /\ [ExperimentNext]_experimentVars /\ [BanditNext]_banditVars
        /\ [GoldenNext]_goldenVars /\ [MemoryNext]_memoryVars
  BY OnePartMoves
<1> QED
  BY <1>1, <1>2, PTL
  DEF FairSpec, CostSpec, ExperimentSpec, BanditSpec, GoldenSpec, MemorySpec

\* The types of the five commands: no counter of a report, a score or a posterior
\* leaves its range, whatever way its command ends.
THEOREM LabTypeCorrect == FairSpec => []LabTypeOK
<1>1. CostTypeOK /\ ExperimentTypeOK /\ BanditTypeOK /\ GoldenTypeOK /\ MemoryTypeOK
      => LabTypeOK
  BY DEF LabTypeOK
<1> QED
  BY <1>1, CommandsSideBySide, CostTypeCorrect, ExperimentTypeCorrect, BanditTypeCorrect,
     GoldenTypeCorrect, MemoryTypeCorrect, PTL
=============================================================================
