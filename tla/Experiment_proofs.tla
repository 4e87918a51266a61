--------------------------- MODULE Experiment_proofs ---------------------------
(***************************************************************************)
(* Proofs about Experiment, for every population, world, policy and        *)
(* budget, on top of what a sum over a finite set is.                      *)
(***************************************************************************)
EXTENDS Experiment, TLAPS, FiniteSetTheorems, SequenceTheorems, WellFoundedInduction,
        NaturalsInduction

-----------------------------------------------------------------------------
(* Totals over finite sets, as the fold of SpendOf makes them.                 *)

\* The smallest of a set of natural numbers.
LEMMA Smallest ==
    ASSUME NEW S \in SUBSET Nat, S # {}
    PROVE  \E n \in S : \A k \in S : n <= k
<1>1. PICK n \in S : \A k \in S : <<k, n>> \notin OpToRel(<, Nat)
  BY NatLessThanWellFounded, WFMin, Zenon
<1>2. \A k \in S : ~(k < n)
  BY <1>1 DEF OpToRel
<1> QED BY <1>2

\* Of finite sets, one has the fewest elements; a counterexample with the fewest
\* elements is how the facts below are shown.
LEMMA SmallestSet ==
    ASSUME NEW B, B # {}, \A s \in B : IsFiniteSet(s)
    PROVE  \E s \in B : \A t \in B : Cardinality(s) <= Cardinality(t)
<1> DEFINE sizes == {Cardinality(s) : s \in B}
<1>1. sizes \in SUBSET Nat /\ sizes # {}
  BY FS_CardinalityType
<1> HIDE DEF sizes
<1>2. PICK n \in sizes : \A k \in sizes : n <= k
  BY <1>1, Smallest
<1> QED BY <1>2 DEF sizes

\* A set with one element less is smaller.
LEMMA OneLess ==
    ASSUME NEW S, IsFiniteSet(S), NEW x \in S
    PROVE  /\ IsFiniteSet(S \ {x}) /\ Cardinality(S \ {x}) < Cardinality(S)
           /\ Cardinality(S) \in Nat /\ Cardinality(S \ {x}) \in Nat
BY FS_RemoveElement, FS_CardinalityType

\* SpendOf's fold: a customer the fold chooses first, and the sum of the others.
Some(s) == CHOOSE x \in s : TRUE
TotalStep(recs, sums, s) == IF s = {} THEN 0 ELSE recs[Some(s)].spend + sums[s \ {Some(s)}]
AreTotals(recs, sums, D) == sums = [s \in D |-> TotalStep(recs, sums, s)]
Totals(recs, S) == CHOOSE sums : AreTotals(recs, sums, SUBSET S)

LEMMA SpendUnfolds ==
    ASSUME NEW recs, NEW S
    PROVE  SpendOf(recs, S) = Totals(recs, S)[S]
BY DEF SpendOf, MapThenSumSet, MapThenFoldSet, Some, Totals, AreTotals, TotalStep

LEMMA SomeIn == ASSUME NEW s, s # {} PROVE Some(s) \in s
BY DEF Some

\* The recursion of the sum has a solution: one for the sets of up to n elements
\* extends to those of n + 1.
LEMMA TotalsExist ==
    ASSUME NEW recs, NEW S, IsFiniteSet(S)
    PROVE  AreTotals(recs, Totals(recs, S), SUBSET S)
<1> DEFINE UpTo(n) == {s \in SUBSET S : Cardinality(s) <= n}
           bad == {n \in Nat : ~\E sums : AreTotals(recs, sums, UpTo(n))}
<1>1. \A s \in SUBSET S : IsFiniteSet(s) /\ Cardinality(s) \in Nat /\ Cardinality(s) <= Cardinality(S)
  BY FS_Subset, FS_CardinalityType
<1>2. ASSUME NEW s \in SUBSET S, s # {}
      PROVE  s \ {Some(s)} \in SUBSET S /\ Cardinality(s \ {Some(s)}) < Cardinality(s)
  BY <1>1, <1>2, SomeIn, OneLess
<1>3. 0 \notin bad
  <2> DEFINE sums == [s \in UpTo(0) |-> 0]
  <2>1. \A s \in UpTo(0) : s = {}
    BY <1>1, FS_EmptySet
  <2>2. sums = [s \in UpTo(0) |-> TotalStep(recs, sums, s)]
    BY <2>1 DEF TotalStep
  <2> HIDE DEF sums
  <2> QED BY <2>2 DEF AreTotals
<1>4. ASSUME NEW n \in Nat, n \notin bad PROVE n + 1 \notin bad
  <2>1. PICK sums : AreTotals(recs, sums, UpTo(n))
    BY <1>4
  <2> DEFINE more == [s \in UpTo(n + 1) |-> TotalStep(recs, sums, s)]
  <2>2. \A s \in UpTo(n) : more[s] = sums[s]
    BY <1>1, <2>1 DEF AreTotals
  <2>3. ASSUME NEW s \in UpTo(n + 1) PROVE TotalStep(recs, sums, s) = TotalStep(recs, more, s)
    <3>1. s # {} => s \ {Some(s)} \in UpTo(n)
      BY <1>1, <1>2
    <3> HIDE DEF more, UpTo
    <3> QED BY <2>2, <3>1 DEF TotalStep
  <2>4. more = [s \in UpTo(n + 1) |-> TotalStep(recs, more, s)]
    <3> DEFINE step(s) == TotalStep(recs, sums, s)
    <3> QED BY <2>3
  <2> HIDE DEF more, UpTo
  <2> QED BY <2>4 DEF AreTotals
<1>5. bad = {}
  <2> SUFFICES ASSUME bad # {} PROVE FALSE
    OBVIOUS
  <2>1. bad \in SUBSET Nat
    OBVIOUS
  <2> HIDE DEF bad
  <2>2. PICK n \in bad : \A k \in bad : n <= k
    BY <2>1, Smallest
  <2>3. n \in Nat /\ n # 0
    BY <1>3, <2>1
  <2>4. n - 1 \in Nat /\ n - 1 \notin bad
    BY <2>2, <2>3
  <2>5. (n - 1) + 1 \notin bad
    BY <1>4, <2>4
  <2> QED BY <2>3, <2>5
<1>6. UpTo(Cardinality(S)) = SUBSET S
  BY <1>1
<1>7. Cardinality(S) \in Nat
  BY FS_CardinalityType
<1>8. \E sums : AreTotals(recs, sums, SUBSET S)
  BY <1>5, <1>6, <1>7
<1> QED BY <1>8 DEF Totals

\* The recursion, one set at a time.
LEMMA TotalsAt ==
    ASSUME NEW recs, NEW S, IsFiniteSet(S), NEW s \in SUBSET S
    PROVE  Totals(recs, S)[s] = TotalStep(recs, Totals(recs, S), s)
<1> DEFINE sums == Totals(recs, S)
<1>1. AreTotals(recs, sums, SUBSET S)
  BY TotalsExist
<1> HIDE DEF sums
<1>2. sums[s] = TotalStep(recs, sums, s)
  BY <1>1 DEF AreTotals
<1> QED BY <1>2 DEF sums

\* Nobody spends nothing.
LEMMA SpendEmpty == ASSUME NEW recs PROVE SpendOf(recs, {}) = 0
<1>1. Totals(recs, {})[{}] = TotalStep(recs, Totals(recs, {}), {})
  BY TotalsAt, FS_EmptySet
<1> QED BY <1>1, SpendUnfolds DEF TotalStep

\* Over which set the recursion is unfolded makes no difference.
LEMMA TotalsAgree ==
    ASSUME NEW recs, NEW S, IsFiniteSet(S), NEW T \in SUBSET S
    PROVE  Totals(recs, S)[T] = SpendOf(recs, T)
<1> DEFINE bad == {s \in SUBSET T : Totals(recs, S)[s] # Totals(recs, T)[s]}
<1>1. IsFiniteSet(T) /\ \A s \in bad : IsFiniteSet(s)
  BY FS_Subset
<1>2. /\ \A s \in SUBSET S : Totals(recs, S)[s] = TotalStep(recs, Totals(recs, S), s)
      /\ \A s \in SUBSET T : Totals(recs, T)[s] = TotalStep(recs, Totals(recs, T), s)
  BY <1>1, TotalsAt
<1>3. bad = {}
  <2> SUFFICES ASSUME bad # {} PROVE FALSE
    OBVIOUS
  <2>1. PICK s \in bad : \A t \in bad : Cardinality(s) <= Cardinality(t)
    BY <1>1, SmallestSet
  <2>2. s # {}
    BY <1>2 DEF TotalStep
  <2>3. s \ {Some(s)} \in SUBSET T /\ s \ {Some(s)} \notin bad
    BY <1>1, <2>1, <2>2, SomeIn, OneLess
  <2>4. TotalStep(recs, Totals(recs, S), s) = TotalStep(recs, Totals(recs, T), s)
    BY <2>3 DEF TotalStep
  <2> QED BY <1>2, <2>4
<1> QED BY <1>3, SpendUnfolds

\* A sum is what the chosen one spent and the sum of the others.
LEMMA SpendSome ==
    ASSUME NEW recs, NEW S, IsFiniteSet(S), S # {}
    PROVE  SpendOf(recs, S) = recs[Some(S)].spend + SpendOf(recs, S \ {Some(S)})
<1>1. Totals(recs, S)[S] = TotalStep(recs, Totals(recs, S), S)
  BY TotalsAt
<1>2. Totals(recs, S)[S \ {Some(S)}] = SpendOf(recs, S \ {Some(S)})
  BY TotalsAgree
<1> QED BY <1>1, <1>2, SpendUnfolds DEF TotalStep

\* A sum of costs is a cost.
LEMMA SpendNat ==
    ASSUME NEW recs, NEW S, IsFiniteSet(S), \A c \in S : recs[c].spend \in Nat
    PROVE  SpendOf(recs, S) \in Nat
<1> DEFINE bad == {s \in SUBSET S : SpendOf(recs, s) \notin Nat}
<1>1. \A s \in SUBSET S : IsFiniteSet(s)
  BY FS_Subset
<1> SUFFICES ASSUME bad # {} PROVE FALSE
  OBVIOUS
<1>2. PICK s \in bad : \A t \in bad : Cardinality(s) <= Cardinality(t)
  BY <1>1, SmallestSet
<1>3. s # {}
  BY <1>2, SpendEmpty
<1>4. Some(s) \in s /\ s \ {Some(s)} \in SUBSET S /\ s \ {Some(s)} \notin bad
  BY <1>1, <1>2, <1>3, SomeIn, OneLess
<1>5. SpendOf(recs, s) = recs[Some(s)].spend + SpendOf(recs, s \ {Some(s)})
  BY <1>1, <1>3, SpendSome
<1> QED BY <1>4, <1>5

\* Whoever else is taken out first, the sum is the same.
LEMMA SpendOne ==
    ASSUME NEW recs, NEW S, IsFiniteSet(S), \A c \in S : recs[c].spend \in Nat, NEW x \in S
    PROVE  SpendOf(recs, S) = recs[x].spend + SpendOf(recs, S \ {x})
<1> DEFINE bad == {s \in SUBSET S : \E y \in s : SpendOf(recs, s) # recs[y].spend + SpendOf(recs, s \ {y})}
<1>1. \A s \in SUBSET S : IsFiniteSet(s) /\ SpendOf(recs, s) \in Nat
  BY FS_Subset, SpendNat
<1>2. bad = {}
  <2> SUFFICES ASSUME bad # {} PROVE FALSE
    OBVIOUS
  <2>1. PICK s \in bad : \A t \in bad : Cardinality(s) <= Cardinality(t)
    BY <1>1, SmallestSet
  <2>2. PICK y \in s : SpendOf(recs, s) # recs[y].spend + SpendOf(recs, s \ {y})
    BY <2>1
  <2> DEFINE z == Some(s)
  <2>3. z \in s
    BY SomeIn
  <2>4. SpendOf(recs, s) = recs[z].spend + SpendOf(recs, s \ {z})
    BY <1>1, SpendSome
  <2> HIDE DEF z
  <2>5. y # z
    BY <2>2, <2>4
  <2>6. s \ {y} \notin bad /\ s \ {z} \notin bad
    <3>1. /\ Cardinality(s \ {y}) < Cardinality(s) /\ Cardinality(s \ {z}) < Cardinality(s)
          /\ Cardinality(s) \in Nat /\ Cardinality(s \ {y}) \in Nat /\ Cardinality(s \ {z}) \in Nat
      BY <1>1, <2>3, OneLess
    <3> HIDE DEF bad
    <3> QED BY <2>1, <3>1
  <2>7. /\ SpendOf(recs, s \ {z}) = recs[y].spend + SpendOf(recs, (s \ {z}) \ {y})
        /\ SpendOf(recs, s \ {y}) = recs[z].spend + SpendOf(recs, (s \ {y}) \ {z})
    BY <2>3, <2>5, <2>6
  <2>8. (s \ {z}) \ {y} = (s \ {y}) \ {z}
    OBVIOUS
  <2>9. /\ recs[y].spend \in Nat /\ recs[z].spend \in Nat
        /\ SpendOf(recs, (s \ {y}) \ {z}) \in Nat
    BY <1>1, <2>3
  <2> DEFINE left == SpendOf(recs, (s \ {y}) \ {z})
  <2>10. /\ SpendOf(recs, s) = recs[z].spend + (recs[y].spend + left)
         /\ SpendOf(recs, s \ {y}) = recs[z].spend + left
    BY <2>4, <2>7, <2>8
  <2> HIDE DEF bad, left
  <2>11. left \in Nat
    BY <2>9 DEF left
  <2> QED BY <2>2, <2>9, <2>10, <2>11
<1> QED BY <1>2

\* The more each has spent, the more all have.
LEMMA SpendGrows ==
    ASSUME NEW recs, NEW more, NEW S, IsFiniteSet(S),
           \A c \in S : recs[c].spend \in Nat /\ more[c].spend \in Nat
                        /\ recs[c].spend <= more[c].spend
    PROVE  SpendOf(recs, S) <= SpendOf(more, S)
<1> DEFINE bad == {s \in SUBSET S : ~(SpendOf(recs, s) <= SpendOf(more, s))}
<1>1. \A s \in SUBSET S : IsFiniteSet(s) /\ SpendOf(recs, s) \in Nat /\ SpendOf(more, s) \in Nat
  BY FS_Subset, SpendNat
<1> SUFFICES ASSUME bad # {} PROVE FALSE
  OBVIOUS
<1>2. PICK s \in bad : \A t \in bad : Cardinality(s) <= Cardinality(t)
  BY <1>1, SmallestSet
<1>3. s # {}
  BY <1>2, SpendEmpty
<1> DEFINE z == Some(s)
<1>4. z \in s /\ s \ {z} \in SUBSET S /\ s \ {z} \notin bad
  BY <1>1, <1>2, <1>3, SomeIn, OneLess
<1>5. /\ SpendOf(recs, s) = recs[z].spend + SpendOf(recs, s \ {z})
      /\ SpendOf(more, s) = more[z].spend + SpendOf(more, s \ {z})
  BY <1>1, <1>3, SpendSome
<1> HIDE DEF z
<1>6. SpendOf(recs, s \ {z}) <= SpendOf(more, s \ {z})
  BY <1>4
<1>7. /\ recs[z].spend \in Nat /\ more[z].spend \in Nat /\ recs[z].spend <= more[z].spend
      /\ SpendOf(recs, s \ {z}) \in Nat /\ SpendOf(more, s \ {z}) \in Nat
  BY <1>1, <1>4
<1>8. SpendOf(recs, s) <= SpendOf(more, s)
  BY <1>5, <1>6, <1>7
<1> QED BY <1>2, <1>8

\* Equal amounts make equal sums.
LEMMA SpendSame ==
    ASSUME NEW recs, NEW others, NEW S, IsFiniteSet(S),
           \A c \in S : recs[c].spend \in Nat /\ others[c].spend = recs[c].spend
    PROVE  SpendOf(others, S) = SpendOf(recs, S)
<1>1. \A c \in S : /\ recs[c].spend \in Nat /\ others[c].spend \in Nat
                   /\ recs[c].spend <= others[c].spend /\ others[c].spend <= recs[c].spend
  OBVIOUS
<1>2. SpendOf(recs, S) <= SpendOf(others, S) /\ SpendOf(others, S) <= SpendOf(recs, S)
  BY <1>1, SpendGrows
<1>3. SpendOf(recs, S) \in Nat /\ SpendOf(others, S) \in Nat
  BY <1>1, SpendNat
<1> QED BY <1>2, <1>3

\* Those who have spent nothing do not count.
LEMMA SpendOfSpenders ==
    ASSUME NEW recs, NEW T, IsFiniteSet(T), \A c \in T : recs[c].spend \in Nat,
           NEW S \in SUBSET T, \A c \in T \ S : recs[c].spend = 0
    PROVE  SpendOf(recs, T) = SpendOf(recs, S)
<1> DEFINE bad == {s \in SUBSET T : S \subseteq s /\ SpendOf(recs, s) # SpendOf(recs, S)}
<1>1. \A s \in SUBSET T : IsFiniteSet(s) /\ SpendOf(recs, s) \in Nat
  BY FS_Subset, SpendNat
<1> SUFFICES ASSUME bad # {} PROVE FALSE
  OBVIOUS
<1>2. PICK s \in bad : \A t \in bad : Cardinality(s) <= Cardinality(t)
  BY <1>1, SmallestSet
<1>3. PICK x \in s : x \notin S
  BY <1>2
<1>4. SpendOf(recs, s) = recs[x].spend + SpendOf(recs, s \ {x})
  BY <1>1, <1>2, SpendOne
<1>5. s \ {x} \notin bad
  BY <1>1, <1>2, <1>3, OneLess
<1>6. SpendOf(recs, s \ {x}) = SpendOf(recs, S)
  BY <1>2, <1>3, <1>5
<1>7. recs[x].spend = 0 /\ SpendOf(recs, s \ {x}) \in Nat
  BY <1>1, <1>2, <1>3
<1>8. SpendOf(recs, s) = SpendOf(recs, S)
  BY <1>4, <1>6, <1>7
<1> QED BY <1>2, <1>8

LEMMA SpendNothing ==
    ASSUME NEW recs, NEW S, IsFiniteSet(S), \A c \in S : recs[c].spend = 0
    PROVE  SpendOf(recs, S) = 0
BY SpendOfSpenders, SpendEmpty

-----------------------------------------------------------------------------
(* Experiment.  The records of a rung are functions of the world's streams    *)
(* and of who was contacted with what, so two rungs can be compared customer *)
(* by customer; the budget and its cut only decide who is contacted.  What      *)
(* they decide is CutInv.                                                    *)

FollowsStreams(recs) ==
    \A c \in Customers :
        /\ recs[c].churned = (streams[c].churn < ChurnLogit(c, recs[c].arm, recs[c].accepted))
        /\ recs[c].accepted => recs[c].arm # None
        /\ c \in holdout => recs[c].arm = None

\* What each customer's record is to spend, and whose value is no less than c's.
Purse == [c \in Customers |-> [spend |-> IF c \in won THEN wanted[c].cost ELSE 0]]
Worthier(c) == {d \in Customers : Profile[d].clv >= Profile[c].clv}

\* The cut goes down by value, so whoever is passed over has been so after worthier
\* customers only, whose offers could not be paid for together with his.
CutInv ==
    /\ looked \subseteq Candidates
    /\ phase = "decide" /\ turn <= Len(Population) => looked = {}
    /\ spend = SpendOf(Purse, Customers)
    /\ budget # None =>
          /\ spend <= budget
          /\ \A c \in looked, d \in Waiting : Profile[c].clv >= Profile[d].clv
          /\ \A c \in looked \ won : SpendOf(Purse, Worthier(c)) + wanted[c].cost > budget
    /\ Scored =>
          /\ Waiting = {}
          /\ \A c \in Customers :
                /\ records[c].spend = Purse[c].spend
                /\ c \in won => records[c].arm # None

ExperimentInv ==
    /\ ExperimentTypeOK /\ CutInv
    /\ mode # "idle" => todo # <<>>
    /\ \A c \in Customers : c \in holdout => wanted[c] = None
    /\ mode # "idle" /\ Head(todo) = "noaction" => \A c \in Customers : wanted[c] = None
    /\ Scored => records \in [Customers -> Record] /\ FollowsStreams(records)
    /\ baseline # None => FollowsStreams(baseline) /\ \A c \in Customers : baseline[c].arm = None

LEMMA PopulationFacts ==
    /\ Len(Population) \in Nat /\ DOMAIN Population = 1..Len(Population)
    /\ \A i \in 1..Len(Population) : Population[i] \in Customers
    /\ IsFiniteSet(Customers)
<1>1. Population \in Seq(Customers)
  BY ExperimentAssumption
<1>2. /\ Len(Population) \in Nat /\ DOMAIN Population = 1..Len(Population)
      /\ Population \in [1..Len(Population) -> Customers]
  BY <1>1
<1>3. Population \in Surjection(1..Len(Population), Customers)
  BY <1>2 DEF Surjection, Customers
<1>4. IsFiniteSet(1..Len(Population))
  BY <1>2, FS_Interval
<1> QED BY <1>2, <1>3, <1>4, FS_Surjection

LEMMA RungFacts == RUNGS \in Seq(RungNames) /\ RUNGS # <<>>
<1>1. RUNGS = <<"noaction", "rules", "risk_rules", "agent_s1", "agent">>
  BY DEF RUNGS
<1>2. DOMAIN RUNGS = 1..5
  BY <1>1
<1>3. \A i \in 1..5 : RUNGS[i] \in RungNames
  BY <1>2 DEF RungNames
<1>4. RUNGS \in Seq(RungNames)
  <2>1. /\ RUNGS[1] = "noaction" /\ RUNGS[2] = "rules" /\ RUNGS[3] = "risk_rules"
        /\ RUNGS[4] = "agent_s1" /\ RUNGS[5] = "agent"
    BY <1>1
  <2>2. {"noaction", "rules", "risk_rules", "agent_s1", "agent"} \subseteq RungNames
    BY <1>3, <2>1
  <2> QED BY <1>1, <2>2
<1> QED BY <1>1, <1>4

\* What a policy answers is an offer of the catalog or none, and the no-action
\* rung never answers one.
LEMMA PolicyAnswers ==
    ASSUME NEW rung \in RungNames, NEW c \in Customers
    PROVE  /\ DecidesOf(rung, c) \subseteq Decision \cup {None}
           /\ rung = "noaction" => DecidesOf(rung, c) \subseteq {None}
<1>1. FixedCredit \in Decision
  BY ExperimentAssumption DEF FixedCredit, Decision
<1>2. ASSUME NEW final \in GraphEnds PROVE Surfaced(final) \in Decision \cup {None}
  <2>1. final.offer \in Decision \cup {None}
    BY ExperimentAssumption DEF GraphEnds, Decision
  <2> QED BY <2>1 DEF Surfaced
<1>3. DecidesOf(rung, c) \subseteq Decision \cup {None}
  BY <1>1, <1>2 DEF DecidesOf
<1>4. rung = "noaction" => DecidesOf(rung, c) \subseteq {None}
  BY DEF DecidesOf, RuleDecides
<1> QED BY <1>3, <1>4

\* The records of a rung are those of the world.
LEMMA RealizeFollows ==
    ASSUME ExperimentInv
    PROVE  /\ Realize \in [Customers -> Record]
           /\ FollowsStreams(Realize)
           /\ (\A c \in Customers : wanted[c] = None) =>
                 \A c \in Customers : Realize[c].arm = None
<1>1. won \subseteq {c \in Customers : wanted[c] # None}
  BY DEF ExperimentInv, ExperimentTypeOK, CutInv, Candidates
<1>2. ASSUME NEW c \in Customers
      PROVE  /\ Realize[c] \in Record
             /\ Realize[c].churned =
                  (streams[c].churn < ChurnLogit(c, Realize[c].arm, Realize[c].accepted))
             /\ Realize[c].accepted => Realize[c].arm # None
             /\ wanted[c] = None => Realize[c].arm = None
  <2> DEFINE arm == IF c \in won THEN wanted[c].arm ELSE None
             paid == IF c \in won THEN wanted[c].cost ELSE 0
             became == Outcome(c, arm)
  <2>1. Realize[c] = [arm |-> arm, accepted |-> became.accepted, churned |-> became.churned,
                      spend |-> paid]
    BY DEF Realize
  <2>2. wanted[c] \in Decision \cup {None}
    BY DEF ExperimentInv, ExperimentTypeOK
  <2>3. arm \in OfferArms \cup {None} /\ paid \in Nat
    BY <1>1, <2>2 DEF Decision
  <2>4. wanted[c] = None => arm = None
    BY <1>1
  <2> HIDE DEF arm, paid
  <2>5. /\ became.accepted \in BOOLEAN /\ became.churned \in BOOLEAN
        /\ became.accepted => arm # None
        /\ became.churned = (streams[c].churn < ChurnLogit(c, arm, became.accepted))
    <3> DEFINE yes == arm # None /\ streams[c].accept < AcceptLogit(c, arm)
               leaves == streams[c].churn < ChurnLogit(c, arm, yes)
    <3>1. became = [accepted |-> yes, churned |-> leaves]
      BY DEF Outcome
    <3>2. yes \in BOOLEAN /\ leaves \in BOOLEAN /\ (yes => arm # None)
      OBVIOUS
    <3>3. leaves = (streams[c].churn < ChurnLogit(c, arm, yes))
      OBVIOUS
    <3> HIDE DEF yes, leaves, became
    <3>4. became.accepted = yes /\ became.churned = leaves
      BY <3>1
    <3> QED BY <3>2, <3>3, <3>4
  <2> HIDE DEF became
  <2> QED BY <2>1, <2>3, <2>4, <2>5 DEF Record
<1>3. Realize = [c \in Customers |-> Realize[c]]
  BY DEF Realize
<1>4. Realize \in [Customers -> Record]
  BY <1>2, <1>3
<1>5. FollowsStreams(Realize)
  BY <1>2 DEF FollowsStreams, ExperimentInv
<1> QED BY <1>2, <1>4, <1>5

LEMMA ExperimentInvInit == ExperimentInit => ExperimentInv
<1> SUFFICES ASSUME ExperimentInit PROVE ExperimentInv
  OBVIOUS
<1>1. ExperimentTypeOK
  BY PopulationFacts, ExperimentAssumption DEF ExperimentInit, ExperimentTypeOK
<1>2. SpendOf(Purse, Customers) = 0
  BY PopulationFacts, SpendNothing DEF ExperimentInit, Purse
<1>3. CutInv
  BY <1>2 DEF CutInv, ExperimentInit, Scored
<1> QED BY <1>1, <1>3 DEF ExperimentInit, ExperimentInv, Scored

\* The world does not change, so what follows its streams goes on doing so.
LEMMA WorldStays ==
    ASSUME UNCHANGED world, NEW recs, FollowsStreams(recs)
    PROVE  FollowsStreams(recs)'
BY DEF world, FollowsStreams, ChurnLogit, OfferEffect, EventsOf

\* Only candidates who won their offer spend.
LEMMA PurseFacts ==
    ASSUME ExperimentInv
    PROVE  /\ \A c \in Customers : Purse[c].spend \in Nat /\ (c \notin won => Purse[c].spend = 0)
           /\ \A c \in Candidates : wanted[c] \in Decision /\ wanted[c].cost \in Nat
           /\ won \subseteq looked /\ looked \subseteq Candidates /\ Candidates \subseteq Customers
<1>1. won \subseteq looked /\ looked \subseteq Candidates /\ Candidates \subseteq Customers
  BY DEF ExperimentInv, ExperimentTypeOK, CutInv, Candidates
<1>2. \A c \in Candidates : wanted[c] \in Decision /\ wanted[c].cost \in Nat
  BY DEF ExperimentInv, ExperimentTypeOK, Candidates, Decision
<1> QED BY <1>1, <1>2 DEF Purse

\* A grant adds its cost to what is spent, and so keeps what was spent before.
LEMMA GrantSpends ==
    ASSUME ExperimentInv, NEW c \in Candidates, c \notin looked, UNCHANGED wanted, won' = won \cup {c}
    PROVE  /\ SpendOf(Purse', Customers) = SpendOf(Purse, Customers) + wanted[c].cost
           /\ \A S \in SUBSET Customers :
                 SpendOf(Purse, S) <= SpendOf(Purse', S) /\ SpendOf(Purse, S) \in Nat
                 /\ SpendOf(Purse', S) \in Nat
<1>1. /\ c \in Customers /\ c \notin won /\ wanted[c].cost \in Nat
      /\ Purse[c].spend = 0 /\ Purse'[c].spend = wanted[c].cost
      /\ \A d \in Customers : Purse[d].spend \in Nat
  BY PurseFacts DEF Purse
<1>2. \A d \in Customers \ {c} : Purse'[d].spend = Purse[d].spend
  BY DEF Purse
<1>3. \A d \in Customers : Purse'[d].spend \in Nat /\ Purse[d].spend <= Purse'[d].spend
  BY <1>1, <1>2
<1>4. IsFiniteSet(Customers) /\ \A S \in SUBSET Customers : IsFiniteSet(S)
  BY PopulationFacts, FS_Subset
<1>5. \A S \in SUBSET Customers :
        SpendOf(Purse, S) <= SpendOf(Purse', S) /\ SpendOf(Purse, S) \in Nat
        /\ SpendOf(Purse', S) \in Nat
  <2> TAKE S \in SUBSET Customers
  <2> DEFINE before == Purse
             after == Purse'
  <2>1. \A d \in S : /\ before[d].spend \in Nat /\ after[d].spend \in Nat
                     /\ before[d].spend <= after[d].spend
    BY <1>1, <1>3
  <2> HIDE DEF before, after
  <2>2. SpendOf(before, S) <= SpendOf(after, S)
    BY <1>4, <2>1, SpendGrows
  <2>3. SpendOf(before, S) \in Nat /\ SpendOf(after, S) \in Nat
    BY <1>4, <2>1, SpendNat
  <2> QED BY <2>2, <2>3 DEF before, after
<1>6. SpendOf(Purse, Customers) = 0 + SpendOf(Purse, Customers \ {c})
  BY <1>1, <1>4, SpendOne
<1>7. SpendOf(Purse', Customers) = wanted[c].cost + SpendOf(Purse', Customers \ {c})
  BY <1>1, <1>3, <1>4, SpendOne
<1>8. SpendOf(Purse', Customers \ {c}) = SpendOf(Purse, Customers \ {c})
  BY <1>1, <1>2, <1>4, SpendSame
<1>9. SpendOf(Purse, Customers \ {c}) \in Nat
  BY <1>5
<1> QED BY <1>1, <1>5, <1>6, <1>7, <1>8, <1>9

\* The part of a step's proof that is about the cut.
LEMMA CutKeeps ==
    ASSUME ExperimentInv, [ExperimentNext]_experimentVars
    PROVE  CutInv' /\ looked' \subseteq Customers /\ won' \subseteq looked' /\ spend' \in Nat
<1> USE DEF ExperimentInv
<1>1. /\ budget \in Nat \cup {None} /\ spend \in Nat
      /\ \A c \in Customers : Profile[c].clv \in Nat
      /\ looked \subseteq Customers /\ won \subseteq looked
      /\ Len(Population) \in Nat /\ turn \in Nat
  BY PopulationFacts, ExperimentAssumption DEF ExperimentTypeOK, ProfileOf
<1>2. IsFiniteSet(Customers) /\ \A S \in SUBSET Customers : IsFiniteSet(S)
  BY PopulationFacts, FS_Subset
<1>3. ASSUME looked' = {}, won' = {}, spend' = 0, phase' = "decide",
             budget' \in Nat \cup {None}
      PROVE  CutInv' /\ looked' \subseteq Customers /\ won' \subseteq looked' /\ spend' \in Nat
  <2>1. \A c \in Customers : Purse'[c].spend = 0
    BY <1>3 DEF Purse
  <2>2. SpendOf(Purse', Customers) = 0
    BY <1>2, <2>1, SpendNothing
  <2>3. (SpendOf(Purse, Customers))' = 0
    BY <2>2
  <2> QED BY <1>3, <2>3 DEF CutInv, Scored
<1>4. CASE \/ (\E rung \in RungNames, cap \in Budgets : StartExperiment(rung, cap))
           \/ StartAblation \/ Score \/ AgentFails
  <2>1. Begin /\ budget' \in Nat \cup {None}
    BY <1>1, <1>4, ExperimentAssumption DEF StartExperiment, StartAblation, Score, AgentFails
  <2> QED BY <1>3, <2>1 DEF Begin
<1>5. CASE Withhold \/ Decide
  <2>1. /\ phase = "decide" /\ turn <= Len(Population)
        /\ UNCHANGED <<phase, looked, won, spend, budget>>
    BY <1>5 DEF Withhold, Decide, Deciding, command, cut
  <2>2. looked = {} /\ won = {}
    BY <1>1, <2>1 DEF CutInv
  <2>3. \A c \in Customers : Purse[c].spend = 0
    BY <2>2 DEF Purse
  <2>4. spend = 0
    BY <1>2, <2>3, SpendNothing DEF CutInv
  <2> QED BY <1>1, <1>3, <2>1, <2>2, <2>4
<1>6. ASSUME NEW c \in Customers, CutNext(c)
      PROVE  /\ c \in Candidates /\ c \notin looked /\ wanted[c].cost \in Nat
             /\ looked' = looked \cup {c} /\ phase' = "decide" /\ turn' > Len(Population)
             /\ UNCHANGED <<phase, turn, budget, wanted>>
             /\ Candidates' = Candidates /\ Waiting' = Waiting \ {c}
             /\ looked' \subseteq Candidates
             /\ budget # None =>
                   /\ \A d \in looked', e \in Waiting' : Profile[d].clv >= Profile[e].clv
                   /\ looked \subseteq Worthier(c)
  <2>1. /\ c \in Waiting /\ \A d \in Waiting \ {c} : Ahead(c, d)
        /\ looked' = looked \cup {c} /\ phase = "decide" /\ turn > Len(Population)
        /\ UNCHANGED <<phase, turn, budget, wanted>>
    BY <1>6 DEF CutNext, command
  <2>2. Candidates' = Candidates /\ c \in Candidates /\ c \notin looked
    BY <2>1 DEF Candidates, Waiting
  <2>3. wanted[c].cost \in Nat /\ looked \subseteq Candidates /\ Candidates \subseteq Customers
    BY <2>2, PurseFacts
  <2>4. Waiting' = Waiting \ {c} /\ Waiting \subseteq Customers
    BY <2>1, <2>2, <2>3 DEF Waiting
  <2>5. ASSUME budget # None
        PROVE  /\ \A d \in looked', e \in Waiting' : Profile[d].clv >= Profile[e].clv
               /\ looked \subseteq Worthier(c)
    <3>1. \A e \in Waiting \ {c} : Profile[c].clv >= Profile[e].clv
      BY <1>1, <2>1, <2>4, <2>5 DEF Ahead
    <3>2. \A d \in looked, e \in Waiting : Profile[d].clv >= Profile[e].clv
      BY <2>5 DEF CutInv
    <3>3. looked \subseteq Worthier(c)
      BY <1>1, <2>1, <3>2 DEF Worthier
    <3> QED BY <2>1, <2>4, <3>1, <3>2, <3>3
  <2> QED BY <2>1, <2>2, <2>3, <2>4, <2>5
<1>7. ASSUME NEW c \in Customers, Grant(c)
      PROVE  CutInv' /\ looked' \subseteq Customers /\ won' \subseteq looked' /\ spend' \in Nat
  <2>1. CutNext(c) /\ Fits(c) /\ won' = won \cup {c} /\ spend' = spend + wanted[c].cost
    BY <1>7 DEF Grant
  <2>2. /\ c \in Candidates /\ c \notin looked /\ wanted[c].cost \in Nat
        /\ looked' = looked \cup {c} /\ phase' = "decide" /\ turn' > Len(Population)
        /\ UNCHANGED <<phase, turn, budget, wanted>>
        /\ Candidates' = Candidates /\ looked' \subseteq Candidates
        /\ budget # None =>
                   \A d \in looked', e \in Waiting' : Profile[d].clv >= Profile[e].clv
    BY <1>6, <2>1
  <2>3. SpendOf(Purse', Customers) = SpendOf(Purse, Customers) + wanted[c].cost
    BY <2>1, <2>2, GrantSpends
  <2>4. spend' = SpendOf(Purse', Customers) /\ spend' \in Nat
    BY <1>1, <2>1, <2>2, <2>3 DEF CutInv
  <2>5. budget' # None => spend' <= budget'
    BY <2>1, <2>2 DEF Fits
  <2>6. ASSUME budget' # None, NEW d \in looked' \ won'
        PROVE  SpendOf(Purse', Worthier(d)) + wanted[d].cost > budget'
    <3>1. d \in looked \ won /\ d \in Candidates
      BY <2>1, <2>2
    <3>2. SpendOf(Purse, Worthier(d)) + wanted[d].cost > budget
      BY <2>2, <2>6, <3>1 DEF CutInv
    <3>3. Worthier(d) \in SUBSET Customers
      BY DEF Worthier
    <3>4. /\ SpendOf(Purse, Worthier(d)) <= SpendOf(Purse', Worthier(d))
          /\ SpendOf(Purse, Worthier(d)) \in Nat /\ SpendOf(Purse', Worthier(d)) \in Nat
      BY <2>1, <2>2, <3>3, GrantSpends
    <3>5. wanted[d].cost \in Nat
      BY <3>1, PurseFacts
    <3> DEFINE before == SpendOf(Purse, Worthier(d))
               after == SpendOf(Purse', Worthier(d))
    <3>6. before + wanted[d].cost > budget /\ before <= after /\ before \in Nat /\ after \in Nat
      BY <3>2, <3>4
    <3> HIDE DEF before, after
    <3>7. after + wanted[d].cost > budget
      BY <1>1, <2>2, <2>6, <3>5, <3>6
    <3> QED BY <2>2, <3>7 DEF after
  <2>7. \A d \in looked' \ won' : budget' # None =>
           (SpendOf(Purse, Worthier(d)))' + wanted'[d].cost > budget'
    <3>1. \A d : (Worthier(d))' = Worthier(d)
      BY DEF Worthier
    <3> QED BY <2>2, <2>6, <3>1
  <2>8. (SpendOf(Purse, Customers))' = spend'
    BY <2>4
  <2>9. CutInv'
    BY <1>1, <2>2, <2>5, <2>7, <2>8 DEF CutInv, Scored
  <2> QED BY <1>1, <2>1, <2>2, <2>4, <2>9
<1>8. ASSUME NEW c \in Customers, PassOver(c)
      PROVE  CutInv' /\ looked' \subseteq Customers /\ won' \subseteq looked' /\ spend' \in Nat
  <2>1. CutNext(c) /\ ~Fits(c) /\ UNCHANGED <<won, spend>>
    BY <1>8 DEF PassOver
  <2>2. /\ c \in Candidates /\ c \notin looked /\ wanted[c].cost \in Nat
        /\ looked' = looked \cup {c} /\ phase' = "decide" /\ turn' > Len(Population)
        /\ UNCHANGED <<phase, turn, budget, wanted>>
        /\ Candidates' = Candidates /\ looked' \subseteq Candidates
        /\ budget # None =>
                   /\ \A d \in looked', e \in Waiting' : Profile[d].clv >= Profile[e].clv
                   /\ looked \subseteq Worthier(c)
    BY <1>6, <2>1
  <2>3. budget # None /\ spend + wanted[c].cost > budget
    BY <1>1, <2>1, <2>2 DEF Fits
  <2>4. SpendOf(Purse, Customers) = SpendOf(Purse, Worthier(c))
    <3>1. \A d \in Customers : Purse[d].spend \in Nat /\ (d \notin won => Purse[d].spend = 0)
      BY PurseFacts
    <3>2. Worthier(c) \in SUBSET Customers /\ won \subseteq Worthier(c)
      BY <1>1, <2>2, <2>3 DEF Worthier
    <3> QED BY <1>2, <3>1, <3>2, SpendOfSpenders
  <2>5. spend = SpendOf(Purse, Customers) /\ spend <= budget
    BY <2>3 DEF CutInv
  <2>6. \A d \in looked' \ won' : SpendOf(Purse, Worthier(d)) + wanted[d].cost > budget
    BY <2>1, <2>2, <2>3, <2>4, <2>5 DEF CutInv
  <2>7. Purse' = Purse /\ \A d : (Worthier(d))' = Worthier(d)
    BY <2>1, <2>2 DEF Purse, Worthier
  <2>8. /\ (SpendOf(Purse, Customers))' = spend'
        /\ \A d \in looked' \ won' : (SpendOf(Purse, Worthier(d)))' + wanted'[d].cost > budget'
    BY <2>1, <2>2, <2>5, <2>6, <2>7
  <2>9. CutInv'
    BY <1>1, <2>1, <2>2, <2>5, <2>8 DEF CutInv, Scored
  <2> QED BY <1>1, <2>1, <2>2, <2>9
<1>9. ASSUME UNCHANGED <<looked, won, spend, budget, wanted, turn>>,
             phase' # "decide" \/ phase' = phase,
             Scored' =>
                 /\ Waiting = {}
                 /\ \A c \in Customers : /\ records'[c].spend = Purse[c].spend
                                         /\ c \in won => records'[c].arm # None
      PROVE  CutInv' /\ looked' \subseteq Customers /\ won' \subseteq looked' /\ spend' \in Nat
  <2>1. Purse' = Purse /\ Candidates' = Candidates /\ Waiting' = Waiting
    BY <1>9 DEF Purse, Candidates, Waiting
  <2>2. \A d : (Worthier(d))' = Worthier(d)
    BY DEF Worthier
  <2>3. /\ (SpendOf(Purse, Customers))' = SpendOf(Purse, Customers)
        /\ \A d : (SpendOf(Purse, Worthier(d)))' = SpendOf(Purse, Worthier(d))
    BY <2>1, <2>2
  <2>4. /\ (SpendOf(Purse, Customers))' = spend'
        /\ budget' # None =>
              /\ spend' <= budget' /\ \A c \in looked', d \in Waiting' : Profile[c].clv >= Profile[d].clv
              /\ \A d \in looked' \ won' :
                    (SpendOf(Purse, Worthier(d)))' + wanted'[d].cost > budget'
    BY <1>9, <2>1, <2>3 DEF CutInv
  <2>5. /\ looked' \subseteq Candidates'
        /\ phase' = "decide" /\ turn' <= Len(Population) => looked' = {}
    BY <1>9, <2>1 DEF CutInv
  <2>6. Scored' => /\ Waiting' = {}
                   /\ \A c \in Customers : /\ records'[c].spend = Purse'[c].spend
                                           /\ c \in won' => records'[c].arm # None
    BY <1>9, <2>1
  <2>7. CutInv'
    BY <2>4, <2>5, <2>6 DEF CutInv
  <2> QED BY <1>1, <1>9, <2>7
<1>10. CASE RunArms
  <2>1. /\ phase' = "realize" /\ Waiting = {} /\ records' = Realize
        /\ UNCHANGED <<looked, won, spend, budget, wanted, turn>>
    BY <1>10 DEF RunArms, command, cut
  <2>2. ASSUME NEW c \in Customers
        PROVE  /\ Realize[c].spend = Purse[c].spend
               /\ c \in won => Realize[c].arm # None
    <3>1. /\ Realize[c].spend = IF c \in won THEN wanted[c].cost ELSE 0
          /\ Realize[c].arm = IF c \in won THEN wanted[c].arm ELSE None
      BY DEF Realize
    <3>2. c \in won => wanted[c].arm # None
      BY PurseFacts, ExperimentAssumption DEF Decision
    <3> QED BY <3>1, <3>2 DEF Purse
  <2> QED BY <1>9, <2>1, <2>2
<1>11. CASE UNCHANGED experimentVars
  <2>1. UNCHANGED <<looked, won, spend, budget, wanted, turn, phase, records, mode>>
    BY <1>11 DEF experimentVars, command, cut
  <2>2. Scored' => Scored
    BY <2>1 DEF Scored
  <2> QED BY <1>9, <2>1, <2>2 DEF CutInv
<1> QED BY <1>4, <1>5, <1>7, <1>8, <1>10, <1>11 DEF ExperimentNext

LEMMA ExperimentInvNext ==
    ExperimentInv /\ [ExperimentNext]_experimentVars => ExperimentInv'
<1> SUFFICES ASSUME ExperimentInv, [ExperimentNext]_experimentVars PROVE ExperimentInv'
  OBVIOUS
<1>0. CutInv' /\ looked' \subseteq Customers /\ won' \subseteq looked' /\ spend' \in Nat
  BY CutKeeps
<1> USE DEF ExperimentInv
<1>1. /\ UNCHANGED world /\ holdout' = holdout
      /\ holdout \in Holdouts /\ streams' = streams
      /\ Len(Population) \in Nat
  BY PopulationFacts DEF ExperimentNext, experimentVars, world, StartExperiment, StartAblation,
     Withhold, Decide, Grant, PassOver, CutNext, RunArms, Score, AgentFails, ExperimentTypeOK
<1>2. ASSUME Begin, mode' \in {"idle", "experiment", "ablation"}, todo' \in Seq(RungNames),
             mode' # "idle" => todo' # <<>>, budget' \in Budgets \cup {None},
             started' \in 0..MaxCommands, baseline' = baseline,
             records' \in [Customers -> Record] \cup {None}
      PROVE  ExperimentInv'
  <2>1. phase' = "decide" /\ turn' = 1 /\ wanted' = [c \in Customers |-> None]
    BY <1>2 DEF Begin
  <2>2. ExperimentTypeOK'
    BY <1>0, <1>1, <1>2, <2>1 DEF ExperimentTypeOK
  <2>3. baseline' # None => FollowsStreams(baseline)' /\ \A c \in Customers : baseline'[c].arm = None
    BY <1>1, <1>2, WorldStays
  <2> QED BY <1>0, <1>2, <2>1, <2>2, <2>3 DEF Scored
<1>3. CASE (\E rung \in RungNames, cap \in Budgets : StartExperiment(rung, cap)) \/ StartAblation
  <2>1. /\ Begin /\ mode' \in {"experiment", "ablation"} /\ todo' \in Seq(RungNames)
        /\ todo' # <<>> /\ budget' \in Budgets \cup {None}
        /\ started < MaxCommands /\ started' = started + 1 /\ UNCHANGED <<records, baseline>>
    <3>1. ASSUME NEW rung \in RungNames PROVE <<rung>> \in Seq(RungNames) /\ <<rung>> # <<>>
      OBVIOUS
    <3>2. CASE StartAblation
      BY <3>2, RungFacts DEF StartAblation
    <3>3. CASE \E rung \in RungNames, cap \in Budgets : StartExperiment(rung, cap)
      BY <3>1, <3>3 DEF StartExperiment
    <3> QED BY <1>3, <3>2, <3>3
  <2>2. started' \in 0..MaxCommands
    BY <2>1, ExperimentAssumption DEF ExperimentTypeOK
  <2> QED BY <1>2, <2>1, <2>2 DEF ExperimentTypeOK
<1>4. CASE Score
  <2>1. /\ Begin /\ mode # "idle" /\ todo' = Tail(todo) /\ records' = None
        /\ mode' = IF Len(todo) = 1 THEN "idle" ELSE mode
        /\ UNCHANGED <<budget, started, baseline>>
    BY <1>4 DEF Score
  <2>2. todo \in Seq(RungNames) /\ todo # <<>>
    BY <2>1 DEF ExperimentTypeOK
  <2>3. todo' \in Seq(RungNames) /\ (Len(todo) # 1 => todo' # <<>>)
    <3>1. Len(todo) \in Nat \ {0}
      BY <2>2, EmptySeq
    <3>2. Tail(todo) \in Seq(RungNames) /\ Len(Tail(todo)) = Len(todo) - 1
      BY <2>2, HeadTailProperties
    <3>3. Len(todo) # 1 => Len(Tail(todo)) # 0
      BY <3>1, <3>2
    <3> QED BY <2>1, <3>2, <3>3, EmptySeq
  <2> QED BY <1>2, <2>1, <2>3 DEF ExperimentTypeOK
<1>5. CASE AgentFails
  <2>1. /\ Begin /\ mode' = "idle" /\ todo' = <<>>
        /\ UNCHANGED <<budget, started, records, baseline>>
    BY <1>5 DEF AgentFails
  <2> QED BY <1>2, <2>1 DEF ExperimentTypeOK
<1>6. CASE Withhold
  <2>1. /\ turn' = turn + 1 /\ turn <= Len(Population) /\ phase = "decide"
        /\ UNCHANGED <<mode, todo, budget, started, phase, wanted, records, baseline>>
    BY <1>6 DEF Withhold, Deciding, command
  <2>2. ExperimentTypeOK'
    <3>1. turn' \in 1..(Len(Population) + 1)
      BY <1>1, <2>1 DEF ExperimentTypeOK
    <3> QED BY <1>0, <1>1, <2>1, <3>1 DEF ExperimentTypeOK
  <2> QED BY <1>0, <1>1, <2>1, <2>2, WorldStays DEF Scored
<1>7. CASE Decide
  <2> DEFINE c == Population[turn]
  <2>1. /\ turn' = turn + 1 /\ turn <= Len(Population) /\ phase = "decide" /\ mode # "idle"
        /\ c \notin holdout /\ \E d \in DecidesOf(Head(todo), c) : wanted' = [wanted EXCEPT ![c] = d]
        /\ UNCHANGED <<mode, todo, budget, started, phase, records, baseline>>
    BY <1>7 DEF Decide, Deciding, command
  <2>2. c \in Customers
    BY <1>1, <2>1, PopulationFacts DEF ExperimentTypeOK
  <2> HIDE DEF c
  <2>3. Head(todo) \in RungNames
    BY <2>1, HeadTailProperties DEF ExperimentTypeOK
  <2>4. PICK d \in DecidesOf(Head(todo), c) : wanted' = [wanted EXCEPT ![c] = d]
    BY <2>1
  <2>5. /\ d \in Decision \cup {None}
        /\ Head(todo) = "noaction" => d = None
    BY <2>2, <2>3, PolicyAnswers
  <2>6. /\ wanted' \in [Customers -> Decision \cup {None}]
        /\ \A b \in Customers : wanted'[b] = IF b = c THEN d ELSE wanted[b]
    BY <2>2, <2>4, <2>5 DEF ExperimentTypeOK
  <2>7. ExperimentTypeOK'
    <3>1. turn' \in 1..(Len(Population) + 1)
      BY <1>1, <2>1 DEF ExperimentTypeOK
    <3> QED BY <1>0, <1>1, <2>1, <2>6, <3>1 DEF ExperimentTypeOK
  <2> QED BY <1>0, <1>1, <2>1, <2>5, <2>6, <2>7, WorldStays DEF Scored
<1>8. CASE RunArms
  <2>1. /\ mode # "idle" /\ records' = Realize /\ phase' = "realize"
        /\ baseline' = IF Head(todo) = "noaction" THEN records' ELSE baseline
        /\ UNCHANGED <<mode, todo, budget, started, turn, wanted>>
    BY <1>8 DEF RunArms, command
  <2>2. /\ records' \in [Customers -> Record] /\ FollowsStreams(records')
        /\ Head(todo) = "noaction" => \A c \in Customers : records'[c].arm = None
    BY <2>1, RealizeFollows
  <2>3. FollowsStreams(records)'
    BY <1>1, <2>2 DEF world, FollowsStreams, ChurnLogit, OfferEffect, EventsOf
  <2>4. /\ baseline' \in [Customers -> Record] \cup {None}
        /\ baseline' # None =>
              FollowsStreams(baseline)' /\ \A c \in Customers : baseline'[c].arm = None
    <3>1. CASE Head(todo) = "noaction"
      <4>1. baseline' = records'
        BY <2>1, <3>1
      <4> QED BY <2>2, <2>3, <3>1, <4>1 DEF FollowsStreams
    <3>2. CASE Head(todo) # "noaction"
      <4>1. baseline' = baseline
        BY <2>1, <3>2
      <4> QED BY <1>1, <4>1, WorldStays DEF ExperimentTypeOK
    <3> QED BY <3>1, <3>2
  <2>5. ExperimentTypeOK'
    BY <1>0, <1>1, <2>1, <2>2, <2>4 DEF ExperimentTypeOK
  <2> QED BY <1>0, <1>1, <2>1, <2>2, <2>3, <2>4, <2>5 DEF Scored
<1>9. CASE \E c \in Customers : Grant(c) \/ PassOver(c)
  <2>1. /\ phase = "decide" /\ UNCHANGED <<mode, todo, budget, started, phase, turn, wanted, records, baseline>>
    BY <1>9 DEF Grant, PassOver, CutNext, command
  <2>2. ExperimentTypeOK'
    BY <1>0, <1>1, <2>1 DEF ExperimentTypeOK
  <2> QED BY <1>0, <1>1, <2>1, <2>2, WorldStays DEF Scored
<1>10. CASE UNCHANGED experimentVars
  <2>1. UNCHANGED <<mode, todo, budget, started, phase, turn, wanted, records, baseline>>
    BY <1>10 DEF experimentVars, command
  <2>2. ExperimentTypeOK'
    BY <1>0, <1>1, <2>1 DEF ExperimentTypeOK
  <2> QED BY <1>0, <1>1, <2>1, <2>2, WorldStays DEF Scored
<1> QED BY <1>3, <1>4, <1>5, <1>6, <1>7, <1>8, <1>9, <1>10 DEF ExperimentNext

\* What contact, and an accepted offer, add to the churn logit.
LEMMA Logits ==
    ASSUME ExperimentInv, NEW c \in Customers
    PROVE  /\ ChurnLogit(c, None, FALSE) \in Int
           /\ \A arm : arm # None /\ Profile[c].segment # "SLEEPING_DOG" =>
                 /\ ChurnLogit(c, arm, FALSE) = ChurnLogit(c, None, FALSE)
                 /\ ChurnLogit(c, arm, TRUE) \in Int
                 /\ ChurnLogit(c, arm, TRUE) <= ChurnLogit(c, None, FALSE)
           /\ \A arm, accepted : arm # None /\ Profile[c].segment = "SLEEPING_DOG" =>
                 /\ ChurnLogit(c, arm, accepted) \in Int
                 /\ ChurnLogit(c, None, FALSE) <= ChurnLogit(c, arm, accepted)
<1> DEFINE kinds == EventsOf(c, "events")
           Of(k) == IF k \in kinds THEN Multiplier[k] ELSE 0
           hazard == Of("OVERAGE") + Of("DROPPED_CALLS") + Of("BILL_SHOCK")
                     + Of("COMPETITOR_OFFER") + Of("CONTRACT_EXPIRY") + Of("SERVICE_COMPLAINT")
           logit == Profile[c].base + 175 * hazard
           seg == Profile[c].segment
           Fit(arm) == IF FitsOf[arm] \cap EventsOf(c, "effect") # {} THEN 100 ELSE 35
<1>1. seg \in Segments /\ Profile[c].base \in Int
  BY ExperimentAssumption DEF ProfileOf
<1>2. \A k \in Kinds : Of(k) \in Int
  <2>1. \A k \in Kinds : Multiplier[k] \in Int
    BY DEF Multiplier, Kinds
  <2> QED BY <2>1
<1>3. hazard \in Int
  <2> HIDE DEF Of
  <2> QED BY <1>2 DEF Kinds
<1>4. \A arm, accepted : ChurnLogit(c, arm, accepted) =
          logit + (IF arm = None THEN 0 ELSE OfferEffect(c, arm, accepted))
  BY DEF ChurnLogit
<1> HIDE DEF hazard
<1>5. logit \in Int
  BY <1>1, <1>3
<1>6. \A arm, accepted : OfferEffect(c, arm, accepted) =
          (IF seg = "SLEEPING_DOG" THEN ContactPenalty ELSE 0)
          - (IF accepted THEN 4 * Responsiveness[seg] * Fit(arm) ELSE 0)
  BY DEF OfferEffect
<1>7. /\ Responsiveness[seg] \in Nat
      /\ seg = "SLEEPING_DOG" => Responsiveness[seg] = 0
  BY <1>1 DEF Segments, Responsiveness
<1>8. \A arm : Fit(arm) \in {35, 100}
  OBVIOUS
<1> HIDE DEF logit, Fit
<1>9. ASSUME NEW arm, arm # None, seg # "SLEEPING_DOG"
      PROVE  /\ ChurnLogit(c, arm, FALSE) = logit
             /\ ChurnLogit(c, arm, TRUE) \in Int /\ ChurnLogit(c, arm, TRUE) <= logit
  <2>1. ChurnLogit(c, arm, FALSE) = logit + (0 - 0)
    BY <1>4, <1>6, <1>9
  <2>2. ChurnLogit(c, arm, TRUE) = logit + (0 - 4 * Responsiveness[seg] * Fit(arm))
    BY <1>4, <1>6, <1>9
  <2> DEFINE r == Responsiveness[seg]
             benefit == 4 * r * Fit(arm)
  <2>3. benefit \in Nat
    <3> HIDE DEF r
    <3>1. Fit(arm) \in {35, 100} /\ r \in Nat
      BY <1>7, <1>8 DEF r
    <3>2. CASE Fit(arm) = 35
      <4>1. benefit = 4 * r * 35
        BY <3>2
      <4> HIDE DEF benefit
      <4> QED BY <3>1, <4>1
    <3>3. CASE Fit(arm) = 100
      <4>1. benefit = 4 * r * 100
        BY <3>3
      <4> HIDE DEF benefit
      <4> QED BY <3>1, <4>1
    <3> QED BY <3>1, <3>2, <3>3
  <2>4. ChurnLogit(c, arm, TRUE) = logit + (0 - benefit)
    BY <2>2
  <2> HIDE DEF benefit
  <2>5. /\ logit + (0 - 0) = logit /\ logit + (0 - benefit) \in Int
        /\ logit + (0 - benefit) <= logit
    BY ONLY <1>5, <2>3
  <2> QED BY <2>1, <2>4, <2>5
<1>10. ASSUME NEW arm, NEW accepted, arm # None, seg = "SLEEPING_DOG"
       PROVE  ChurnLogit(c, arm, accepted) = logit + 32000
  <2>1. ChurnLogit(c, arm, accepted) =
            logit + (ContactPenalty - (IF accepted THEN 4 * Responsiveness[seg] * Fit(arm) ELSE 0))
    BY <1>4, <1>6, <1>10
  <2>2. Responsiveness[seg] = 0 /\ Fit(arm) \in {35, 100}
    BY <1>7, <1>8, <1>10
  <2>3. 4 * Responsiveness[seg] * Fit(arm) = 0
    <3>1. 4 * 0 * 35 = 0 /\ 4 * 0 * 100 = 0
      OBVIOUS
    <3> QED BY <2>2, <3>1
  <2>4. ChurnLogit(c, arm, accepted) = logit + (32000 - 0)
    BY <2>1, <2>3 DEF ContactPenalty
  <2> QED BY <1>5, <2>4
<1>11. ChurnLogit(c, None, FALSE) = logit
  <2>1. ChurnLogit(c, None, FALSE) = logit + 0
    BY <1>4
  <2>2. logit + 0 = logit
    BY ONLY <1>5
  <2> QED BY <2>1, <2>2
<1>12. logit <= logit + 32000 /\ logit + 32000 \in Int
  BY <1>5
<1>13. ASSUME NEW arm, arm # None, seg # "SLEEPING_DOG"
       PROVE  /\ ChurnLogit(c, arm, FALSE) = ChurnLogit(c, None, FALSE)
              /\ ChurnLogit(c, arm, TRUE) \in Int
              /\ ChurnLogit(c, arm, TRUE) <= ChurnLogit(c, None, FALSE)
  BY <1>9, <1>11, <1>13
<1>14. ASSUME NEW arm, NEW accepted, arm # None, seg = "SLEEPING_DOG"
       PROVE  /\ ChurnLogit(c, arm, accepted) \in Int
              /\ ChurnLogit(c, None, FALSE) <= ChurnLogit(c, arm, accepted)
  <2>1. ChurnLogit(c, arm, accepted) = logit + 32000
    BY <1>10, <1>14
  <2>2. logit <= logit + 32000 /\ logit + 32000 \in Int
    BY ONLY <1>5
  <2> DEFINE contacted == ChurnLogit(c, arm, accepted)
             left == ChurnLogit(c, None, FALSE)
  <2>3. contacted = logit + 32000
    BY ONLY <2>1
  <2>5. left = logit
    BY ONLY <1>11
  <2> HIDE DEF contacted, left
  <2>4. contacted \in Int /\ left <= contacted
    BY <2>2, <2>3, <2>5
  <2> QED BY <2>4 DEF contacted, left
<1> QED BY <1>5, <1>11, <1>13, <1>14

\* A customer against the same customer of the no-action rung.
LEMMA CustomersPaired ==
    ASSUME ExperimentInv, Scored, baseline # None, NEW c \in Customers
    PROVE  LET was == baseline[c].churned
               is == records[c].churned
               dog == Profile[c].segment = "SLEEPING_DOG"
           IN /\ was \in BOOLEAN /\ is \in BOOLEAN /\ records[c].accepted \in BOOLEAN
              /\ records[c].arm = None => is = was
              /\ records[c].arm # None /\ ~dog /\ ~records[c].accepted => is = was
              /\ records[c].accepted /\ ~dog => (is => was)
              /\ records[c].arm # None /\ dog => (was => is)
<1> DEFINE draw == streams[c].churn
           none == ChurnLogit(c, None, FALSE)
           arm == records[c].arm
           accepted == records[c].accepted
           logit == ChurnLogit(c, arm, accepted)
<1>1. /\ baseline[c] \in Record /\ records[c] \in Record
      /\ baseline[c].arm = None /\ ~baseline[c].accepted
      /\ baseline[c].churned = (draw < ChurnLogit(c, baseline[c].arm, baseline[c].accepted))
      /\ records[c].churned = (draw < logit)
      /\ accepted => arm # None
  BY DEF ExperimentInv, ExperimentTypeOK, FollowsStreams
<1>2. /\ baseline[c].churned \in BOOLEAN /\ records[c].churned \in BOOLEAN
      /\ accepted \in BOOLEAN /\ baseline[c].accepted = FALSE
  BY <1>1 DEF Record
<1>3. baseline[c].churned = (draw < none)
  BY <1>1, <1>2
<1>4. draw \in Int
  BY ExperimentAssumption DEF ExperimentInv, ExperimentTypeOK
<1>5. none \in Int
  BY Logits
<1>6. CASE arm = None
  <2>1. accepted = FALSE
    BY <1>1, <1>2, <1>6
  <2>2. logit = none
    BY <1>6, <2>1
  <2> HIDE DEF logit, none
  <2> QED BY <1>1, <1>2, <1>3, <1>6, <2>1, <2>2
<1>7. CASE arm # None /\ Profile[c].segment # "SLEEPING_DOG"
  <2>1. accepted = FALSE => logit = none
    BY <1>7, Logits
  <2>2. accepted = TRUE => logit \in Int /\ logit <= none
    BY <1>7, Logits
  <2> HIDE DEF logit, none
  <2>3. accepted = TRUE => (draw < logit => draw < none)
    BY <1>4, <1>5, <2>2
  <2> QED BY <1>1, <1>2, <1>3, <1>7, <2>1, <2>3
<1>8. CASE arm # None /\ Profile[c].segment = "SLEEPING_DOG"
  <2>1. logit \in Int /\ none <= logit
    BY <1>8, Logits
  <2> HIDE DEF logit, none
  <2>2. draw < none => draw < logit
    BY <1>4, <1>5, <2>1
  <2> QED BY <1>1, <1>2, <1>3, <1>8, <2>2
<1> QED BY <1>6, <1>7, <1>8

\* A set is at most as large as another and what it has beyond it.
LEMMA SetsDiffer ==
    ASSUME NEW S, IsFiniteSet(S), NEW T, IsFiniteSet(T), NEW D, IsFiniteSet(D), S \subseteq T \cup D
    PROVE  Cardinality(S) <= Cardinality(T) + Cardinality(D)
<1>1. /\ IsFiniteSet(T \cup D)
      /\ Cardinality(T \cup D) = Cardinality(T) + Cardinality(D) - Cardinality(T \cap D)
  BY FS_Union
<1>2. Cardinality(S) <= Cardinality(T \cup D)
  BY <1>1, FS_Subset
<1>3. /\ Cardinality(S) \in Nat /\ Cardinality(T) \in Nat /\ Cardinality(D) \in Nat
      /\ Cardinality(T \cap D) \in Nat
  BY FS_CardinalityType, FS_Intersection
<1> QED BY <1>1, <1>2, <1>3

\* sim/oracle.py:99, experiment.py:3: for every population, world, policy and
\* budget, an offer changes what becomes of a customer, against the no-action
\* rung of the seed, only the way it should, and the scorecards differ by no more.
THEOREM OfferEffectsAlways == ExperimentSpec => []OfferEffects
<1>1. ExperimentInv => OfferEffects
  <2> SUFFICES ASSUME ExperimentInv, Scored, baseline # None
               PROVE  OfferEffects
    BY DEF OfferEffects
  <2> DEFINE treat == Customers \ holdout
             offered == {c \in treat : records[c].arm # None}
             was == {c \in treat : baseline[c].churned}
             is == {c \in treat : records[c].churned}
             took == {c \in offered : records[c].accepted}
             wasted == {c \in offered : ~records[c].accepted /\ ~records[c].churned}
             dogs == {c \in offered : Profile[c].segment = "SLEEPING_DOG"}
             card == Scorecard(records)
             floor == Scorecard(baseline)
  <2>1. IsFiniteSet(treat) /\ IsFiniteSet(offered)
    BY PopulationFacts, FS_Subset
  <2>2. /\ IsFiniteSet(was) /\ IsFiniteSet(is) /\ IsFiniteSet(took) /\ IsFiniteSet(wasted)
        /\ IsFiniteSet(dogs)
    BY <2>1, FS_Subset
  <2>3. /\ Cardinality(was) \in Nat /\ Cardinality(is) \in Nat /\ Cardinality(took) \in Nat
        /\ Cardinality(wasted) \in Nat /\ Cardinality(dogs) \in Nat /\ Cardinality(offered) \in Nat
    BY <2>1, <2>2, FS_CardinalityType
  <2>4. Cardinality(was) <= Cardinality(is) + Cardinality(took)
    <3>1. was \subseteq is \cup took
      BY CustomersPaired
    <3> QED BY <2>2, <3>1, SetsDiffer
  <2>5. Cardinality(is) <= Cardinality(was) + Cardinality(dogs)
    <3>1. is \subseteq was \cup dogs
      BY CustomersPaired
    <3> QED BY <2>2, <3>1, SetsDiffer
  <2>6. Cardinality(wasted) + Cardinality(took) <= Cardinality(offered)
    <3>1. wasted \cap took = {} /\ wasted \cup took \subseteq offered
      OBVIOUS
    <3>2. Cardinality(wasted \cup took) = Cardinality(wasted) + Cardinality(took) - 0
      BY <2>2, <3>1, FS_Union, FS_EmptySet
    <3>3. Cardinality(wasted \cup took) <= Cardinality(offered)
      BY <2>1, <3>1, FS_Subset
    <3> HIDE DEF wasted, took, offered
    <3> QED BY <2>3, <3>2, <3>3
  <2>7. {c \in holdout : records[c].churned} = {c \in holdout : baseline[c].churned}
    <3>1. holdout \subseteq Customers
      BY ExperimentAssumption DEF ExperimentInv, ExperimentTypeOK
    <3>2. \A c \in holdout : records[c].arm = None
      BY <3>1 DEF ExperimentInv, FollowsStreams
    <3> QED BY <3>1, <3>2, CustomersPaired
  <2>8. /\ card.n_treatment = floor.n_treatment /\ card.churn_holdout = floor.churn_holdout
        /\ card.churn_treatment = Cardinality(is) /\ floor.churn_treatment = Cardinality(was)
        /\ card.accepted = Cardinality(took) /\ card.wasted = Cardinality(wasted)
        /\ card.sleeping_dogs = Cardinality(dogs) /\ card.offers_made = Cardinality(offered)
    BY <2>7 DEF Scorecard
  <2> HIDE DEF treat, offered, was, is, took, wasted, dogs
  <2>9. /\ -card.sleeping_dogs <= floor.churn_treatment - card.churn_treatment
        /\ floor.churn_treatment - card.churn_treatment <= card.accepted
        /\ card.wasted + card.accepted <= card.offers_made
    BY <2>3, <2>4, <2>5, <2>6, <2>8
  <2> HIDE DEF card, floor
  <2> QED BY <2>8, <2>9, CustomersPaired DEF OfferEffects, card, floor
<1> QED BY <1>1, ExperimentInvInit, ExperimentInvNext, PTL DEF ExperimentSpec

\* experiment.py:68-124: the records and the world of an experiment keep their
\* shapes, whichever command ends how.
THEOREM ExperimentTypeCorrect == ExperimentSpec => []ExperimentTypeOK
<1>1. ExperimentInv => ExperimentTypeOK
  BY DEF ExperimentInv
<1> QED BY <1>1, ExperimentInvInit, ExperimentInvNext, PTL DEF ExperimentSpec

\* experiment.py:100-108: for every population, policy and budget, the scorecard's
\* spend is within the budget, and whoever is passed over could not be paid for
\* by what those of at least the same value had left.
THEOREM BudgetIsGreedyAlways == ExperimentSpec => []BudgetIsGreedy
<1>1. ExperimentInv => BudgetIsGreedy
  <2> SUFFICES ASSUME ExperimentInv, Scored, budget # None PROVE BudgetIsGreedy
    BY DEF BudgetIsGreedy
  <2>1. /\ records \in [Customers -> Record] /\ FollowsStreams(records)
        /\ Waiting = {} /\ spend = SpendOf(Purse, Customers) /\ spend <= budget
        /\ \A c \in looked \ won : SpendOf(Purse, Worthier(c)) + wanted[c].cost > budget
        /\ \A c \in Customers : /\ records[c].spend = Purse[c].spend
                                /\ c \in won => records[c].arm # None
    BY DEF ExperimentInv, CutInv
  <2>2. /\ IsFiniteSet(Customers) /\ \A S \in SUBSET Customers : IsFiniteSet(S)
        /\ \A c \in Customers : Purse[c].spend \in Nat /\ (c \notin won => Purse[c].spend = 0)
    BY PopulationFacts, PurseFacts, FS_Subset
  <2>3. \A S \in SUBSET Customers : SpendOf(records, S) = SpendOf(Purse, S)
    <3> TAKE S \in SUBSET Customers
    <3>1. IsFiniteSet(S) /\ \A c \in S : Purse[c].spend \in Nat /\ records[c].spend = Purse[c].spend
      BY <2>1, <2>2
    <3> QED BY <3>1, SpendSame
  <2>4. Scorecard(records).offer_spend = SpendOf(Purse, Customers \ holdout)
    <3>1. Scorecard(records).offer_spend = SpendOf(records, Customers \ holdout)
      BY DEF Scorecard
    <3> QED BY <2>3, <3>1
  <2>5. SpendOf(Purse, Customers) = SpendOf(Purse, Customers \ holdout)
    <3>1. \A c \in Customers \ (Customers \ holdout) : c \notin won
      BY PurseFacts DEF ExperimentInv, Candidates
    <3> QED BY <2>2, <3>1, SpendOfSpenders
  <2>6. ASSUME NEW c \in Customers, wanted[c] # None, records[c].arm = None
        PROVE  SpendOf(records, {d \in Customers : Profile[d].clv >= Profile[c].clv})
                  + wanted[c].cost > budget
    <3>1. c \in looked \ won
      <4>1. c \in Candidates /\ c \notin won
        BY <2>1, <2>6 DEF Candidates
      <4> QED BY <2>1, <4>1 DEF Waiting
    <3>2. SpendOf(Purse, Worthier(c)) + wanted[c].cost > budget
      BY <2>1, <3>1
    <3>3. SpendOf(records, Worthier(c)) = SpendOf(Purse, Worthier(c))
      BY <2>3 DEF Worthier
    <3> QED BY <3>2, <3>3 DEF Worthier
  <2> QED BY <2>1, <2>4, <2>5, <2>6 DEF BudgetIsGreedy
<1> QED BY <1>1, ExperimentInvInit, ExperimentInvNext, PTL DEF ExperimentSpec
=============================================================================
