----------------------------- MODULE Experiment -----------------------------
(***************************************************************************)
(* The randomised experiment (experiment.py), the ladder of its policies   *)
(* (graph/ablation.py, graph/policy.py) and the response oracle that        *)
(* decides what becomes of a customer (sim/oracle.py, sim/events.py).      *)
(*                                                                         *)
(* A world is one seed: who is in the holdout and what each customer's      *)
(* random streams yield.  Probabilities are compared with draws by their    *)
(* logits, in units of |BETA_OFFER| / 40000.  The decision graph is that of *)
(* RetentionSpine, run in its shadow branch: here it ends somehow.         *)
(***************************************************************************)
EXTENDS Integers, Sequences, FiniteSets, SequencesExt, FiniteSetsExt

CONSTANTS
    Population,  \* the customers, in the order they are generated
    Profile,     \* what is drawn with them: segment, clv, base logit, days to the
                 \* contract's end, overage events, p_churn >= 0.5, price sensitivity
    OfferArms,        \* of the catalog, "NO_ACTION" among them
    OfferCost, FitsOf,
    AcceptFit,   \* accept_G2 on the scale of the accept draws
    Streams,     \* what a customer's random streams may yield
    Holdouts,    \* the holdouts considered
    Budgets,     \* the values of --budget, None among them
    None,
    MaxCommands  \* bound: commands started

Customers == {Population[i] : i \in DOMAIN Population}
Segments == {"PERSUADABLE", "SURE_THING", "LOST_CAUSE", "SLEEPING_DOG"}
Kinds == {"OVERAGE", "DROPPED_CALLS", "BILL_SHOCK", "COMPETITOR_OFFER",
          "CONTRACT_EXPIRY", "SERVICE_COMPLAINT"}
ProfileOf ==
    [segment : Segments, clv : Nat, base : Int, endDays : Nat,
     overage : Nat, risky : BOOLEAN, sens : Nat]

ASSUME ExperimentAssumption ==
    /\ Population \in Seq(Customers) /\ IsInjective(Population)
    /\ Profile \in [Customers -> ProfileOf]
    /\ {"NO_ACTION", "BILL_CREDIT"} \subseteq OfferArms /\ None \notin OfferArms
    /\ OfferCost \in [OfferArms -> Nat] /\ FitsOf \in [OfferArms -> SUBSET Kinds]
    /\ AcceptFit \in Nat
    /\ Streams \subseteq [events : SUBSET Kinds, effect : SUBSET Kinds,
                          accept : Int, churn : Int]
    /\ Holdouts \subseteq SUBSET Customers
    /\ Budgets \subseteq Nat \cup {None} /\ MaxCommands \in Nat

VARIABLES
    holdout,  \* assign_holdout of the seed
    streams,  \* what each customer's streams of the seed yield
    mode,     \* "idle", or the command that runs
    todo,     \* the rungs it has yet to run, the current one first
    budget,   \* --budget
    phase,    \* of run_experiment: "decide" or "realize"
    turn,     \* the customer whose turn it is
    wanted,   \* treated_candidates: customer -> decision, or None
    looked,   \* the candidates the budget cut has been through
    won,      \* those of them whose record got the offer
    spend,    \* their costs
    records,  \* of the customers, once realized, or None
    started,  \* commands started
    baseline  \* history: records of the no-action rung

world == <<holdout, streams>>
command == <<mode, todo, budget, started>>
cut == <<looked, won, spend>>
experimentVars == <<world, command, phase, turn, wanted, cut, records, baseline>>

-----------------------------------------------------------------------------

RUNGS == <<"noaction", "rules", "risk_rules", "agent_s1", "agent">>
RungNames == {RUNGS[i] : i \in DOMAIN RUNGS}

Decision == [arm : OfferArms, cost : Nat]
Record == [arm : OfferArms \cup {None}, accepted : BOOLEAN, churned : BOOLEAN, spend : Nat]

ExperimentTypeOK ==
    /\ holdout \in Holdouts /\ streams \in [Customers -> Streams]
    /\ mode \in {"idle", "experiment", "ablation"}
    /\ todo \in Seq(RungNames) /\ budget \in Budgets \cup {None}
    /\ phase \in {"decide", "realize"} /\ turn \in 1..(Len(Population) + 1)
    /\ wanted \in [Customers -> Decision \cup {None}]
    /\ looked \subseteq Customers /\ won \subseteq looked /\ spend \in Nat
    /\ records \in [Customers -> Record] \cup {None}
    /\ started \in 0..MaxCommands
    /\ baseline \in [Customers -> Record] \cup {None}

-----------------------------------------------------------------------------
(* The oracle *)

\* generate_events: what fires is the stream's; an expiry needs a contract that
\* ends soon.
EventsOf(c, stream) ==
    {k \in streams[c][stream] : k = "CONTRACT_EXPIRY" => Profile[c].endDays <= 45}

Multiplier ==
    [k \in Kinds |->
        CASE k = "OVERAGE" -> 35           [] k = "DROPPED_CALLS" -> 30
          [] k = "BILL_SHOCK" -> 45        [] k = "COMPETITOR_OFFER" -> 50
          [] k = "CONTRACT_EXPIRY" -> 55   [] k = "SERVICE_COMPLAINT" -> 40]

Responsiveness ==
    [PERSUADABLE |-> 100, SURE_THING |-> 15, LOST_CAUSE |-> 10, SLEEPING_DOG |-> 0]
ContactPenalty == 32000

\* _offer_effect: contact alone harms a sleeping dog; the benefit is an accepted
\* offer's, with events of a stream of its own.
OfferEffect(c, arm, withBenefit) ==
    LET seg == Profile[c].segment
        fit == IF FitsOf[arm] \cap EventsOf(c, "effect") # {} THEN 100 ELSE 35
    IN (IF seg = "SLEEPING_DOG" THEN ContactPenalty ELSE 0)
       - (IF withBenefit THEN 4 * Responsiveness[seg] * fit ELSE 0)

\* churn_prob; A2 / |BETA_OFFER| is 0.7 / 1.6, 175 units per hundredth.
ChurnLogit(c, arm, accepted) ==
    LET kinds == EventsOf(c, "events")
        Of(k) == IF k \in kinds THEN Multiplier[k] ELSE 0
        hazard == Of("OVERAGE") + Of("DROPPED_CALLS") + Of("BILL_SHOCK")
                  + Of("COMPETITOR_OFFER") + Of("CONTRACT_EXPIRY") + Of("SERVICE_COMPLAINT")
    IN Profile[c].base + 175 * hazard
       + (IF arm = None THEN 0 ELSE OfferEffect(c, arm, accepted))

\* accept_prob, with the events the churn hazard sees.
AcceptLogit(c, arm) ==
    Profile[c].sens * OfferCost[arm]
    + (IF FitsOf[arm] \cap EventsOf(c, "events") # {} THEN AcceptFit ELSE 0)

\* Mutant: an offer works whether it is accepted or not.
OutcomeOfContact(c, arm) ==
    LET accepted == arm # None /\ streams[c].accept < AcceptLogit(c, arm)
    IN [accepted |-> accepted,
        churned |-> streams[c].churn < ChurnLogit(c, arm, arm # None)]

\* outcome: an accept draw for an offer, a churn draw from another stream.
Outcome(c, arm) ==
    LET accepted == arm # None /\ streams[c].accept < AcceptLogit(c, arm)
    IN [accepted |-> accepted,
        churned |-> streams[c].churn < ChurnLogit(c, arm, accepted)]

-----------------------------------------------------------------------------
(* The policies *)

FixedCredit == [arm |-> "BILL_CREDIT", cost |-> 8]

\* What a policy may answer.
RuleDecides(rung, c) ==
    \/ rung = "rules" /\ (Profile[c].endDays < 30 \/ Profile[c].overage > 0)
    \/ rung = "risk_rules" /\ Profile[c].risky

\* AgentPolicy.decide: the graph ends with a verdict on an offer, or at the
\* engage gate with neither; a rejected offer and NO_ACTION are no decision.
GraphEnds ==
    [verdict : {None}, offer : {None}]
    \cup [verdict : {"PASS", "NEEDS_APPROVAL", "REJECT"},
          offer : {[arm |-> a, cost |-> OfferCost[a]] : a \in OfferArms}]

Surfaced(final) ==
    IF \/ final.verdict = "REJECT"
       \/ final.offer = None
       \/ final.offer # None /\ final.offer.arm = "NO_ACTION"
    THEN None ELSE final.offer

DecidesOf(rung, c) ==
    IF rung \in {"agent_s1", "agent"}
    THEN {Surfaced(final) : final \in GraphEnds}
    ELSE {IF RuleDecides(rung, c) THEN FixedCredit ELSE None}

-----------------------------------------------------------------------------
(* run_experiment *)

\* Every rung generates the population of the seed anew.
Begin ==
    /\ phase' = "decide" /\ turn' = 1
    /\ wanted' = [c \in Customers |-> None]
    /\ looked' = {} /\ won' = {} /\ spend' = 0

\* `magenta experiment`, with or without a budget, and `magenta ablation`.
StartExperiment(rung, cap) ==
    /\ mode = "idle" /\ started < MaxCommands
    /\ mode' = "experiment" /\ todo' = <<rung>> /\ budget' = cap
    /\ started' = started + 1
    /\ Begin
    /\ UNCHANGED <<world, records, baseline>>

StartAblation ==
    /\ mode = "idle" /\ started < MaxCommands
    /\ mode' = "ablation" /\ todo' = RUNGS /\ budget' = None
    /\ started' = started + 1
    /\ Begin
    /\ UNCHANGED <<world, records, baseline>>

Deciding == mode # "idle" /\ phase = "decide" /\ turn <= Len(Population)

\* The holdout is never asked.
Withhold ==
    /\ Deciding
    /\ Population[turn] \in holdout
    /\ turn' = turn + 1
    /\ UNCHANGED <<world, command, phase, wanted, cut, records, baseline>>

Decide ==
    /\ Deciding
    /\ LET c == Population[turn]
       IN /\ c \notin holdout
          /\ \E d \in DecidesOf(Head(todo), c) : wanted' = [wanted EXCEPT ![c] = d]
    /\ turn' = turn + 1
    /\ UNCHANGED <<world, command, phase, cut, records, baseline>>

\* The greedy cut: by CLV with a budget, as generated without; an offer that
\* does not fit is passed over, the ones after it are not.
Index(c) == CHOOSE i \in DOMAIN Population : Population[i] = c
\* Mutant: the budget is spent in the order of the population.
AheadAsGenerated(c, d) == Index(c) < Index(d)

Ahead(c, d) ==
    \/ budget # None /\ Profile[c].clv > Profile[d].clv
    \/ (budget # None => Profile[c].clv = Profile[d].clv) /\ Index(c) < Index(d)

Candidates == {c \in Customers : wanted[c] # None}
Waiting == Candidates \ looked
Fits(c) == budget # None => spend + wanted[c].cost <= budget

CutNext(c) ==
    /\ mode # "idle" /\ phase = "decide" /\ turn > Len(Population)
    /\ c \in Waiting /\ \A d \in Waiting \ {c} : Ahead(c, d)
    /\ looked' = looked \cup {c}
    /\ UNCHANGED <<world, command, phase, turn, wanted, records, baseline>>

Grant(c) ==
    /\ CutNext(c) /\ Fits(c)
    /\ won' = won \cup {c} /\ spend' = spend + wanted[c].cost

PassOver(c) == CutNext(c) /\ ~Fits(c) /\ UNCHANGED <<won, spend>>

\* The outcome of every record.
Realize ==
    [c \in Customers |->
        LET arm == IF c \in won THEN wanted[c].arm ELSE None
            out == Outcome(c, arm)
        IN [arm |-> arm, accepted |-> out.accepted, churned |-> out.churned,
            spend |-> IF c \in won THEN wanted[c].cost ELSE 0]]

RunArms ==
    /\ mode # "idle" /\ phase = "decide" /\ turn > Len(Population) /\ Waiting = {}
    /\ records' = Realize
    /\ baseline' = IF Head(todo) = "noaction" THEN records' ELSE baseline
    /\ phase' = "realize"
    /\ UNCHANGED <<world, command, turn, wanted, cut>>

\* What the records of S spent.
SpendOf(recs, S) == MapThenSumSet(LAMBDA c : recs[c].spend, S)

\* run_experiment's Scorecard: the counts its rates, and the euros, are made of.
\* Wasted is an offer declined by a customer who stays.
Scorecard(recs) ==
    LET treat == Customers \ holdout
        offered == {c \in treat : recs[c].arm # None}
    IN [n_treatment |-> Cardinality(treat), n_holdout |-> Cardinality(holdout),
        churn_treatment |-> Cardinality({c \in treat : recs[c].churned}),
        churn_holdout |-> Cardinality({c \in holdout : recs[c].churned}),
        offers_made |-> Cardinality(offered),
        accepted |-> Cardinality({c \in offered : recs[c].accepted}),
        wasted |-> Cardinality({c \in offered : ~recs[c].accepted /\ ~recs[c].churned}),
        sleeping_dogs |-> Cardinality({c \in offered : Profile[c].segment = "SLEEPING_DOG"}),
        offer_spend |-> SpendOf(recs, treat)]

\* The scorecard; the ladder goes on to the next rung with fresh dependencies.
Score ==
    /\ mode # "idle" /\ phase = "realize"
    /\ todo' = Tail(todo)
    /\ mode' = IF Len(todo) = 1 THEN "idle" ELSE mode
    /\ records' = None
    /\ Begin
    /\ UNCHANGED <<world, budget, started, baseline>>

\* An agent's graph, or the commit of its audit rows, may raise: the command ends
\* without a scorecard, the ladder without any.
AgentFails ==
    /\ Deciding
    /\ Head(todo) \in {"agent_s1", "agent"} /\ Population[turn] \notin holdout
    /\ mode' = "idle" /\ todo' = <<>>
    /\ Begin
    /\ UNCHANGED <<world, budget, started, records, baseline>>

-----------------------------------------------------------------------------

ExperimentInit ==
    /\ holdout \in Holdouts /\ streams \in [Customers -> Streams]
    /\ mode = "idle" /\ todo = <<>> /\ budget = None /\ phase = "decide" /\ turn = 1
    /\ wanted = [c \in Customers |-> None] /\ records = None
    /\ looked = {} /\ won = {} /\ spend = 0
    /\ started = 0 /\ baseline = None

ExperimentNext ==
    \/ \E rung \in RungNames, cap \in Budgets : StartExperiment(rung, cap)
    \/ StartAblation
    \/ Withhold \/ Decide
    \/ \E c \in Customers : Grant(c) \/ PassOver(c)
    \/ RunArms \/ Score \/ AgentFails

ExperimentSpec == ExperimentInit /\ [][ExperimentNext]_experimentVars

-----------------------------------------------------------------------------
(* Safety *)

Scored == mode # "idle" /\ phase = "realize"

\* sim/oracle.py:99-105: rungs are paired.  Against the no-action rung of the
\* same seed, whichever command ran it, an offer changes what becomes of a
\* customer only the way it should: not at all without contact, nor by an offer
\* declined, never for the worse by one accepted, and never for the better when
\* the customer is a sleeping dog.  The scorecard shows it: the arms of the two
\* rungs are the same, the holdout churns alike (experiment.py:3), and the
\* treatment arm churns more only by the sleeping dogs contacted, and less only
\* by the offers accepted.
OfferEffects ==
    Scored /\ baseline # None =>
        /\ \A c \in Customers :
            LET was == baseline[c].churned
                is == records[c].churned
                dog == Profile[c].segment = "SLEEPING_DOG"
            IN /\ records[c].arm = None => is = was
               /\ records[c].arm # None /\ ~dog /\ ~records[c].accepted => is = was
               /\ records[c].accepted /\ ~dog => (is => was)
               /\ records[c].arm # None /\ dog => (was => is)
        /\ LET card == Scorecard(records)
               floor == Scorecard(baseline)
               averted == floor.churn_treatment - card.churn_treatment
           IN /\ card.n_treatment = floor.n_treatment /\ card.churn_holdout = floor.churn_holdout
              /\ -card.sleeping_dogs <= averted /\ averted <= card.accepted
              /\ card.wasted + card.accepted <= card.offers_made

\* experiment.py:100-108: the cut goes by CLV and passes over what does not fit,
\* so the spend is within the budget, and whoever is passed over could not be paid
\* for by what those of at least the same value had left.
BudgetIsGreedy ==
    Scored /\ budget # None =>
        /\ Scorecard(records).offer_spend <= budget
        /\ \A c \in Customers : wanted[c] # None /\ records[c].arm = None =>
              SpendOf(records, {d \in Customers : Profile[d].clv >= Profile[c].clv})
                  + wanted[c].cost > budget

-----------------------------------------------------------------------------
(* What the repository says and the code does not do. *)

\* experiment.py:99: offers are made by CLV descending until the spend would exceed
\* the budget: once an offer does not fit, none is made to anybody worth less.
SpendStopsAtBudget ==
    Scored /\ budget # None =>
        \A c \in Candidates, d \in Customers :
            records[c].arm = None /\ records[d].arm # None => Profile[d].clv >= Profile[c].clv
=============================================================================
