------------------------------- MODULE MCLab -------------------------------
(***************************************************************************)
(* The commands of the laboratory side by side for TLC: CostReport,        *)
(* Experiment, BanditStore, GoldenReport and MemoryEval.  They share no    *)
(* variable, so what the whole can do is a shuffle of what they do: a      *)
(* behaviour here is one of one part, while the others wait in an initial  *)
(* state.                                                                  *)
(***************************************************************************)
EXTENDS CostReport, Experiment, BanditStore, GoldenReport, MemoryEval, TLC

CONSTANTS ada, ben, cyd, w1, w2, w3, chat, e1, e2, r1, r2

VARIABLE part

-----------------------------------------------------------------------------
(* Two reports; three customers, the shape of the second near those of the *)
(* other two, which are not near each other.                               *)

Near(s, t) == CASE s = t -> 100 [] {s, t} = {"s1", "s2"} -> 80
                [] {s, t} = {"s2", "s3"} -> 90 [] OTHER -> 60
CostShapes == {"s1", "s2", "s3"}

CostCohort == <<"a", "b", "c">>
CostShapeOf == [a |-> "s1", b |-> "s2", c |-> "s3"]
CostSimilarity == [s \in CostShapes |-> [t \in CostShapes |-> Near(s, t)]]
CostTags == [overage |-> "OVERAGE", unclear |-> "None"]

CostAnswers == DOMAIN CostTags

(* One customer of each kind; the dearest is the sleeping dog; a budget that *)
(* pays for one credit and one fix.                                        *)

Someone(segment, clv, endDays, overage, risky) ==
    [segment |-> segment, clv |-> clv, base |-> 0, endDays |-> endDays,
     overage |-> overage, risky |-> risky, sens |-> 10]

LabStreams == {
    [events |-> {"OVERAGE", "CONTRACT_EXPIRY"}, effect |-> {}, accept |-> 90, churn |-> 5000],
    [events |-> {}, effect |-> {"OVERAGE"}, accept |-> 10, churn |-> -36000],
    [events |-> {}, effect |-> {}, accept |-> 10, churn |-> 20000]}
LabHoldouts == {{}, {cyd}}

LabPopulation == <<ada, ben, cyd>>
LabProfile ==
    (ada :> Someone("PERSUADABLE", 30, 29, 0, TRUE))
    @@ (ben :> Someone("SLEEPING_DOG", 50, 400, 1, FALSE))
    @@ (cyd :> Someone("SURE_THING", 20, 45, 0, TRUE))
LabCostOf == [NO_ACTION |-> 0, BILL_CREDIT |-> 8, ACKNOWLEDGE_AND_FIX |-> 2]
LabArms == DOMAIN LabCostOf
LabBudgets == {None, 10}
LabFitsOf ==
    [NO_ACTION |-> {}, BILL_CREDIT |-> {"BILL_SHOCK", "OVERAGE"},
     ACKNOWLEDGE_AND_FIX |-> {"SERVICE_COMPLAINT"}]

(* Three run-one commands and one that only loads; two arms. *)

BanditArms == <<"BILL_CREDIT", "DATA_BOOST">>

(* The catalog of configs/offers.yaml; two reports, two runs of one customer. *)

GoldenCostOf ==
    [NO_ACTION |-> 0, ACKNOWLEDGE_AND_FIX |-> 2, BILL_CREDIT |-> 8, PLAN_DOWNSELL |-> 6,
     DATA_BOOST |-> 5, DEVICE_UPGRADE |-> 20, NETWORK_PRIORITY_FIX |-> 4, BUNDLE_ADDON |-> 7]
GoldenFloorOf ==
    [NO_ACTION |-> 0, ACKNOWLEDGE_AND_FIX |-> 10, BILL_CREDIT |-> 12, PLAN_DOWNSELL |-> 12,
     DATA_BOOST |-> 10, DEVICE_UPGRADE |-> 15, NETWORK_PRIORITY_FIX |-> 10, BUNDLE_ADDON |-> 12]
GoldenRunsOf == [r \in {r1, r2} |-> ada]

(* Two plans, superseded by two others. *)

MemoryPlans ==
    {[old |-> "mobile_s", new |-> "mobile_l"], [old |-> "basic", new |-> "premium"]}

-----------------------------------------------------------------------------

Parts == {"cost", "lab", "bandit", "golden", "memory"}
Turn(p) == part = p /\ UNCHANGED part

Init ==
    /\ part \in Parts
    /\ CostInit /\ ExperimentInit /\ BanditInit
    /\ GoldenInit /\ MemoryInit
    /\ part # "lab" => holdout = {} /\ streams = [c \in {ada, ben, cyd} |-> CHOOSE s \in LabStreams : TRUE]
    /\ part # "memory" => \A e, f \in {e1, e2} : pair[e].old = "basic"

costPart ==
    <<step, pos, answer, semantic, out, meter, sampled, agree, missedAt>>
labPart ==
    <<holdout, streams, mode, todo, budget, phase, turn, wanted, looked, won, spend,
      records, started, baseline>>
banditPart == <<at, mine, posterior, rowLock, written, missed, lost, saved>>
goldenPart ==
    <<evalPc, results, scenarioContacts, runPc, statusOf, fulfilledRows, auditRows,
      idsRead, holdoutViol, guardrailViol, before>>
memoryPart == <<evalAt, cid, pair, edges, closing, scores>>

NotCost == <<labPart, banditPart, goldenPart, memoryPart>>
NotLab == <<costPart, banditPart, goldenPart, memoryPart>>
NotBandit == <<costPart, labPart, goldenPart, memoryPart>>
NotGolden == <<costPart, labPart, banditPart, memoryPart>>
NotMemory == <<costPart, labPart, banditPart, goldenPart>>
partVars == <<part, costPart, NotCost>>

WriterTurn(w) == Turn("bandit") /\ WriterStep(w) /\ UNCHANGED NotBandit

Next ==
    \/ Turn("cost") /\ CostNext /\ UNCHANGED NotCost
    \/ Turn("lab") /\ ExperimentNext /\ UNCHANGED NotLab
    \/ Turn("bandit") /\ BanditNext /\ UNCHANGED NotBandit
    \/ Turn("golden") /\ GoldenNext /\ UNCHANGED NotGolden
    \/ Turn("memory") /\ MemoryNext /\ UNCHANGED NotMemory

\* A process that holds the posterior's rows goes on, or dies.
FairSpec ==
    /\ Init /\ [][Next]_partVars
    /\ \A w \in {w1, w2, w3} : WF_partVars(WriterTurn(w))

-----------------------------------------------------------------------------
(* The parts' properties, stated in their modules. *)

\* The type invariants of the five modules: no counter of a report, a score or
\* a posterior leaves its range, whatever way its command ends.
LabTypeOK ==
    /\ CostTypeOK /\ ExperimentTypeOK /\ BanditTypeOK
    /\ GoldenTypeOK /\ MemoryTypeOK
=============================================================================
