---------------------------- MODULE GoldenReport ----------------------------
(***************************************************************************)
(* `magenta eval report`: the golden scenarios (evalx/golden.py) through    *)
(* the real graph with stand-ins for its models and its LLM                 *)
(* (graph/scenario.py), then the scans of the default tenant's tables       *)
(* (evalx/hardchecks.py), while runs of that tenant go on.                  *)
(*                                                                         *)
(* A scenario's tables are its own, so its graph is one step.  Of a run of  *)
(* the default tenant only what the scans read is kept: RetentionSpine has  *)
(* the rest.                                                               *)
(***************************************************************************)
EXTENDS Integers, Sequences, FiniteSets

CONSTANTS
    Evaluators,   \* `eval report` processes
    TenantRuns,   \* runs of the default tenant
    CustomerOf,   \* whose run it is
    CostOf, FloorOf, \* the catalog of configs/offers.yaml
    FreqCapMax,   \* _ScenarioParams
    Nothing

Arm == <<"NO_ACTION", "ACKNOWLEDGE_AND_FIX", "BILL_CREDIT", "PLAN_DOWNSELL",
         "DATA_BOOST", "DEVICE_UPGRADE", "NETWORK_PRIORITY_FIX", "BUNDLE_ADDON">>
Arms == {Arm[i] : i \in DOMAIN Arm}

ASSUME GoldenAssumption ==
    /\ Nothing \notin Arms
    /\ CostOf \in [Arms -> Nat] /\ FloorOf \in [Arms -> Nat]
    /\ FreqCapMax \in Nat /\ DOMAIN CustomerOf = TenantRuns

-----------------------------------------------------------------------------
(* The scenarios *)

\* The fields that a stand-in, the catalog or the guardrail reads.
DefaultCustomer ==
    [plan |-> "STANDARD", charge |-> 65, used |-> 16, allowance |-> 20,
     overage |-> 0, dropped |-> 1, device |-> 12, contractEnd |-> 60, margin |-> 40]

Anything == [contact |-> TRUE, allowed |-> Arms, forbidden |-> {}, mustNotFulfill |-> FALSE]
Only(arms) == [Anything EXCEPT !.allowed = arms]

Scenario(customer, segment, expected) ==
    [customer |-> customer, segment |-> segment, expected |-> expected]

GoldenScenarios == <<
    Scenario(DefaultCustomer, "SLEEPING_DOG", [Anything EXCEPT !.contact = FALSE]),
    Scenario([DefaultCustomer EXCEPT !.overage = 5, !.charge = 90], "PERSUADABLE",
             Only({"ACKNOWLEDGE_AND_FIX", "BILL_CREDIT"})),
    Scenario([DefaultCustomer EXCEPT !.dropped = 12], "PERSUADABLE",
             [Only({"NETWORK_PRIORITY_FIX", "ACKNOWLEDGE_AND_FIX"})
                 EXCEPT !.forbidden = {"BILL_CREDIT", "PLAN_DOWNSELL"}]),
    Scenario([DefaultCustomer EXCEPT !.overage = 4], "PERSUADABLE",
             [Anything EXCEPT !.mustNotFulfill = TRUE]),
    Scenario([DefaultCustomer EXCEPT !.contractEnd = 3], "LOST_CAUSE",
             [Anything EXCEPT !.contact = FALSE, !.forbidden = {"DEVICE_UPGRADE"}]),
    Scenario(DefaultCustomer, "SURE_THING", [Anything EXCEPT !.contact = FALSE]),
    Scenario([DefaultCustomer EXCEPT !.device = 40], "PERSUADABLE",
             Only({"DEVICE_UPGRADE", "ACKNOWLEDGE_AND_FIX"})),
    Scenario([DefaultCustomer EXCEPT !.overage = 8], "PERSUADABLE",
             Only({"DATA_BOOST", "PLAN_DOWNSELL", "ACKNOWLEDGE_AND_FIX"})),
    Scenario([DefaultCustomer EXCEPT !.charge = 70], "PERSUADABLE", Anything),
    Scenario([DefaultCustomer EXCEPT !.margin = 2], "PERSUADABLE",
             [Anything EXCEPT !.forbidden = {"DEVICE_UPGRADE"}]),
    Scenario([DefaultCustomer EXCEPT !.plan = "TRIPLE_PLAY"], "PERSUADABLE",
             Only({"BUNDLE_ADDON", "ACKNOWLEDGE_AND_FIX"})) >>

\* _SEGMENT_RISK_UPLIFT, in percent, and classify_segment.
SegmentRiskUplift ==
    [PERSUADABLE |-> [p |-> 60, tau |-> 20], SURE_THING |-> [p |-> 10, tau |-> 20],
     LOST_CAUSE |-> [p |-> 60, tau |-> 0], SLEEPING_DOG |-> [p |-> 60, tau |-> -20]]

ClassifySegment(p, tau) ==
    CASE p < 25                 -> "SURE_THING"
      [] p >= 25 /\ tau < -2    -> "SLEEPING_DOG"
      [] p >= 25 /\ tau \in -2..0 -> "LOST_CAUSE"
      [] OTHER                  -> "PERSUADABLE"

Engages(segment) ==
    LET risk == SegmentRiskUplift[segment]
    IN ClassifySegment(risk.p, risk.tau) = "PERSUADABLE"

\* _diagnose_stub: the menu of the first rule that applies.
DiagnoseStub(c) ==
    IF c.plan \notin {"BASIC", "STANDARD", "PREMIUM"}
    THEN {"BUNDLE_ADDON", "ACKNOWLEDGE_AND_FIX"}
    ELSE IF c.device >= 24 THEN {"DEVICE_UPGRADE", "ACKNOWLEDGE_AND_FIX"}
    ELSE IF c.dropped >= 5 THEN {"NETWORK_PRIORITY_FIX", "ACKNOWLEDGE_AND_FIX"}
    ELSE IF c.charge >= 85 /\ c.overage >= 1 THEN {"BILL_CREDIT", "ACKNOWLEDGE_AND_FIX"}
    ELSE IF c.overage >= 3 THEN {"DATA_BOOST", "PLAN_DOWNSELL", "ACKNOWLEDGE_AND_FIX"}
    ELSE Arms \ {"NO_ACTION"}

CatalogEligible(c) ==
    {"NO_ACTION"} \cup
    {a \in Arms \ {"NO_ACTION"} :
        /\ c.margin - CostOf[a] >= FloorOf[a]
        /\ a = "DEVICE_UPGRADE" => c.contractEnd <= 90
        /\ a = "DATA_BOOST" => 10 * c.used >= 6 * c.allowance
        /\ a = "PLAN_DOWNSELL" => c.plan # "BASIC"}

\* decide, with a bandit that takes the first eligible arm.
FirstEligible(c) ==
    LET menu == CatalogEligible(c) \cap DiagnoseStub(c)
    IN IF menu = {} THEN "NO_ACTION"
       ELSE Arm[CHOOSE i \in DOMAIN Arm :
                  /\ Arm[i] \in menu
                  /\ \A j \in 1..(i - 1) : Arm[j] \notin menu]

\* The disposition of a scenario whose tenant has had so many contacts: the offer
\* stays in the state when the guardrail rejects it.
RunScenario(scenario, priorContacts) ==
    LET engaged == Engages(scenario.segment)
        arm == FirstEligible(scenario.customer)
        passes == priorContacts < FreqCapMax
    IN [contacted |-> engaged,
        arm |-> IF engaged THEN arm ELSE Nothing,
        fulfilled |-> /\ engaged /\ arm # "NO_ACTION" /\ passes
                      /\ ~scenario.expected.mustNotFulfill]

\* _evaluate
Passes(scenario, result) ==
    LET exp == scenario.expected
    IN /\ ~exp.contact => ~result.contacted
       /\ exp.mustNotFulfill => ~result.fulfilled
       /\ result.arm \notin exp.forbidden
       /\ exp.allowed # Arms /\ result.contacted => result.arm \in exp.allowed

-----------------------------------------------------------------------------

VARIABLES
    evalPc,      \* where each report is
    results,     \* run_golden's results so far
    scenarioContacts, \* GUARDRAIL_CONTACTS of the scenarios' tenants
    runPc,       \* the runs of the default tenant
    statusOf,    \* what a run's ACT entry says, Nothing without one
    fulfilledRows, \* FULFILLMENTS of the default tenant: runs that made a row
    auditRows,   \* AUDIT_LOG of the default tenant: runs whose rows are there
    idsRead,     \* fulfilled_ids of the scan under way
    holdoutViol, guardrailViol, \* what the scans have reported
    before       \* history: the violations there were when the scans began

goldenVars ==
    <<evalPc, results, scenarioContacts, runPc, statusOf, fulfilledRows,
      auditRows, idsRead, holdoutViol, guardrailViol, before>>
tenantVars == <<runPc, statusOf, fulfilledRows, auditRows>>
scanVars == <<idsRead, holdoutViol, guardrailViol, before>>

TenantCustomers == {CustomerOf[r] : r \in TenantRuns}
Statuses == {"FULFILLED", "SHADOW", "REJECT", "NO_ACTION"}
Result == [contacted : BOOLEAN, arm : Arms \cup {Nothing}, fulfilled : BOOLEAN]

GoldenTypeOK ==
    /\ evalPc \in [Evaluators -> {"golden", "fulfilled", "shadow", "acts",
                                  "approved", "exit0", "exit1", "killed"}]
    /\ results \in [Evaluators -> Seq(Result)]
    /\ scenarioContacts \in [Evaluators \X DOMAIN GoldenScenarios -> Nat]
    /\ runPc \in [TenantRuns -> {"idle", "acted", "done", "died"}]
    /\ statusOf \in [TenantRuns -> Statuses \cup {Nothing}]
    /\ fulfilledRows \subseteq TenantRuns /\ auditRows \subseteq TenantRuns
    /\ idsRead \in [Evaluators -> SUBSET TenantCustomers]
    /\ holdoutViol \in [Evaluators -> SUBSET TenantCustomers]
    /\ guardrailViol \in [Evaluators -> SUBSET TenantCustomers]
    /\ before \in [Evaluators -> SUBSET TenantCustomers]

CustomersOf(runs) == {CustomerOf[r] : r \in runs}

\* FULFILLMENTS against the ACT entries SHADOW.
Shadowed == CustomersOf({r \in auditRows : statusOf[r] = "SHADOW"})
BothNow == CustomersOf(fulfilledRows) \cap Shadowed

-----------------------------------------------------------------------------
(* The runs of the default tenant, as far as the scans see them *)

\* Act: the row is committed at once; a run of the chat makes no audit rows, any
\* other makes them together at its end.
Act(r) ==
    /\ runPc[r] = "idle"
    /\ \E status \in Statuses :
          /\ statusOf' = [statusOf EXCEPT ![r] = status]
          /\ fulfilledRows' = IF status = "FULFILLED" THEN fulfilledRows \cup {r}
                              ELSE fulfilledRows
    /\ runPc' = [runPc EXCEPT ![r] = "acted"]
    /\ UNCHANGED <<evalPc, results, scenarioContacts, auditRows, scanVars>>

Persist(r) ==
    /\ runPc[r] = "acted"
    /\ auditRows' = auditRows \cup {r}
    /\ runPc' = [runPc EXCEPT ![r] = "done"]
    /\ UNCHANGED <<evalPc, results, scenarioContacts, statusOf, fulfilledRows, scanVars>>

\* A run that dies, or a chat: no audit rows.
EndUnaudited(r) ==
    /\ runPc[r] = "acted"
    /\ runPc' = [runPc EXCEPT ![r] = "died"]
    /\ UNCHANGED <<evalPc, results, scenarioContacts, statusOf, fulfilledRows,
                   auditRows, scanVars>>

-----------------------------------------------------------------------------
(* eval report *)

\* Mutant: one tenant for all the scenarios of a report.
TenantOfReport(e, i) == <<e, 1>>

\* The throwaway TENANT_ID of a scenario.
TenantOf(e, i) == <<e, i>>

Golden(e) ==
    /\ evalPc[e] = "golden" /\ Len(results[e]) < Len(GoldenScenarios)
    /\ LET i == Len(results[e]) + 1
           result == RunScenario(GoldenScenarios[i], scenarioContacts[TenantOf(e, i)])
       IN /\ results' = [results EXCEPT ![e] = Append(@, result)]
          /\ scenarioContacts' =
                IF result.fulfilled
                THEN [scenarioContacts EXCEPT ![TenantOf(e, i)] = @ + 1]
                ELSE scenarioContacts
    /\ UNCHANGED <<evalPc, tenantVars, scanVars>>

\* scan_holdout_purity: first the fulfilled customers; with none there is no
\* second query.
ReadFulfilled(e) ==
    /\ evalPc[e] = "golden" /\ Len(results[e]) = Len(GoldenScenarios)
    /\ idsRead' = [idsRead EXCEPT ![e] = CustomersOf(fulfilledRows)]
    /\ before' = [before EXCEPT ![e] = BothNow]
    /\ evalPc' = [evalPc EXCEPT ![e] = IF fulfilledRows = {} THEN "acts" ELSE "shadow"]
    /\ UNCHANGED <<results, scenarioContacts, tenantVars, holdoutViol, guardrailViol>>

\* Mutant: the second query counts every ACT entry.
ReadEveryAct(e) ==
    /\ evalPc[e] = "shadow"
    /\ holdoutViol' = [holdoutViol EXCEPT ![e] = idsRead[e] \cap CustomersOf(auditRows)]
    /\ evalPc' = [evalPc EXCEPT ![e] = "acts"]
    /\ UNCHANGED <<results, scenarioContacts, tenantVars, idsRead, guardrailViol, before>>

ReadShadow(e) ==
    /\ evalPc[e] = "shadow"
    /\ holdoutViol' = [holdoutViol EXCEPT ![e] = idsRead[e] \cap Shadowed]
    /\ evalPc' = [evalPc EXCEPT ![e] = "acts"]
    /\ UNCHANGED <<results, scenarioContacts, tenantVars, idsRead, guardrailViol, before>>

\* scan_guardrail_compliance: the ACT entries, then the GUARDRAIL entries.
ActIds == CustomersOf({r \in auditRows : statusOf[r] = "FULFILLED"})
ApprovedIds == CustomersOf({r \in auditRows : statusOf[r] # "REJECT"})

\* With no fulfilment there is nothing to compare: the second query finds nothing.
ReadActs(e) ==
    /\ evalPc[e] = "acts"
    /\ idsRead' = [idsRead EXCEPT ![e] = ActIds]
    /\ evalPc' = [evalPc EXCEPT ![e] = "approved"]
    /\ UNCHANGED <<results, scenarioContacts, tenantVars, holdoutViol, guardrailViol, before>>

GoldenFailed(e) ==
    \E i \in DOMAIN results[e] : ~Passes(GoldenScenarios[i], results[e][i])

ReadApproved(e) ==
    /\ evalPc[e] = "approved"
    /\ guardrailViol' = [guardrailViol EXCEPT ![e] = idsRead[e] \ ApprovedIds]
    /\ evalPc' = [evalPc EXCEPT ![e] =
                     IF GoldenFailed(e) \/ holdoutViol[e] # {} \/ guardrailViol'[e] # {}
                     THEN "exit1" ELSE "exit0"]
    /\ UNCHANGED <<results, scenarioContacts, tenantVars, idsRead, holdoutViol, before>>

\* The rows of the scenarios that were run stay where they are.
Kill(e) ==
    /\ evalPc[e] \notin {"exit0", "exit1", "killed"}
    /\ evalPc' = [evalPc EXCEPT ![e] = "killed"]
    /\ UNCHANGED <<results, scenarioContacts, tenantVars, scanVars>>

-----------------------------------------------------------------------------

GoldenInit ==
    /\ evalPc = [e \in Evaluators |-> "golden"] /\ results = [e \in Evaluators |-> <<>>]
    /\ scenarioContacts = [t \in Evaluators \X DOMAIN GoldenScenarios |-> 0]
    /\ runPc = [r \in TenantRuns |-> "idle"] /\ statusOf = [r \in TenantRuns |-> Nothing]
    /\ fulfilledRows = {} /\ auditRows = {}
    /\ idsRead = [e \in Evaluators |-> {}] /\ before = [e \in Evaluators |-> {}]
    /\ holdoutViol = [e \in Evaluators |-> {}] /\ guardrailViol = [e \in Evaluators |-> {}]

GoldenNext ==
    \/ \E r \in TenantRuns : Act(r) \/ Persist(r) \/ EndUnaudited(r)
    \/ \E e \in Evaluators :
          \/ Golden(e) \/ Kill(e)
          \/ ReadFulfilled(e) \/ ReadShadow(e) \/ ReadActs(e) \/ ReadApproved(e)

GoldenSpec == GoldenInit /\ [][GoldenNext]_goldenVars

-----------------------------------------------------------------------------
(* Safety *)

\* evalx/golden.py:45, graph/scenario.py:248: with the catalog as configured every
\* scenario, when it has been run, has the disposition it pins, and that is the
\* one of a first run whatever has run before, here or in another report.
ScenariosHold ==
    \A e \in Evaluators : results[e] # <<>> =>
        LET i == Len(results[e])
            scenario == GoldenScenarios[i]
        IN /\ Passes(scenario, results[e][i])
           /\ results[e][i] = RunScenario(scenario, 0)

\* evalx/hardchecks.py:105, 136: the scans run query by query while runs commit.
\* A report that has ended has named every customer who was both fulfilled and
\* shadowed when they began, and no one who is not; and the guardrail scan raises
\* no false alarm, since no fulfilment is audited without its verdict.
Reported(e) == evalPc[e] \in {"exit0", "exit1"}
ScansAreExact ==
    \A e \in Evaluators : Reported(e) =>
        /\ before[e] \subseteq holdoutViol[e] /\ holdoutViol[e] \subseteq BothNow
        /\ guardrailViol[e] = {}
=============================================================================
