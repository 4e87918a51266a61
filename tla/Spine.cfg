\* Two runs of either customer, or three runs of one; two in flight at a
\* time, one may die.
CONSTANTS
    r1 = r1 r2 = r2 r3 = r3
    ada = ada ben = ben credit = credit boost = boost api = api agent = agent
    NoAction = NoAction None = None
    Runs = {r1, r2, r3}
    Customers = {ada, ben}
    Campaigns = {api, agent}
    ApiCampaign = api
    AgentCampaign = agent
    Arms = {credit, boost}
    Cost <- MCCost Floor <- MCFloor Margin <- MCMargin Suits <- MCSuits Answers <- MCAnswers
    Consenting = {ada}
    ValueCap = 40
    FreqCapMax = 1
    Window = 1
    EntryPoints = {"api", "cli", "policy", "chat"}
    MaxActive = 2
    MaxAborts = 1
    MaxTime = 2
SPECIFICATION BoundedSpec
\* a run that is done or failed stays so
CHECK_DEADLOCK FALSE
INVARIANTS TypeOK InserterContacts FrequencyCapUpToOverlap GatedFulfilment GuardrailCompliance
PROPERTIES ImplementsLedger FulfilmentAudited
