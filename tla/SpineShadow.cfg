\* An experiment with the agent policy, then a run of the same customer.
CONSTANTS
    r1 = r1 r2 = r2 r3 = r3
    ada = ada ben = ben credit = credit boost = boost api = api agent = agent
    NoAction = NoAction None = None
    Runs = {r1, r2}
    Customers = {ada}
    Campaigns = {api, agent}
    ApiCampaign = api
    AgentCampaign = agent
    Arms = {credit, boost}
    Cost <- MCCost Floor <- MCFloor Margin <- MCMargin Suits <- MCSuits Answers <- MCAnswers
    Consenting = {ada}
    ValueCap = 40
    FreqCapMax = 1
    Window = 1
    EntryPoints = {"api", "policy"}
    MaxActive = 1
    MaxAborts = 0
    MaxTime = 0
SPECIFICATION Spec
CHECK_DEADLOCK FALSE
INVARIANT HoldoutPurity
