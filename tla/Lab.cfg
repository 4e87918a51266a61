\* The laboratory's commands; the values of their constants are in MCLab.
CONSTANTS
    ada = ada ben = ben cyd = cyd
    w1 = w1 w2 = w2 w3 = w3 chat = chat
    e1 = e1 e2 = e2 r1 = r1 r2 = r2
    None = None Nothing = None NoAnswer = None Nobody = None Open = None
    Reports = {e1, e2}
    Cohort <- CostCohort Shapes <- CostShapes ShapeOf <- CostShapeOf
    Similarity <- CostSimilarity Threshold = 75
    Answers <- CostAnswers Confident = {"overage"} TagOf <- CostTags
    SampleSize = 1
    Population <- LabPopulation Profile <- LabProfile OfferArms <- LabArms
    OfferCost <- LabCostOf FitsOf <- LabFitsOf AcceptFit = 100 Streams <- LabStreams
    Holdouts <- LabHoldouts Budgets <- LabBudgets MaxCommands = 2
    Writers = {w1, w2, w3}
    Readers = {chat}
    ArmOrder <- BanditArms
    Evaluators = {e1, e2}
    TenantRuns = {r1, r2}
    CustomerOf <- GoldenRunsOf CostOf <- GoldenCostOf FloorOf <- GoldenFloorOf
    FreqCapMax = 1
    Evals = {e1, e2}
    EvalSize = 2
    MaxRecall = 5
    Plans <- MemoryPlans
SPECIFICATION FairSpec
\* all commands have ended
CHECK_DEADLOCK FALSE
INVARIANTS LabTypeOK ReuseIsSound OfferEffects BudgetIsGreedy LostOnlyToOverlap ScenariosHold ScansAreExact MemoryKept
PROPERTIES SaveEnds ImplementsStore
