\* Two turns of a page session that overlap.
CONSTANTS
    t1 = t1 t2 = t2
    Turns = {t1, t2}
    boost = boost credit = credit upgrade = upgrade None = None
    Arms = {boost, credit, upgrade}
    Cost <- MCCost Rank <- MCRank Fits <- MCFits
    Causes = {"OVERAGE", "EXPIRY"}
    Cap = 10
    HandoffAfter = 8
    MaxTurns = 2
    Drivers = {"page"}
    MaxInFlight = 2
    MaxFails = 0
SPECIFICATION Spec
CHECK_DEADLOCK FALSE
INVARIANT SeparateLaterYes
