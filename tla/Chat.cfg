\* Three turns: of a page session, where two may overlap and one may raise, or of
\* run_negotiation; the third comes after the handoff length when the two before
\* it have been answered.
CONSTANTS
    t1 = t1 t2 = t2 t3 = t3
    Turns = {t1, t2, t3}
    boost = boost credit = credit upgrade = upgrade None = None
    Arms = {boost, credit, upgrade}
    Cost <- MCCost Rank <- MCRank Fits <- MCFits
    Causes = {"OVERAGE", "EXPIRY"}
    Cap = 10
    HandoffAfter = 4
    MaxTurns = 3
    Drivers = {"runner", "page"}
    MaxInFlight = 2
    MaxFails = 1
SPECIFICATION FairSpec
\* the customer stops writing, or the runner has returned
CHECK_DEADLOCK FALSE
INVARIANTS TypeOK AwaitingHasOffer ConfirmedThenYes WithinAuthority OnTheTable RunnerOutcome
PROPERTIES ImplementsLedger RunnerEnds
