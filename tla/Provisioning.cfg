\* Two requests of two organisations, two workers, any two mishaps.
CONSTANTS
    r1 = r1 r2 = r2 acme = acme umbra = umbra w1 = w1 w2 = w2 None = None
    Requests = {r1, r2}
    Orgs = {acme, umbra}
    Workers = {w1, w2}
    MaxAttempts = 1
    MaxMishaps = 2
SPECIFICATION FairSpec
\* everything has been trained
CHECK_DEADLOCK FALSE
INVARIANTS TypeOK OneJobPerOrg NeverAlreadyEnqueued DoneMeansTrained TrainsAlone
PROPERTIES Provisioned
