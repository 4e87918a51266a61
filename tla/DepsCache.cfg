\* Four requests of three tenants over a cache of two entries, and one training job.
CONSTANTS
    r1 = r1 r2 = r2 r3 = r3 r4 = r4 zeta = zeta acme = acme umbra = umbra None = None
    Requests = {r1, r2, r3, r4}
    Tenants = {acme, umbra, zeta}
    MaxSize = 2
    TTL = 0
    PoolSize = 4
    MaxTime = 1
    MaxTrainings = 1
SPECIFICATION Spec
SYMMETRY DepsSymmetry
\* all requests have ended
CHECK_DEADLOCK FALSE
INVARIANTS TypeOK ConnectionsAccounted
PROPERTIES ClosedByAgeOrCapacity
