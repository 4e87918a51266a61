\* As Requests.cfg, for the statement of context.py.
CONSTANTS
    c1 = c1 c2 = c2 p1 = p1 p2 = p2 None = None
    r1 = r1 r2 = r2 acme = acme umbra = umbra
    Callers = {c1, c2}
    PoolOf <- MCPoolOf Uses <- MCUses ModelOf <- MCModelOf Notices <- MCNotices
    MaxAttempts = 2
    SleepCap = 60000
    TotalBudget = 20000
    DefaultWait = 5000
    TTL = 0
    Budget = 1
    QueryTime = 1
    MaxTime = 2
    MaxMonths = 1
SPECIFICATION RequestsSpec
\* all calls have ended
CHECK_DEADLOCK FALSE
INVARIANTS EveryReplyMetered
