\* Calls and renewals end, and the licence recovers from a long offline spell.
SPECIFICATION FairSpec
CONSTANTS
    h1 = h1  h2 = h2  t1 = t1  t2 = t2  k1 = k1  k2 = k2
    Handles = {h1}
    Threads = {t1}
    HandleOf <- OneThread
    Keys = {k1}
    MaxAid = 1
    GracePeriod = 2
    LicenceEnd = 99
    ChainLifetimes = {99}
    LATTE_MIN_RENEWAL_SECS = 0
    LATTE_MAX_RENEWAL_SECS = 1
    LATTE_MAX_AGE_SECS = 99
    MaxTime = 4
    MaxLate = 0
    Faults = {"lost", "spawn"}
PROPERTIES
    RenewalEnds
    CallsReturn
    Recovers
