SPECIFICATION Spec
CONSTANTS
    h1 = h1  h2 = h2  t1 = t1  t2 = t2  k1 = k1  k2 = k2
    Handles = {h1}
    Threads = {t1, t2}
    HandleOf <- TwoThreads
    Keys = {k1}
    MaxAid = 2
    GracePeriod = 3
    LicenceEnd = 99
    ChainLifetimes = {99}
    LATTE_MIN_RENEWAL_SECS = 1
    LATTE_MAX_RENEWAL_SECS = 1
    LATTE_MAX_AGE_SECS = 99
    MaxTime = 3
    MaxLate = 1
    Faults = {}
PROPERTIES
    LiveSeatNeverForgotten
