\* One process that may die and restart; every refusal of the server, failing saves, certificates and licence that end.
SPECIFICATION Spec
CONSTANTS
    h1 = h1  h2 = h2  t1 = t1  t2 = t2  k1 = k1  k2 = k2
    Handles = {h1}
    Threads = {t1}
    HandleOf <- OneThread
    Keys = {k1}
    MaxAid = 2
    GracePeriod = 2
    LicenceEnd = 4
    ChainLifetimes = {1, 99}
    LATTE_MIN_RENEWAL_SECS = 1
    LATTE_MAX_RENEWAL_SECS = 1
    LATTE_MAX_AGE_SECS = 99
    MaxTime = 5
    MaxLate = 0
    Faults = {"revoke", "untrusted", "busy", "rekeyed", "blocked", "spawn", "save", "crash"}
INVARIANTS
    ReleaseIsFinal
PROPERTIES
    LiveSeatNeverForgotten
    AcceptedWithinGrace
