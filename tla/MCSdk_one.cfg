\* One process, one application thread, two licence keys: lost messages, crashes.
SPECIFICATION Spec
CONSTANTS
    h1 = h1  h2 = h2  t1 = t1  t2 = t2  k1 = k1  k2 = k2
    Handles = {h1}
    Threads = {t1}
    HandleOf <- OneThread
    Keys = {k1, k2}
    MaxAid = 2
    GracePeriod = 2
    LicenceEnd = 99
    ChainLifetimes = {99}
    LATTE_MIN_RENEWAL_SECS = 1
    LATTE_MAX_RENEWAL_SECS = 0
    LATTE_MAX_AGE_SECS = 99
    MaxTime = 3
    MaxLate = 1
    Faults = {"lost", "crash"}
INVARIANTS
    TypeOK
    OneRenewalAtATime
    JoinNeverWaits
    RenewalWritesOnlyItsOwn
    ReleaseIsFinal
    RenewFailedIsCurrent
PROPERTIES
    LiveSeatNeverForgotten
    InGraceIsOfThisLicence
SYMMETRY SwapKeys
