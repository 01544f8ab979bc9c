\* One process and one thread; a captive portal and a proxy in the way.
SPECIFICATION ExchangeSpec
CONSTANTS
    h1 = h1  t1 = t1  k1 = k1
    Handles = {h1}
    Threads = {t1}
    HandleOf <- OneThread
    Keys = {k1}
    MaxAid = 1
    GracePeriod = 1
    LicenceEnd = 99
    ChainLifetimes = {99}
    LATTE_MIN_RENEWAL_SECS = 1
    LATTE_MAX_RENEWAL_SECS = 0
    LATTE_MAX_AGE_SECS = 99
    MaxTime = 2
    MaxLate = 0
    Faults = {"busy", "malformed", "blocked", "revoke", "lost", "crash"}
    Pages = {200, 302, 403, 404, 409, 511}
    Stamps <- MCStamps
INVARIANTS
    ExchangeTypeOK
    OkMeansReleased
    TimesAreRight
PROPERTIES
    AnswersAreOutcomes
    LicenceLostOnlyToAVerdict
