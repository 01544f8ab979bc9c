SPECIFICATION Spec
CONSTANTS
    m1 = m1  m2 = m2  sub = sub  proj = proj  day = day  other = other
    Absent = Absent  NotANumber = NotANumber  NoKey = NoKey
    Masters = {m1, m2}
    Keypairs <- MCKeypairs
    Bundles <- MCBundles
    MachineId = "m"
    Horizon = 11
    LATTE_MAX_GRACE_SECS = 3
    LATTE_MAX_AGE_SECS = 3
    LATTE_MAX_RENEWAL_SECS = 1
    LATTE_NO_EXPIRY = 10
    Int64End = 8
    Significand = 4
    Unit = 2
    Spacings = {1, 2, 4, 8}
    NoName = NoName
INVARIANTS
    TypeOK
    LivesUntilItsEnd
    DailyKeyOutlived
    NeverTooOld
    FormatsAgree
    EntitlementsAreSigned
