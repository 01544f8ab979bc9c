------------------------------ MODULE Validate ------------------------------
(***************************************************************************)
(* src/src/validate.c: the grace-period and expiry rules applied to a      *)
(* licence whose signature chain has already been verified.  Every entry   *)
(* point that reads the cached token (latte_check, the fast path of        *)
(* latte_activate, the renewal thread) takes its decision here.            *)
(*                                                                         *)
(* A licence is a record with at least the fields issued_at, expires_at,   *)
(* grace_period and machine_id_hash, as struct ll_license has.             *)
(***************************************************************************)
EXTENDS Integers

CONSTANTS
    LATTE_MAX_RENEWAL_SECS,   \* age from which a token is renewed
    LATTE_MAX_AGE_SECS        \* age past which a token is refused outright

ASSUME RenewalAgeAssumption == LATTE_MAX_RENEWAL_SECS \in Nat
ASSUME MaxAgeAssumption == LATTE_MAX_AGE_SECS \in Nat

PortErrors == {"OK", "INVALID_LICENSE", "MACHINE_ID_MISMATCH",
               "LICENSE_INACTIVE_OR_EXPIRED", "GRACE_PERIOD_EXPIRED",
               "LICENSE_TOO_OLD"}

Age(lic, now) == now - lic.issued_at

\* Mutant of LicenseIsValid: the licence's end is taken for the token's.
LicenseIsValidUntilExpiry(lic, now) == now <= lic.expires_at

\* ll_license_is_valid
LicenseIsValid(lic, now) == Age(lic, now) <= lic.grace_period

\* ll_in_grace_period_at: the flag latte_license carries to the application.
InGracePeriodAt(lic, now, renewal_failed) ==
    /\ renewal_failed
    /\ Age(lic, now) > LATTE_MAX_RENEWAL_SECS
    /\ Age(lic, now) < lic.grace_period

OfflineDeadline(lic) == lic.issued_at + lic.grace_period

\* A claim that is absent decodes to zero, so zero means missing here.
MissingClaim(lic) == lic.issued_at = 0 \/ lic.expires_at = 0

\* ll_validate_at: the first rule that fails names the error.
ValidateAt(lic, machine_id, now) ==
    IF MissingClaim(lic) \/ lic.grace_period <= 0 THEN "INVALID_LICENSE"
    ELSE IF lic.machine_id_hash # machine_id       THEN "MACHINE_ID_MISMATCH"
    ELSE IF lic.expires_at < lic.issued_at         THEN "INVALID_LICENSE"
    ELSE IF now > lic.expires_at                   THEN "LICENSE_INACTIVE_OR_EXPIRED"
    ELSE IF now > OfflineDeadline(lic)             THEN "GRACE_PERIOD_EXPIRED"
    ELSE IF Age(lic, now) > LATTE_MAX_AGE_SECS     THEN "LICENSE_TOO_OLD"
    ELSE "OK"
=============================================================================
