------------------------------- MODULE Verify -------------------------------
(***************************************************************************)
(* src/src/verify.c, crypto/cert.c and crypto/jwt.c: the chain master ->   *)
(* submaster -> project -> daily -> activation token, walked every time    *)
(* the cached token is read, and the licence that comes out of it, to      *)
(* which validate.c applies the rules of module Validate.                  *)
(*                                                                         *)
(* A signature is the key that made it, and a certificate's public key is  *)
(* a key or NoKey; a claim that is missing is Absent and one of the wrong  *)
(* JSON type is NotANumber.  The machine below holds one bundle (a token   *)
(* with its chain) and never reaches the server again: only time passes.   *)
(***************************************************************************)
EXTENDS Validate, Entitlements

CONSTANTS
    Masters,               \* the trusted master keys of constants.h
    Keypairs,              \* every key there is
    LATTE_MAX_GRACE_SECS,  \* longest grace period a token may have
    LATTE_NO_EXPIRY,       \* the end of a licence that has none
    Absent, NotANumber,    \* claims that are missing, or no number
    NoKey,                 \* a public key that does not decode
    Bundles,               \* the tokens and chains considered
    MachineId,             \* ll_machine_id on this machine
    Horizon                \* bound: the clock stops here

Claim == Int \cup {Absent, NotANumber}
Names == STRING

\* The claims the code reads; iss says whether the issuer is LATTE_ISSUER.
Certificate == [signer : Keypairs, pub : Keypairs \cup {NoKey}, iss : BOOLEAN,
                iat : Claim, nbf : Claim, exp : Claim, pid : Names \cup {Absent}]
ActivationToken == [signer : Keypairs, iss : BOOLEAN, iat : Claim, exp : Claim,
                    grc : Claim, lex : Claim, pid : Names \cup {Absent}, mid : Names,
                    ent : EntClaim]
Bundle == [submaster : Certificate, project : Certificate, daily : Certificate,
           token : ActivationToken]

ASSUME MastersAssumption == Masters \subseteq Keypairs /\ NoKey \notin Keypairs
ASSUME GraceAssumption ==
    LATTE_MAX_GRACE_SECS \in Nat /\ LATTE_MAX_GRACE_SECS <= LATTE_MAX_AGE_SECS
ASSUME ClaimsAssumption == {Absent, NotANumber} \cap Int = {} /\ Absent # NotANumber
ASSUME NoExpiryAssumption == LATTE_NO_EXPIRY \in Nat
ASSUME BundlesAssumption == Bundles \subseteq Bundle
ASSUME MachineIdAssumption == MachineId \in Names
ASSUME HorizonAssumption == Horizon \in Nat

-----------------------------------------------------------------------------
\* ll_jwt_int64_claim: ok, and the value.  A claim's double is truncated to an
\* int64_t there; dates and lengths in seconds are whole and far below 2^53.
Given(claim) == claim \in Int
IntClaim(claim) == IF Given(claim) THEN claim ELSE 0

\* ll_jwt_verify_ed25519: the signature and the issuer.
Signed(jwt, key) == jwt.signer = key /\ jwt.iss

\* verify_cert, but for exp; a claim counts only if it is a number.
VerifyCertIgnoringExpiry(cert, parent, now) ==
    /\ Signed(cert, parent)
    /\ Given(cert.nbf) => cert.nbf <= now
    /\ Given(cert.iat) => cert.iat <= now

VerifyCert(cert, parent, now) ==
    /\ VerifyCertIgnoringExpiry(cert, parent, now)
    /\ Given(cert.exp) => now <= cert.exp

\* Mutant of DailyVerified: the daily certificate expires like the others.
DailyVerifiedUntilExpiry(b, now) == VerifyCert(b.daily, b.project.pub, now)

\* Step 3 of ll_verify_activation_any_at: the daily certificate's exp is not
\* held against now.
DailyVerified(b, now) == VerifyCertIgnoringExpiry(b.daily, b.project.pub, now)

\* Steps 1 to 4: each certificate's key signs the next, and has to be a key.
ChainVerified(b, now) ==
    /\ \E m \in Masters : VerifyCert(b.submaster, m, now)
    /\ b.submaster.pub # NoKey
    /\ VerifyCert(b.project, b.submaster.pub, now)
    /\ b.project.pub # NoKey
    /\ DailyVerified(b, now)
    /\ b.daily.pub # NoKey
    /\ Signed(b.token, b.daily.pub)

\* Two formats: with grc, exp is the licence's end and grc the grace period;
\* without it exp is the offline deadline and lex, if there, the licence's end.
HasGrc(tok) == tok.grc # Absent
ExpiresAt(tok) ==
    IF HasGrc(tok) THEN tok.exp
    ELSE IF Given(tok.lex) THEN tok.lex ELSE LATTE_NO_EXPIRY

\* Mutant of GracePeriodOf: exp is a length, whatever the format.
GracePeriodIsExp(tok) == IF ~HasGrc(tok) THEN tok.exp ELSE IntClaim(tok.grc)

GracePeriodOf(tok) ==
    IF ~HasGrc(tok) THEN tok.exp - tok.iat ELSE IntClaim(tok.grc)

\* Mutant of ClaimsAccepted: no bound on the grace period.
ClaimsAcceptedUnbounded(tok) ==
    /\ Given(tok.iat) /\ Given(tok.exp)
    /\ ~HasGrc(tok) => tok.lex # NotANumber

\* Lines 101-129.
ClaimsAccepted(tok) ==
    /\ Given(tok.iat) /\ Given(tok.exp)
    /\ ~HasGrc(tok) => tok.lex # NotANumber
    /\ GracePeriodOf(tok) <= LATTE_MAX_GRACE_SECS

\* Lines 131-135: an empty or missing pid matches any.
SameProject(b) ==
    b.project.pid \in {Absent, ""} \/ b.token.pid \in {Absent, b.project.pid}

\* Mutant of DatedInItsDay: the end of the day is not looked at.
DatedAfterItsDayBegan(b) == Given(b.daily.iat) /\ b.daily.iat <= b.token.iat

\* Lines 137-148: the token is dated within its daily certificate's window.
DatedInItsDay(b) ==
    /\ Given(b.daily.iat) /\ b.daily.iat <= b.token.iat
    /\ Given(b.daily.exp) /\ b.token.iat <= b.daily.exp

\* ll_verify_activation_any_at returns 0.
VerifyActivation(b, now) ==
    ChainVerified(b, now) /\ ClaimsAccepted(b.token) /\ SameProject(b) /\ DatedInItsDay(b)

\* What it returns then: the fields of ll_license the rules read.
LicenceOf(tok) ==
    [issued_at |-> tok.iat, expires_at |-> ExpiresAt(tok),
     grace_period |-> GracePeriodOf(tok), machine_id_hash |-> tok.mid]

\* Mutant of Verdict: err_code is not set on entry (line 60).
VerdictUnset(b, now) ==
    IF VerifyActivation(b, now) THEN ValidateAt(LicenceOf(b.token), MachineId, now)
    ELSE "unset"

\* What becomes of the cached token when it is read: verify, then validate.
Verdict(b, now) ==
    IF VerifyActivation(b, now) THEN ValidateAt(LicenceOf(b.token), MachineId, now)
    ELSE "INVALID_LICENSE"

-----------------------------------------------------------------------------
VARIABLES
    bundle,    \* the cached token and its chain
    clock,     \* time(NULL)
    verdict,   \* what the last read of the cache came to
    accepted,  \* whether any read has accepted it
    licence    \* the entitlements of the licence it handed out

vars == <<bundle, clock, verdict, accepted, licence>>

\* The licence of a token that is refused is freed.
HandedOut(b, outcome) ==
    IF outcome = "OK" THEN PublicEntitlements(b.token.ent) ELSE DecodeEntitlements(NoEnt)

Init ==
    /\ bundle \in Bundles
    /\ clock = 0
    /\ verdict = Verdict(bundle, clock)
    /\ accepted = (verdict = "OK")
    /\ licence \in HandedOut(bundle, verdict)

\* Time passes, by any amount, and the cache is read again.
Read ==
    /\ clock' \in clock .. Horizon
    /\ verdict' = Verdict(bundle, clock')
    /\ accepted' = (accepted \/ verdict' = "OK")
    /\ licence' \in HandedOut(bundle, verdict')
    /\ UNCHANGED bundle

Next == Read
Spec == Init /\ [][Next]_vars

-----------------------------------------------------------------------------
\* The outcome of a read is always one of the port's errors.
TypeOK ==
    /\ bundle \in Bundle
    /\ clock \in Nat
    /\ verdict \in PortErrors
    /\ accepted \in BOOLEAN
    /\ licence.has_entitlements \in BOOLEAN
    /\ \A i \in DOMAIN licence.list : licence.list[i] \in Entry

\* The life a bundle has once it has been accepted: it ends with the licence,
\* the grace period, or the submaster or project certificate.
InLife(b, now) == LET lic == LicenceOf(b.token) IN
    /\ now <= lic.expires_at
    /\ now <= OfflineDeadline(lic)
    /\ Given(b.submaster.exp) => now <= b.submaster.exp
    /\ Given(b.project.exp) => now <= b.project.exp

\* A token that has been accepted stays accepted exactly until the end of its
\* life, offline: the daily certificate, which ends five minutes into the next
\* day, does not cut its grace period (test_daily_cert.c:1-5), and a token
\* refused after its life is never accepted again.
LivesUntilItsEnd == accepted => (verdict = "OK" <=> InLife(bundle, clock))

\* A daily key signs nothing that is accepted later than LATTE_MAX_GRACE_SECS
\* after the end of its own day, whatever dates and grace period the token
\* claims, in either format (verify.c:129, 143-148).
DailyKeyOutlived ==
    verdict = "OK" =>
        Given(bundle.daily.exp) /\ clock <= bundle.daily.exp + LATTE_MAX_GRACE_SECS

\* LICENSE_TOO_OLD is never the answer: no grace period that verify.c:129 lets
\* through is longer than LATTE_MAX_AGE_SECS, so a token that old has outlived
\* it, and GRACE_PERIOD_EXPIRED comes first (validate.c:51-55).
NeverTooOld == verdict # "LICENSE_TOO_OLD"

\* The same licence written in the other format.
InLexFormat(tok) ==
    [tok EXCEPT !.exp = tok.iat + tok.grc, !.grc = Absent,
                !.lex = IF tok.exp = LATTE_NO_EXPIRY THEN Absent ELSE tok.exp]

\* A token with grc and its translation to the format without are read alike
\* at every time (verify.c:105-113).
FormatsAgree ==
    Given(bundle.token.iat) /\ Given(bundle.token.exp) /\ Given(bundle.token.grc) =>
        verdict = Verdict([bundle EXCEPT !.token = InLexFormat(@)], clock)

\* n is the number signed as v, to half the distance of the doubles there: that
\* number itself, up to 2^53 if it is whole.
Near(v, n) == LET fitting == {s \in Spacings : Magnitude(v) <= Significand * s} IN
    fitting # {} /\ \A s \in fitting : 2 * Magnitude(Unit * n - v) <= s

SaysTrue(item) == item.type = "bool" /\ item.value = 1
SaysNumber(item, n) == item.type = "number" /\ InInt64(n) /\ Near(item.value, n)

\* A boolean, or a whole number no conversion can touch.
Plain(item) ==
    \/ item.type = "bool"
    \/ /\ item.type = "number"
       /\ item.value % Unit = 0 /\ InInt64(item.value \div Unit)
       /\ Magnitude(item.value) <= Significand * Unit

\* Entry i is the first of its name that was decoded, and still has that name.
Decides(items, list, i) ==
    /\ list[i].key # NoName
    /\ \A j \in DOMAIN list : j < i => items[j].key # items[i].key

\* Whatever memory runs out on the way: what latte_can grants was signed as true;
\* what latte_limit answers fits an int64_t and is a number signed under that
\* name, but for what a double cannot tell; the first usable item of a name
\* decides unless its own key was lost; and while there is a list, no plain item
\* is missing from it.  latte_has_entitlements tells a token with an empty claim
\* from one that predates it (entitlements.c:16-104, README.md:811-841).
EntitlementsAreSigned == verdict = "OK" =>
    LET items == bundle.token.ent.items  list == licence.list IN
    /\ HasEntitlements(licence) <=> bundle.token.ent.object
    /\ \A key \in {items[i].key : i \in DOMAIN items} :
        LET named == {items[i] : i \in {i \in DOMAIN items : items[i].key = key}} IN
        /\ Can(licence, key) => \E item \in named : SaysTrue(item)
        /\ \A n \in Limit(licence, key) : \E item \in named : SaysNumber(item, n)
    /\ \A i \in DOMAIN list : Decides(items, list, i) =>
        LET item == items[i] IN
        /\ Can(licence, item.key) <=> SaysTrue(item)
        /\ Limit(licence, item.key) # {} <=> item.type = "number"
        /\ \A n \in Limit(licence, item.key) : SaysNumber(item, n)
    /\ DOMAIN list # {} => \A i \in DOMAIN items : Plain(items[i]) => i \in DOMAIN list
=============================================================================
