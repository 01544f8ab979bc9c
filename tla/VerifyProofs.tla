---------------------------- MODULE VerifyProofs ----------------------------
(***************************************************************************)
(* Proofs about the life of an activation token, for every token and chain *)
(* of every Bundles, in both formats, and every value of the limits.       *)
(***************************************************************************)
EXTENDS Verify, TLAPS

\* What the constants are, for the proofs below.
LEMMA Constants ==
    /\ Absent \notin Int /\ NotANumber \notin Int /\ Absent # NotANumber
    /\ LATTE_MAX_GRACE_SECS \in Nat /\ LATTE_MAX_AGE_SECS \in Nat
    /\ LATTE_MAX_GRACE_SECS <= LATTE_MAX_AGE_SECS
    /\ LATTE_NO_EXPIRY \in Nat /\ Horizon \in Nat
    /\ Bundles \subseteq Bundle
BY ClaimsAssumption, GraceAssumption, MaxAgeAssumption, NoExpiryAssumption,
   HorizonAssumption, BundlesAssumption

\* The inductive invariant: the verdict is that of the present time, a token
\* that has been accepted was accepted at some time that is past, and the
\* licence handed out is that of the token.
ReadInStep ==
    /\ bundle \in Bundle
    /\ clock \in Nat
    /\ verdict = Verdict(bundle, clock)
    /\ accepted \in BOOLEAN
    /\ accepted => \E t \in Nat : t <= clock /\ Verdict(bundle, t) = "OK"
    /\ licence \in HandedOut(bundle, verdict)

THEOREM Reads == Spec => []ReadInStep
<1>1. Init => ReadInStep
  <2> SUFFICES ASSUME Init PROVE ReadInStep
    OBVIOUS
  <2>1. bundle \in Bundle /\ clock = 0 /\ verdict = Verdict(bundle, clock)
        /\ accepted = (verdict = "OK")
    BY Constants DEF Init
  <2>0. licence \in HandedOut(bundle, verdict)
    BY DEF Init
  <2>2. accepted \in BOOLEAN /\ (accepted => Verdict(bundle, clock) = "OK")
    BY <2>1
  <2>3. clock \in Nat /\ clock <= clock
    BY <2>1
  <2> HIDE DEF Init
  <2> QED BY <2>0, <2>1, <2>2, <2>3, Zenon DEF ReadInStep
<1>2. ReadInStep /\ [Next]_vars => ReadInStep'
  <2> SUFFICES ASSUME ReadInStep, [Next]_vars PROVE ReadInStep'
    OBVIOUS
  <2>1. CASE Read
    <3>1. clock' \in Nat /\ clock <= clock' /\ UNCHANGED bundle
      BY <2>1, Constants DEF Read, ReadInStep
    <3>2. verdict' = Verdict(bundle, clock') /\ accepted' = (accepted \/ verdict' = "OK")
      BY <2>1 DEF Read
    <3>3. accepted' \in BOOLEAN /\ bundle' \in Bundle
      BY <3>1, <3>2 DEF ReadInStep
    <3>4. ASSUME accepted' PROVE \E t \in Nat : t <= clock' /\ Verdict(bundle, t) = "OK"
      <4>1. CASE verdict' = "OK"
        <5>1. clock' \in Nat /\ clock' <= clock' /\ Verdict(bundle, clock') = "OK"
          BY <3>1, <3>2, <4>1
        <5> QED BY <5>1, Zenon
      <4>2. CASE accepted
        <5>1. PICK t \in Nat : t <= clock /\ Verdict(bundle, t) = "OK"
          BY <4>2 DEF ReadInStep
        <5> QED BY <5>1, <3>1 DEF ReadInStep
      <4> QED BY <3>2, <3>4, <4>1, <4>2
    <3>5. licence' \in HandedOut(bundle', verdict')
      BY <2>1, <3>1 DEF Read
    <3> HIDE DEF Read
    <3> QED BY <3>1, <3>2, <3>3, <3>4, <3>5 DEF ReadInStep
  <2>2. CASE UNCHANGED vars
    BY <2>2 DEF vars, ReadInStep
  <2> QED BY <2>1, <2>2 DEF Next
<1> QED BY <1>1, <1>2, PTL DEF Spec

\* The licence of a token whose claims are accepted has numbers for its dates.
LEMMA LicenceNumbers ==
    ASSUME NEW b \in Bundle, ClaimsAccepted(b.token)
    PROVE  /\ b.token.iat \in Int
           /\ ExpiresAt(b.token) \in Int
           /\ GracePeriodOf(b.token) \in Int
           /\ GracePeriodOf(b.token) <= LATTE_MAX_GRACE_SECS
<1>1. b.token.iat \in Int /\ b.token.exp \in Int
  BY DEF ClaimsAccepted, Given
<1>2. ExpiresAt(b.token) \in Int
  BY <1>1, Constants DEF ExpiresAt, Given
<1>3. GracePeriodOf(b.token) \in Int
  BY <1>1 DEF GracePeriodOf, IntClaim, Given
<1> QED BY <1>1, <1>2, <1>3 DEF ClaimsAccepted

\* When a bundle is accepted, spelt out.
LEMMA AcceptedWhen ==
    ASSUME NEW b \in Bundle, NEW now \in Nat
    PROVE  LET tok == b.token IN
           Verdict(b, now) = "OK" <=>
             /\ VerifyActivation(b, now)
             /\ tok.iat # 0 /\ ExpiresAt(tok) # 0 /\ GracePeriodOf(tok) > 0
             /\ tok.mid = MachineId
             /\ ExpiresAt(tok) >= tok.iat
             /\ now <= ExpiresAt(tok) /\ now <= tok.iat + GracePeriodOf(tok)
             /\ now - tok.iat <= LATTE_MAX_AGE_SECS
<1>1. CASE ~VerifyActivation(b, now)
  BY <1>1 DEF Verdict
<1>2. CASE VerifyActivation(b, now)
  <2>1. /\ b.token.iat \in Int /\ ExpiresAt(b.token) \in Int
        /\ GracePeriodOf(b.token) \in Int
    BY <1>2, LicenceNumbers DEF VerifyActivation
  <2>2. /\ LicenceOf(b.token).issued_at = b.token.iat
        /\ LicenceOf(b.token).expires_at = ExpiresAt(b.token)
        /\ LicenceOf(b.token).grace_period = GracePeriodOf(b.token)
        /\ LicenceOf(b.token).machine_id_hash = b.token.mid
    BY DEF LicenceOf
  <2> QED BY <1>2, <2>1, <2>2, Constants
          DEF Verdict, ValidateAt, MissingClaim, OfflineDeadline, Age
<1> QED BY <1>1, <1>2

\* Division by a divisor that is not known.
LEMMA Division ==
    ASSUME NEW v \in Int, NEW s \in Nat \ {0}
    PROVE  /\ v \div s \in Int /\ v % s \in Nat /\ v % s < s
           /\ v = ((v \div s) * s) + (v % s)
OBVIOUS

\* Rounding misses by half a spacing at most, and not at all on a multiple.
LEMMA Rounding ==
    ASSUME NEW v \in Int, NEW s \in Nat \ {0}
    PROVE  /\ RoundHalfEven(v, s) \in Int
           /\ 2 * Magnitude(RoundHalfEven(v, s) - v) <= s
           /\ v % s = 0 => RoundHalfEven(v, s) = v
<1> DEFINE q == v \div s
           r == v % s
           d == RoundHalfEven(v, s)
<1>1. q \in Int /\ r \in Nat /\ r < s /\ v = (q * s) + r
  BY Division
<1>2. \/ d = q * s /\ 2 * r <= s
      \/ d = (q + 1) * s /\ 2 * r >= s
  BY <1>1 DEF RoundHalfEven
<1>3. (q + 1) * s = (q * s) + s /\ q * s \in Int
  BY <1>1
<1>4. \/ d = v - r /\ 2 * r <= s
      \/ d = v - r + s /\ 2 * r >= s
  <2> HIDE DEF q, r, d
  <2> QED BY <1>1, <1>2, <1>3
<1> HIDE DEF q, r, d
<1>5. d \in Int /\ 2 * Magnitude(d - v) <= s /\ (r = 0 => d = v)
  BY <1>1, <1>4 DEF Magnitude
<1> QED BY <1>5 DEF r, d

\* A multiple leaves no rest.
LEMMA MultipleDivides ==
    ASSUME NEW s \in Nat \ {0}, NEW n \in Int
    PROVE  (n * s) % s = 0
OBVIOUS

\* What the constants of a double are.
LEMMA Doubles ==
    /\ Significand \in Nat \ {0} /\ Unit \in Nat \ {0} /\ Unit \in Spacings
    /\ Spacings \subseteq Nat \ {0}
    /\ \A s, t \in Spacings : s < 2 * t => t % s = 0
BY DoubleAssumption

\* A magnitude is a natural number, and its own magnitude.
LEMMA Magnitudes ==
    ASSUME NEW v \in Int
    PROVE  Magnitude(v) \in Nat /\ Magnitude(Magnitude(v)) = Magnitude(v)
BY DEF Magnitude

\* The spacing of v divides every spacing that v fits.
LEMMA FinestSpacing ==
    ASSUME NEW v \in Int, NEW s \in Spacings, Covers(s, v),
           NEW t \in Spacings, Magnitude(v) <= Significand * t
    PROVE  t % s = 0 /\ s <= t
<1>1. /\ s \in Nat \ {0} /\ t \in Nat \ {0} /\ Significand \in Nat \ {0}
      /\ Magnitude(v) \in Nat
  BY Doubles, Magnitudes
<1>2. s < 2 * t
  <2>1. CASE s = 1
    BY <1>1, <2>1
  <2>2. CASE Significand * s < 2 * Magnitude(v)
    <3>1. Significand * s < Significand * (2 * t)
      BY <1>1, <2>2
    <3> QED BY <1>1, <3>1
  <2> QED BY <2>1, <2>2 DEF Covers
<1>3. t % s = 0
  BY <1>2, Doubles
<1>4. t = ((t \div s) * s) + (t % s) /\ t \div s \in Int
  BY <1>1, Division
<1>5. s <= t
  <2> DEFINE k == t \div s
  <2>1. t = k * s /\ k \in Int
    BY <1>1, <1>3, <1>4
  <2> HIDE DEF k
  <2>2. k >= 1
    BY <1>1, <2>1
  <2> QED BY <1>1, <2>1, <2>2
<1> QED BY <1>3, <1>5

\* Half a spacing is what a double may miss a literal by.
LEMMA DoubleIsNear ==
    ASSUME NEW v \in Int, Finite(v)
    PROVE  /\ Double(v) \in Int
           /\ \E s \in Spacings : Covers(s, v) /\ (v % s = 0 => Double(v) = v)
           /\ Double(v) % Unit = 0 =>
                Double(v) \div Unit \in Int /\ Near(v, Double(v) \div Unit)
<1> DEFINE s == CHOOSE s \in Spacings : Covers(s, v)
           n == Double(v) \div Unit
<1>1. s \in Spacings /\ Covers(s, v) /\ s \in Nat \ {0}
  <2>1. s \in Spacings /\ Covers(s, v)
    BY DEF Finite
  <2> QED BY <2>1, Doubles
<1>2. Double(v) = RoundHalfEven(v, s)
  BY DEF Double
<1> HIDE DEF s
<1>3. /\ Double(v) \in Int
      /\ 2 * Magnitude(Double(v) - v) <= s
      /\ v % s = 0 => Double(v) = v
  BY <1>1, <1>2, Rounding
<1>4. ASSUME Double(v) % Unit = 0 PROVE n \in Int /\ Near(v, n)
  <2>1. n \in Int /\ Double(v) = (n * Unit) + (Double(v) % Unit)
    BY <1>3, Doubles, Division
  <2> HIDE DEF n
  <2>2. Unit * n = Double(v)
    BY <1>3, <1>4, <2>1, Doubles
  <2>3. ASSUME NEW t \in Spacings, Magnitude(v) <= Significand * t
        PROVE  2 * Magnitude(Unit * n - v) <= t
    <3>1. s <= t /\ t \in Nat
      BY <1>1, <2>3, FinestSpacing, Doubles
    <3>2. 2 * Magnitude(Unit * n - v) <= s
      BY <1>3, <2>2
    <3>3. Magnitude(Unit * n - v) \in Nat
      BY <1>3, <2>2, Magnitudes
    <3> QED BY <1>1, <3>1, <3>2, <3>3
  <2>4. Magnitude(v) <= Significand * s
    BY <1>1 DEF Covers
  <2> QED BY <1>1, <2>1, <2>3, <2>4 DEF Near
<1> QED BY <1>1, <1>3, <1>4 DEF n

\* What a decoded item answers is what it says.
LEMMA DecodedIsSaid ==
    ASSUME NEW item \in Item, Decodes(item)
    PROVE  /\ item.type \in {"bool", "number"}
           /\ item.type = "bool" => DecodedValue(item) = item.value
           /\ item.type = "number" => SaysNumber(item, DecodedValue(item))
           /\ DecodedValue(item) \in Int
<1>1. item.value \in Int
  BY DEF Item
<1>2. CASE item.type = "bool"
  BY <1>1, <1>2 DEF DecodedValue
<1>3. CASE item.type = "number"
  <2>1. DecodedValue(item) = Double(item.value) \div Unit
    BY <1>3 DEF DecodedValue
  <2>2. /\ Finite(item.value) /\ Double(item.value) % Unit = 0
        /\ InInt64(Double(item.value) \div Unit)
    BY <1>3 DEF Decodes
  <2>3. Double(item.value) \div Unit \in Int /\ Near(item.value, Double(item.value) \div Unit)
    BY <1>1, <2>2, DoubleIsNear
  <2> QED BY <1>3, <2>1, <2>2, <2>3 DEF SaysNumber
<1> QED BY <1>2, <1>3 DEF Decodes

\* Whole numbers up to 2^53 come through as they are.
LEMMA PlainDecodes ==
    ASSUME NEW item \in Item, Plain(item)
    PROVE  Decodes(item)
<1> DEFINE v == item.value
<1>1. v \in Int
  BY DEF Item
<1> SUFFICES ASSUME item.type = "number", v % Unit = 0, InInt64(v \div Unit),
                    Magnitude(v) <= Significand * Unit
             PROVE  Decodes(item)
  BY DEF Plain, Decodes
<1>2. Finite(v)
  <2>1. Magnitude(v) \in 0 .. Significand * Unit
    BY <1>1, Magnitudes, Doubles
  <2>2. PICK s \in Spacings : Covers(s, Magnitude(v))
    BY <2>1, DoubleAssumption
  <2>3. Covers(s, v)
    BY <1>1, <2>2, Magnitudes DEF Covers
  <2> QED BY <2>3 DEF Finite
<1>3. PICK s \in Spacings : Covers(s, v) /\ (v % s = 0 => Double(v) = v)
  BY <1>1, <1>2, DoubleIsNear
<1>4. s \in Nat \ {0} /\ Unit % s = 0
  BY <1>1, <1>3, FinestSpacing, Doubles
<1>5. v % s = 0
  <2> DEFINE k == v \div Unit
             m == Unit \div s
  <2>1. k \in Int /\ v = (k * Unit) + (v % Unit)
    BY <1>1, Doubles, Division
  <2>2. m \in Int /\ Unit = (m * s) + (Unit % s)
    BY <1>4, Doubles, Division
  <2> HIDE DEF k, m
  <2>3. v = k * Unit /\ Unit = m * s
    BY <1>1, <1>4, <2>1, <2>2, Doubles
  <2>4. v = (k * m) * s /\ k * m \in Int
    BY <1>4, <2>1, <2>2, <2>3
  <2>5. ((k * m) * s) % s = 0
    BY <1>4, <2>4, MultipleDivides
  <2> QED BY <2>4, <2>5
<1>6. Double(v) = v
  BY <1>3, <1>5
<1> QED BY <1>2, <1>6 DEF Decodes
\* A claim that has items is an object, and its items are items.
LEMMA ClaimItems ==
    ASSUME NEW ent \in EntClaim
    PROVE  /\ ent.object \in BOOLEAN
           /\ DOMAIN ent.items \subseteq Nat \ {0}
           /\ \A i \in DOMAIN ent.items : ent.object /\ ent.items[i] \in Item
<1>1. CASE ent = NoEnt
  <2>1. ent.items = <<>> /\ ent.object = FALSE
    BY <1>1 DEF NoEnt
  <2>2. DOMAIN <<>> = {}
    OBVIOUS
  <2> QED BY <2>1, <2>2
<1>2. CASE ent \in [object : {TRUE}, items : Seq(Item)]
  <2>1. ent.object = TRUE /\ ent.items \in Seq(Item)
    BY <1>2
  <2> HIDE DEF Item
  <2>2. \A s \in Seq(Item) :
          DOMAIN s \subseteq Nat \ {0} /\ \A i \in DOMAIN s : s[i] \in Item
    OBVIOUS
  <2> QED BY <2>1, <2>2
<1> QED BY <1>1, <1>2 DEF EntClaim


\* A copy is empty or has every entry, with its name or without.
LEMMA CopiesAreParts ==
    ASSUME NEW list, \A i \in DOMAIN list : list[i] \in Entry,
           NEW copy \in Copies(list)
    PROVE  /\ DOMAIN copy \in {{}, DOMAIN list}
           /\ \A i \in DOMAIN copy :
                /\ copy[i] \in Entry
                /\ copy[i].key \in {list[i].key, NoName}
                /\ copy[i].type = list[i].type /\ copy[i].value = list[i].value
<1>1. CASE copy = <<>>
  <2>1. DOMAIN <<>> = {}
    OBVIOUS
  <2> QED BY <1>1, <2>1
<1>2. ASSUME NEW lost \in SUBSET DOMAIN list,
             copy = [i \in DOMAIN list |->
                        IF i \in lost THEN [list[i] EXCEPT !.key = NoName] ELSE list[i]]
      PROVE  /\ DOMAIN copy = DOMAIN list
             /\ \A i \in DOMAIN copy :
                  /\ copy[i] \in Entry
                  /\ copy[i].key \in {list[i].key, NoName}
                  /\ copy[i].type = list[i].type /\ copy[i].value = list[i].value
  <2>1. ASSUME NEW i \in DOMAIN list, NEW e, e = [list[i] EXCEPT !.key = NoName]
        PROVE  /\ e \in Entry /\ e.key = NoName
               /\ e.type = list[i].type /\ e.value = list[i].value
    <3>1. list[i] \in Entry
      OBVIOUS
    <3> QED BY <2>1, <3>1 DEF Entry
  <2> QED BY <1>2, <2>1
<1> QED BY <1>1, <1>2 DEF Copies

\* What was decoded is the claim, less what memory did not suffice for.
LEMMA DecodedIsPartOf ==
    ASSUME NEW ent \in EntClaim, NEW lic \in DecodeEntitlements(ent)
    PROVE  /\ lic = [has_entitlements |-> ent.object, list |-> lic.list]
           /\ DOMAIN lic.list \in {{}, Usable(ent)}
           /\ \A i \in DOMAIN lic.list :
                /\ lic.list[i] \in Entry
                /\ lic.list[i].key \in {ent.items[i].key, NoName}
                /\ lic.list[i].type = ent.items[i].type
                /\ lic.list[i].value = DecodedValue(ent.items[i])
<1> DEFINE all == [i \in Usable(ent) |-> DecodedEntry(ent.items[i])]
<1>1. ASSUME NEW i \in Usable(ent)
      PROVE  /\ DecodedEntry(ent.items[i]) \in Entry
             /\ DecodedEntry(ent.items[i]).key = ent.items[i].key
             /\ DecodedEntry(ent.items[i]).type = ent.items[i].type
             /\ DecodedEntry(ent.items[i]).value = DecodedValue(ent.items[i])
  <2>1. ent.items[i] \in Item /\ Decodes(ent.items[i])
    BY ClaimItems DEF Usable
  <2>2. /\ ent.items[i].type \in {"bool", "number"}
        /\ DecodedValue(ent.items[i]) \in Int
    BY <2>1, DecodedIsSaid
  <2>3. ent.items[i].key \in STRING
    BY <2>1 DEF Item
  <2> QED BY <2>2, <2>3 DEF DecodedEntry, Entry
<1>2. /\ DOMAIN all = Usable(ent)
      /\ \A i \in DOMAIN all : all[i] = DecodedEntry(ent.items[i]) /\ all[i] \in Entry
  BY <1>1
<1>3. PICK list \in Copies(all) : lic = [has_entitlements |-> ent.object, list |-> list]
  BY DEF DecodeEntitlements
<1>4. lic.list = list /\ lic = [has_entitlements |-> ent.object, list |-> lic.list]
  BY <1>3
<1> HIDE DEF all
<1>5. /\ DOMAIN list \in {{}, DOMAIN all}
      /\ \A i \in DOMAIN list :
           /\ list[i] \in Entry
           /\ list[i].key \in {all[i].key, NoName}
           /\ list[i].type = all[i].type /\ list[i].value = all[i].value
  BY <1>2, CopiesAreParts
<1>6. \A i \in DOMAIN list : i \in Usable(ent)
  BY <1>2, <1>5
<1> QED BY <1>1, <1>2, <1>4, <1>5, <1>6

\* The same of what reaches the application.
LEMMA PublicIsPartOf ==
    ASSUME NEW ent \in EntClaim, NEW lic \in PublicEntitlements(ent)
    PROVE  /\ lic.has_entitlements = ent.object
           /\ DOMAIN lic.list \in {{}, Usable(ent)}
           /\ \A i \in DOMAIN lic.list :
                /\ lic.list[i] \in Entry
                /\ lic.list[i].key \in {ent.items[i].key, NoName}
                /\ lic.list[i].type = ent.items[i].type
                /\ lic.list[i].value = DecodedValue(ent.items[i])
<1>1. PICK mid \in DecodeEntitlements(ent) :
        lic \in {[mid EXCEPT !.list = list] : list \in Copies(mid.list)}
  BY DEF PublicEntitlements
<1>2. PICK list \in Copies(mid.list) : lic = [mid EXCEPT !.list = list]
  BY <1>1
<1>3. /\ mid = [has_entitlements |-> ent.object, list |-> mid.list]
      /\ DOMAIN mid.list \in {{}, Usable(ent)}
      /\ \A i \in DOMAIN mid.list :
           /\ mid.list[i] \in Entry
           /\ mid.list[i].key \in {ent.items[i].key, NoName}
           /\ mid.list[i].type = ent.items[i].type
           /\ mid.list[i].value = DecodedValue(ent.items[i])
  BY DecodedIsPartOf
<1>4. lic.has_entitlements = ent.object /\ lic.list = list
  BY <1>2, <1>3
<1>5. /\ DOMAIN list \in {{}, DOMAIN mid.list}
      /\ \A i \in DOMAIN list :
           /\ list[i] \in Entry
           /\ list[i].key \in {mid.list[i].key, NoName}
           /\ list[i].type = mid.list[i].type /\ list[i].value = mid.list[i].value
  BY <1>3, CopiesAreParts
<1>6. \A i \in DOMAIN list : i \in DOMAIN mid.list
  BY <1>5
<1> QED BY <1>3, <1>4, <1>5, <1>6

\* verify.c:60: whatever the token, the outcome of a read is one of the errors
\* of the port, never an unset code, and a licence's entitlements are entries.
THEOREM Types == Spec => []TypeOK
<1>1. ReadInStep => TypeOK
  <2> SUFFICES ASSUME ReadInStep PROVE TypeOK
    OBVIOUS
  <2>1. /\ bundle \in Bundle /\ clock \in Nat /\ accepted \in BOOLEAN
        /\ verdict \in PortErrors
    BY DEF ReadInStep, Verdict, ValidateAt, PortErrors
  <2>2. PICK ent \in EntClaim : licence \in PublicEntitlements(ent)
                               \/ licence \in DecodeEntitlements(ent)
    <3>1. bundle.token.ent \in EntClaim /\ NoEnt \in EntClaim
      BY <2>1 DEF Bundle, ActivationToken, EntClaim
    <3> QED BY <3>1 DEF ReadInStep, HandedOut
  <2>3. /\ licence.has_entitlements \in BOOLEAN
        /\ \A i \in DOMAIN licence.list : licence.list[i] \in Entry
    <3>1. CASE licence \in PublicEntitlements(ent)
      BY <3>1, PublicIsPartOf, ClaimItems
    <3>2. CASE licence \in DecodeEntitlements(ent)
      <4>1. licence = [has_entitlements |-> ent.object, list |-> licence.list]
        BY <3>2, DecodedIsPartOf
      <4>2. licence.has_entitlements = ent.object
        BY <4>1
      <4> QED BY <3>2, <4>2, ClaimItems, DecodedIsPartOf
    <3> QED BY <2>2, <3>1, <3>2
  <2> QED BY <2>1, <2>3 DEF TypeOK
<1> QED BY <1>1, Reads, PTL

\* entitlements.c:16-104, latte.c:104-118: for every claim, every number that can
\* be signed and wherever memory runs out, what is granted was signed, a limit
\* is a signed number but for what a double cannot tell, the first usable item
\* of a name decides unless its own key was lost, and no plain item is dropped
\* alone.
THEOREM Signatures == Spec => []EntitlementsAreSigned
<1>1. ReadInStep => EntitlementsAreSigned
  <2> SUFFICES ASSUME ReadInStep, verdict = "OK" PROVE EntitlementsAreSigned
    BY DEF EntitlementsAreSigned
  <2> DEFINE ent == bundle.token.ent
             items == ent.items
             list == licence.list
  <2>1. ent \in EntClaim /\ licence \in PublicEntitlements(ent)
    BY DEF ReadInStep, HandedOut, Bundle, ActivationToken
  <2> HIDE DEF ent
  <2>2. /\ DOMAIN items \subseteq Nat \ {0}
        /\ \A i \in DOMAIN items : items[i] \in Item
    BY <2>1, ClaimItems
  <2>3. /\ licence.has_entitlements = ent.object
        /\ DOMAIN list \in {{}, Usable(ent)}
        /\ \A i \in DOMAIN list :
             /\ list[i].key \in {items[i].key, NoName}
             /\ list[i].type = items[i].type
             /\ list[i].value = DecodedValue(items[i])
    BY <2>1, PublicIsPartOf
  <2>4. ASSUME NEW i \in DOMAIN list
        PROVE  /\ i \in DOMAIN items /\ i \in Nat /\ items[i] \in Item
               /\ list[i].type = "bool" => list[i].value = items[i].value
               /\ list[i].type = "number" => SaysNumber(items[i], list[i].value)
               /\ items[i].type = list[i].type
    <3>1. i \in DOMAIN items /\ Decodes(items[i])
      BY <2>3 DEF Usable
    <3>2. items[i] \in Item /\ i \in Nat
      BY <2>2, <3>1
    <3>3. /\ items[i].type = "bool" => DecodedValue(items[i]) = items[i].value
          /\ items[i].type = "number" => SaysNumber(items[i], DecodedValue(items[i]))
      BY <3>1, <3>2, DecodedIsSaid
    <3> QED BY <2>3, <3>1, <3>2, <3>3
  <2>5. HasEntitlements(licence) <=> ent.object
    BY <2>3 DEF HasEntitlements
  <2>6. ASSUME NEW key \in {items[i].key : i \in DOMAIN items},
               NEW e \in FindEntitlement(licence, key)
        PROVE  \E i \in DOMAIN items :
                 /\ items[i].key = key
                 /\ e.type = "bool" /\ e.value = 1 => SaysTrue(items[i])
                 /\ e.type = "number" => SaysNumber(items[i], e.value)
    <3>1. PICK i \in DOMAIN list : e = list[i] /\ list[i].key = key
      BY <2>6 DEF FindEntitlement
    <3>2. key # NoName
      BY <2>2, <2>6, NoNameAssumption DEF Item
    <3>3. items[i].key = key
      BY <2>3, <3>1, <3>2
    <3> QED BY <2>4, <3>1, <3>3 DEF SaysTrue
  <2>7. ASSUME NEW key \in {items[i].key : i \in DOMAIN items}
        PROVE  LET named == {items[i] : i \in {i \in DOMAIN items : items[i].key = key}} IN
               /\ Can(licence, key) => \E item \in named : SaysTrue(item)
               /\ \A n \in Limit(licence, key) : \E item \in named : SaysNumber(item, n)
    <3>1. ASSUME Can(licence, key)
          PROVE  \E i \in DOMAIN items : items[i].key = key /\ SaysTrue(items[i])
      BY <2>6, <3>1 DEF Can
    <3>2. ASSUME NEW n \in Limit(licence, key)
          PROVE  \E i \in DOMAIN items : items[i].key = key /\ SaysNumber(items[i], n)
      <4>1. PICK e \in FindEntitlement(licence, key) : e.type = "number" /\ n = e.value
        BY <3>2 DEF Limit
      <4> QED BY <2>6, <4>1
    <3> HIDE DEF items
    <3> QED BY <3>1, <3>2
  <2>8. ASSUME NEW i \in DOMAIN list, Decides(items, list, i)
        PROVE  FindEntitlement(licence, items[i].key) = {list[i]}
    <3> DEFINE key == items[i].key
               named == {j \in DOMAIN list : list[j].key = key}
    <3>1. i \in named /\ key # NoName
      BY <2>3, <2>8 DEF Decides
    <3>2. ASSUME NEW j \in named PROVE j \in Nat /\ i <= j
      <4>1. items[j].key = key /\ j \in Nat /\ i \in Nat
        BY <2>3, <2>4, <3>1
      <4>2. ~(j < i)
        BY <2>8, <4>1 DEF Decides
      <4> QED BY <4>1, <4>2
    <3>3. {j \in named : \A k \in named : j <= k} = {i}
      BY <3>1, <3>2
    <3> QED BY <3>3 DEF FindEntitlement
  <2>9. ASSUME NEW i \in DOMAIN list, Decides(items, list, i)
        PROVE  LET item == items[i] IN
               /\ Can(licence, item.key) <=> SaysTrue(item)
               /\ Limit(licence, item.key) # {} <=> item.type = "number"
               /\ \A n \in Limit(licence, item.key) : SaysNumber(item, n)
    <3>1. FindEntitlement(licence, items[i].key) = {list[i]}
      BY <2>8, <2>9
    <3>2. Can(licence, items[i].key) <=> list[i].type = "bool" /\ list[i].value = 1
      BY <3>1 DEF Can
    <3>3. Limit(licence, items[i].key) = IF list[i].type = "number" THEN {list[i].value} ELSE {}
      BY <3>1 DEF Limit
    <3> HIDE DEF items, list
    <3> QED BY <2>4, <3>2, <3>3 DEF SaysTrue
  <2>10. ASSUME DOMAIN list # {}, NEW i \in DOMAIN items, Plain(items[i])
         PROVE  i \in DOMAIN list
    BY <2>2, <2>3, <2>10, PlainDecodes DEF Usable
  <2> QED BY <2>5, <2>7, <2>9, <2>10 DEF EntitlementsAreSigned, ent
<1> QED BY <1>1, Reads, PTL

\* verify.c:129 and 143-148: nothing a daily key signs is accepted later than
\* LATTE_MAX_GRACE_SECS after its own day.
THEOREM DailyKey == Spec => []DailyKeyOutlived
<1>1. ReadInStep => DailyKeyOutlived
  <2> SUFFICES ASSUME ReadInStep, verdict = "OK"
               PROVE  /\ Given(bundle.daily.exp)
                      /\ clock <= bundle.daily.exp + LATTE_MAX_GRACE_SECS
    BY DEF DailyKeyOutlived
  <2>1. /\ VerifyActivation(bundle, clock)
        /\ clock <= bundle.token.iat + GracePeriodOf(bundle.token)
    BY AcceptedWhen DEF ReadInStep
  <2>2. bundle.daily.exp \in Int /\ bundle.token.iat <= bundle.daily.exp
    BY <2>1 DEF VerifyActivation, DatedInItsDay, Given
  <2>3. /\ bundle.token.iat \in Int /\ GracePeriodOf(bundle.token) \in Int
        /\ GracePeriodOf(bundle.token) <= LATTE_MAX_GRACE_SECS
    BY <2>1, LicenceNumbers DEF VerifyActivation, ReadInStep
  <2> QED BY <2>1, <2>2, <2>3, Constants DEF Given, ReadInStep
<1> QED BY <1>1, Reads, PTL

\* validate.c:54-55 is never reached with a token that verify.c let through.
THEOREM TooOldUnreachable == Spec => []NeverTooOld
<1>1. ReadInStep => NeverTooOld
  <2> SUFFICES ASSUME ReadInStep, VerifyActivation(bundle, clock)
               PROVE  Verdict(bundle, clock) # "LICENSE_TOO_OLD"
    BY DEF ReadInStep, NeverTooOld, Verdict
  <2>1. /\ bundle.token.iat \in Int /\ GracePeriodOf(bundle.token) \in Int
        /\ GracePeriodOf(bundle.token) <= LATTE_MAX_GRACE_SECS
    BY LicenceNumbers DEF VerifyActivation, ReadInStep
  <2>2. clock <= bundle.token.iat + GracePeriodOf(bundle.token)
        => clock - bundle.token.iat <= LATTE_MAX_AGE_SECS
    BY <2>1, Constants DEF ReadInStep
  <2>3. LET lic == LicenceOf(bundle.token) IN
        /\ lic.issued_at = bundle.token.iat
        /\ lic.grace_period = GracePeriodOf(bundle.token)
    BY DEF LicenceOf
  <2>4. ~(clock > OfflineDeadline(LicenceOf(bundle.token)))
        => ~(Age(LicenceOf(bundle.token), clock) > LATTE_MAX_AGE_SECS)
    BY <2>1, <2>2, <2>3, Constants DEF OfflineDeadline, Age, ReadInStep
  <2> HIDE DEF ReadInStep
  <2> QED BY <2>4 DEF Verdict, ValidateAt
<1> QED BY <1>1, Reads, PTL

\* A chain that has verified once verifies later exactly until its submaster or
\* project certificate ends.
LEMMA ChainEnds ==
    ASSUME NEW b \in Bundle, NEW t \in Nat, NEW now \in Nat, t <= now,
           ChainVerified(b, t)
    PROVE  ChainVerified(b, now) <=>
             /\ Given(b.submaster.exp) => now <= b.submaster.exp
             /\ Given(b.project.exp) => now <= b.project.exp
<1>1. ASSUME NEW cert, NEW parent, VerifyCertIgnoringExpiry(cert, parent, t)
      PROVE  VerifyCertIgnoringExpiry(cert, parent, now)
  BY <1>1 DEF VerifyCertIgnoringExpiry, Given
<1>2. DailyVerified(b, now)
  BY <1>1 DEF ChainVerified, DailyVerified
<1>3. VerifyCertIgnoringExpiry(b.project, b.submaster.pub, now)
  BY <1>1 DEF ChainVerified, VerifyCert
<1>4. PICK m \in Masters : VerifyCertIgnoringExpiry(b.submaster, m, now)
  BY <1>1 DEF ChainVerified, VerifyCert
<1> QED BY <1>2, <1>3, <1>4 DEF ChainVerified, VerifyCert

\* test_daily_cert.c:1-5: an accepted token stays accepted, offline, exactly
\* until its licence, its grace period, or one of the two long-lived
\* certificates ends, and never comes back.
THEOREM Lives == Spec => []LivesUntilItsEnd
<1>1. ReadInStep => LivesUntilItsEnd
  <2> SUFFICES ASSUME ReadInStep, accepted
               PROVE  verdict = "OK" <=> InLife(bundle, clock)
    BY DEF LivesUntilItsEnd
  <2>1. PICK t \in Nat : t <= clock /\ Verdict(bundle, t) = "OK"
    BY DEF ReadInStep
  <2>2. bundle \in Bundle /\ clock \in Nat /\ verdict = Verdict(bundle, clock)
    BY DEF ReadInStep
  <2>3. /\ VerifyActivation(bundle, t)
        /\ bundle.token.iat # 0 /\ ExpiresAt(bundle.token) # 0
        /\ GracePeriodOf(bundle.token) > 0
        /\ bundle.token.mid = MachineId
        /\ ExpiresAt(bundle.token) >= bundle.token.iat
    BY <2>1, <2>2, AcceptedWhen
  <2>4. /\ bundle.token.iat \in Int /\ ExpiresAt(bundle.token) \in Int
        /\ GracePeriodOf(bundle.token) \in Int
        /\ GracePeriodOf(bundle.token) <= LATTE_MAX_GRACE_SECS
    BY <2>2, <2>3, LicenceNumbers DEF VerifyActivation
  <2>5. VerifyActivation(bundle, clock) <=>
          /\ Given(bundle.submaster.exp) => clock <= bundle.submaster.exp
          /\ Given(bundle.project.exp) => clock <= bundle.project.exp
    BY <2>1, <2>2, <2>3, ChainEnds DEF VerifyActivation
  <2>6. clock <= bundle.token.iat + GracePeriodOf(bundle.token)
        => clock - bundle.token.iat <= LATTE_MAX_AGE_SECS
    BY <2>2, <2>4, Constants
  <2>7. verdict = "OK" <=>
          /\ VerifyActivation(bundle, clock)
          /\ clock <= ExpiresAt(bundle.token)
          /\ clock <= bundle.token.iat + GracePeriodOf(bundle.token)
    BY <2>2, <2>3, <2>6, AcceptedWhen
  <2> QED BY <2>5, <2>7 DEF InLife, LicenceOf, OfflineDeadline
<1> QED BY <1>1, Reads, PTL

\* verify.c:105-113: a token with grc and its translation to the other format
\* are read alike at every time.
THEOREM Formats == Spec => []FormatsAgree
<1>1. ReadInStep => FormatsAgree
  <2> SUFFICES ASSUME ReadInStep, Given(bundle.token.iat), Given(bundle.token.exp),
                      Given(bundle.token.grc)
               PROVE  Verdict(bundle, clock)
                      = Verdict([bundle EXCEPT !.token = InLexFormat(@)], clock)
    BY DEF ReadInStep, FormatsAgree
  <2> DEFINE tok == bundle.token
             lex == InLexFormat(tok)
             other == [bundle EXCEPT !.token = lex]
  <2>1. bundle \in Bundle /\ tok \in ActivationToken
    BY DEF ReadInStep, Bundle
  <2>2. /\ lex.signer = tok.signer /\ lex.iss = tok.iss /\ lex.iat = tok.iat
        /\ lex.pid = tok.pid /\ lex.mid = tok.mid
        /\ lex.exp = tok.iat + tok.grc /\ lex.grc = Absent
        /\ lex.lex = IF tok.exp = LATTE_NO_EXPIRY THEN Absent ELSE tok.exp
    BY <2>1 DEF InLexFormat, ActivationToken
  <2>3. /\ other.token = lex
        /\ other.submaster = bundle.submaster /\ other.project = bundle.project
        /\ other.daily = bundle.daily
    BY <2>1 DEF Bundle
  <2> HIDE DEF other, lex
  <2>4. tok.iat \in Int /\ tok.exp \in Int /\ tok.grc \in Int
    BY DEF Given
  <2>5. ExpiresAt(lex) = ExpiresAt(tok) /\ GracePeriodOf(lex) = GracePeriodOf(tok)
    BY <2>2, <2>4, Constants DEF ExpiresAt, GracePeriodOf, HasGrc, Given, IntClaim
  <2>6. LicenceOf(lex) = LicenceOf(tok)
    BY <2>2, <2>5 DEF LicenceOf
  <2>7. ClaimsAccepted(lex) <=> ClaimsAccepted(tok)
    BY <2>2, <2>4, <2>5, Constants DEF ClaimsAccepted, HasGrc, Given
  <2>8. VerifyActivation(other, clock) <=> VerifyActivation(bundle, clock)
    <3>1. ChainVerified(other, clock) <=> ChainVerified(bundle, clock)
      BY <2>2, <2>3 DEF ChainVerified, DailyVerified, Signed
    <3>2. SameProject(other) <=> SameProject(bundle)
      BY <2>2, <2>3 DEF SameProject
    <3>3. DatedInItsDay(other) <=> DatedInItsDay(bundle)
      BY <2>2, <2>3 DEF DatedInItsDay
    <3> QED BY <3>1, <3>2, <3>3, <2>3, <2>7 DEF VerifyActivation
  <2>9. Verdict(bundle, clock) = Verdict(other, clock)
    BY <2>3, <2>6, <2>8 DEF Verdict
  <2> QED BY <2>9 DEF other, lex
<1> QED BY <1>1, Reads, PTL
=============================================================================
