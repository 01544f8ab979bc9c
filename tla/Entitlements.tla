---------------------------- MODULE Entitlements ----------------------------
(***************************************************************************)
(* src/src/entitlements.c: from the ent claim of an activation token to    *)
(* what latte_can, latte_limit and latte_has_entitlements answer.          *)
(*                                                                         *)
(* An item of the claim has a key, a type and a value: 1 and 0 are true    *)
(* and false, and a number is the literal that was signed, counted in      *)
(* Units.  The code sees the double that cJSON makes of it.  A list of     *)
(* entitlements keeps its entries at their places in the claim; an entry   *)
(* whose key could not be copied stays, without a name.                    *)
(***************************************************************************)
EXTENDS Integers, Sequences

CONSTANTS
    Int64End,      \* 2^63: the first whole number an int64_t cannot hold
    Significand,   \* 2^53: the magnitudes a double tells apart at one spacing
    Unit,          \* what literals are counted in: the number 1 is Unit of them
    Spacings,      \* the distances between neighbouring doubles: powers of two
    NoName         \* NULL for a key

ASSUME Int64Assumption == Int64End \in Nat \ {0}
ASSUME NoNameAssumption == NoName \notin STRING

Magnitude(v) == IF v < 0 THEN -v ELSE v

\* Doubles of the magnitude of v are s apart.
Covers(s, v) ==
    /\ Magnitude(v) <= Significand * s
    /\ s = 1 \/ Significand * s < 2 * Magnitude(v)

ASSUME DoubleAssumption ==
    /\ {Significand, Unit} \cup Spacings \subseteq Nat \ {0}
    /\ Unit \in Spacings
    /\ \A s, t \in Spacings : s < 2 * t => t % s = 0
    /\ \A v \in 0 .. Significand * Unit : \E s \in Spacings : Covers(s, v)

Item == [key : STRING, type : {"bool", "number", "other"}, value : Int]
Entry == [key : STRING \cup {NoName}, type : {"bool", "number"}, value : Int]

\* A token without the claim, or with something that is no JSON object.
NoEnt == [object |-> FALSE, items |-> <<>>]

EntClaim == [object : {TRUE}, items : Seq(Item)] \cup {NoEnt}

-----------------------------------------------------------------------------
\* The multiple of s nearest to v, the even one of two as near.
RoundHalfEven(v, s) ==
    LET q == v \div s
        r == v % s
    IN  IF 2 * r < s \/ (2 * r = s /\ q % 2 = 0) THEN q * s ELSE (q + 1) * s

\* isfinite: the literal is not beyond every double.
Finite(v) == \E s \in Spacings : Covers(s, v)

\* strtod, with which cJSON reads a number.
Double(v) == RoundHalfEven(v, CHOOSE s \in Spacings : Covers(s, v))

InInt64(n) == -Int64End <= n /\ n < Int64End

\* Mutant of Decodes: the upper bound is (double)INT64_MAX, which is 2^63.
DecodesToInt64Max(item) ==
    \/ item.type = "bool"
    \/ /\ item.type = "number"
       /\ Finite(item.value)
       /\ Double(item.value) % Unit = 0
       /\ -Int64End <= Double(item.value) \div Unit
       /\ Double(item.value) \div Unit <= Int64End

\* Lines 39-61: booleans, and numbers whose double is whole and fits an int64_t.
Decodes(item) ==
    \/ item.type = "bool"
    \/ /\ item.type = "number"
       /\ Finite(item.value)
       /\ Double(item.value) % Unit = 0
       /\ InInt64(Double(item.value) \div Unit)

\* bool_value, or int_value.
DecodedValue(item) ==
    IF item.type = "bool" THEN item.value ELSE Double(item.value) \div Unit

DecodedEntry(item) ==
    [key |-> item.key, type |-> item.type, value |-> DecodedValue(item)]

\* What may become of a list that is copied: no memory for it, or none for the
\* names of some entries.
Copies(list) ==
    {<<>>} \cup
    {[i \in DOMAIN list |-> IF i \in lost THEN [list[i] EXCEPT !.key = NoName] ELSE list[i]] :
        lost \in SUBSET DOMAIN list}

Usable(ent) == {i \in DOMAIN ent.items : Decodes(ent.items[i])}

\* ll_decode_entitlements
DecodeEntitlements(ent) ==
    {[has_entitlements |-> ent.object, list |-> list] :
        list \in Copies([i \in Usable(ent) |-> DecodedEntry(ent.items[i])])}

\* What reaches the application: domain_to_public copies once more.
PublicEntitlements(ent) ==
    UNION {{[lic EXCEPT !.list = list] : list \in Copies(lic.list)} :
               lic \in DecodeEntitlements(ent)}

\* find_entitlement: the first of that name, if there is one.
FindEntitlement(lic, key) ==
    LET named == {i \in DOMAIN lic.list : lic.list[i].key = key}
    IN  {lic.list[i] : i \in {i \in named : \A j \in named : i <= j}}

\* latte_can
Can(lic, key) == \E e \in FindEntitlement(lic, key) : e.type = "bool" /\ e.value = 1

\* latte_limit: the number, if there is one.
Limit(lic, key) == {e.value : e \in {e \in FindEntitlement(lic, key) : e.type = "number"}}

\* latte_has_entitlements
HasEntitlements(lic) == lic.has_entitlements
=============================================================================
