------------------------------ MODULE MCVerify ------------------------------
(***************************************************************************)
(* Instance of Verify for TLC: a sound bundle, and the bundles that differ *)
(* from it in the certificates' signatures and windows, in the token's     *)
(* claims, or in the dates of daily certificate and token.                 *)
(***************************************************************************)
EXTENDS Verify

CONSTANTS m1, m2, sub, proj, day, other

MCKeypairs == {m1, m2, sub, proj, day, other}

Cert(signer, pub, iat, exp) ==
    [signer |-> signer, pub |-> pub, iss |-> TRUE, iat |-> iat, nbf |-> Absent,
     exp |-> exp, pid |-> "p"]

SoundToken == [signer |-> day, iss |-> TRUE, iat |-> 2, exp |-> 9, grc |-> 3,
               lex |-> Absent, pid |-> "p", mid |-> "m", ent |-> NoEnt]
Sound == [submaster |-> Cert(m1, sub, 0, 8), project |-> Cert(sub, proj, 0, 8),
          daily |-> Cert(proj, day, 1, 3), token |-> SoundToken]

WithChain ==
    {[Sound EXCEPT !.submaster.signer = s, !.submaster.nbf = n, !.submaster.exp = x,
                   !.project.exp = y, !.project.iss = i, !.daily.pub = d] :
        s \in {m1, m2, other}, n \in {Absent, 4}, x, y \in {Absent, 4, 8},
        i \in BOOLEAN, d \in {day, other, NoKey}}
WithClaims ==
    {[Sound EXCEPT !.token.iat = i, !.token.exp = x, !.token.grc = g, !.token.lex = l,
                   !.token.pid = p, !.token.mid = m] :
        i \in {1, 2, Absent}, x \in {0, 1, 4, 9, Absent, LATTE_NO_EXPIRY},
        g \in {-1, 0, 1, 3, 4, Absent, NotANumber},
        l \in {3, 5, Absent, NotANumber}, p \in {"p", "q", Absent}, m \in {"m", "n"}}
WithDates ==
    {[Sound EXCEPT !.daily.iat = i, !.daily.exp = x, !.token.iat = t, !.project.pid = p] :
        i \in {0, 2, Absent}, x \in {1, 3, 6, Absent}, t \in {0, 1, 2, 3, 6},
        p \in {"p", "q", "", Absent}}

EntItem(key, type, value) == [key |-> key, type |-> type, value |-> value]

\* In halves: 1; -9, which is rounded to the least int64_t; 7, rounded to the
\* first that does not fit; 5, rounded to 4; 2.5, rounded to 2; 1.5; and 17.5,
\* beyond every double.
EntItems ==
    {EntItem("a", "bool", 1), EntItem("a", "bool", 0), EntItem("a", "other", 1),
     EntItem("b", "bool", 1)} \cup
    {EntItem("a", "number", v) : v \in {2, -18, 14, 10, 5, 3, 35}}

\* No claim, an empty one, and up to two items, of one name or of two.
WithEnt ==
    {[Sound EXCEPT !.token.ent = [object |-> TRUE, items |-> list]] :
        list \in {<<>>} \cup {<<e>> : e \in EntItems} \cup {<<e, f>> : e, f \in EntItems}}

MCBundles == WithChain \cup WithClaims \cup WithDates \cup WithEnt
=============================================================================
