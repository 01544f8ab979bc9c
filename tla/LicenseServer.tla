--------------------------- MODULE LicenseServer ---------------------------
(***************************************************************************)
(* The licence server, external to src/: modelled from how http/client.c   *)
(* and latte.c use it and from what README.md and latte.h say of its       *)
(* answers.  One machine is modelled, so a licence key has at most one     *)
(* live activation on it.                                                  *)
(*                                                                         *)
(* The server's state is the record                                        *)
(*   active[k]  the live activation of key k on this machine, or NoAid     *)
(*   next_aid   the id the next fresh activation gets                      *)
(*   died[a]    when activation a was released or revoked, or NotYet       *)
(* and an answer to a call is an outcome [server, reply]: the state after  *)
(* the call and the reply sent back.                                       *)
(***************************************************************************)
EXTENDS ErrorMap

CONSTANTS
    Keys,            \* licence keys
    MaxAid,          \* bound: activations the server hands out
    LicenceEnd,      \* the expires_at of every token
    ChainLifetimes,  \* how long the certificates sent with a token may last
    GracePeriod,     \* the grace_period of every token
    Faults           \* what may go wrong, see FaultKinds

FaultKinds ==
    {"lost",       \* a call times out, whether or not the server handles it
     "busy",       \* the server answers 429 or 5xx
     "rekeyed",    \* the server no longer knows the project key: 401
     "malformed",  \* the server answers 200 without a token or a chain
     "untrusted",  \* the answer's certificates do not verify here
     "blocked",    \* the seller's policy refuses a release
     "revoke",     \* the seller releases the activation in the dashboard
     "save",       \* writing the cache file fails
     "spawn",      \* the renewal thread cannot be created
     "crash"}      \* a process holding a handle dies

ASSUME MaxAidAssumption == MaxAid \in Nat \ {0}
ASSUME LicenceEndAssumption == LicenceEnd \in Nat
ASSUME ChainAssumption == ChainLifetimes \subseteq Nat \ {0}
ASSUME GracePeriodAssumption == GracePeriod \in Nat \ {0}
ASSUME FaultsAssumption == Faults \subseteq FaultKinds

NoAid == 0
Aids == 1 .. MaxAid
NotYet == -1
ThisMachine == "this machine"

\* What an activation token says.  chain_end is when the first certificate of
\* the chain delivered with it expires; trusted is FALSE for a chain that no
\* master key of this build signed.
Token == [activation_id : Aids, key : Keys, issued_at : Nat, chain_end : Nat,
          expires_at : {LicenceEnd}, grace_period : {GracePeriod},
          machine_id_hash : {ThisMachine},
          trusted : BOOLEAN]

NoToken == [activation_id |-> NoAid]

ServerState == [active : [Keys -> Aids \cup {NoAid}], next_aid : 1 .. MaxAid + 1,
                died : [Aids -> Nat \cup {NotYet}]]

ServerInit == [active |-> [k \in Keys |-> NoAid], next_aid |-> 1,
               died |-> [a \in Aids |-> NotYet]]

\* Whether this build trusts the chain the server sends with a token.
Chains == IF "untrusted" \in Faults THEN BOOLEAN ELSE {TRUE}

Issued(a, k, now) ==
    [activation_id : {a}, key : {k}, issued_at : {now},
     chain_end : {now + life : life \in ChainLifetimes},
     expires_at : {LicenceEnd}, grace_period : {GracePeriod},
     machine_id_hash : {ThisMachine}, trusted : Chains]

Refused(error) == [error |-> error, token |-> NoToken]
Granted(tok) == [error |-> "OK", token |-> tok]
Reply == [error : Errors \cup {"OK"}, token : Token \cup {NoToken}]

\* Errors that say nothing of the licence and leave the server as it was.
Hiccups(s) ==
    {[server |-> s, reply |-> Refused(e)] : e \in
        (IF "busy" \in Faults THEN {"SERVER"} ELSE {}) \cup
        (IF "rekeyed" \in Faults THEN {"INVALID_PROJECT_KEY"} ELSE {}) \cup
        (IF "malformed" \in Faults THEN {"INVALID_LICENSE"} ELSE {})}

LicenceEnded(now) == now > LicenceEnd

\* POST /v1/activate: the machine's live activation again, or a fresh one.
ActivateOutcomes(s, k, now) ==
    Hiccups(s) \cup
    IF LicenceEnded(now) THEN
        {[server |-> s, reply |-> Refused("LICENSE_INACTIVE_OR_EXPIRED")]}
    ELSE IF s.active[k] # NoAid THEN
        {[server |-> s, reply |-> Granted(t)] : t \in Issued(s.active[k], k, now)}
    ELSE IF s.next_aid \in Aids THEN
        {[server |-> [s EXCEPT !.active[k] = s.next_aid, !.next_aid = @ + 1],
          reply |-> Granted(t)] : t \in Issued(s.next_aid, k, now)}
    ELSE {[server |-> s, reply |-> Refused("SEAT_LIMIT_REACHED")]}

Live(s, a) == \E k \in Keys : s.active[k] = a

\* POST /v1/renew: a fresh token while the activation is live.  A released
\* activation is gone (404) or inactive (403).
RenewOutcomes(s, a, k, now) ==
    Hiccups(s) \cup
    IF s.active[k] = a /\ ~LicenceEnded(now)
    THEN {[server |-> s, reply |-> Granted(t)] : t \in Issued(a, k, now)}
    ELSE {[server |-> s, reply |-> Refused(e)] :
            e \in {"LICENSE_NOT_FOUND", "LICENSE_INACTIVE_OR_EXPIRED"}}

Release(s, k, now) ==
    [s EXCEPT !.died[s.active[k]] = now, !.active[k] = NoAid]

\* POST /v1/deactivate: releasing an activation that is already gone succeeds.
DeactivateOutcomes(s, a, k, now) ==
    Hiccups(s) \cup
    IF s.active[k] # a THEN {[server |-> s, reply |-> Refused("OK")]}
    ELSE {[server |-> Release(s, k, now), reply |-> Refused("OK")]} \cup
         IF "blocked" \in Faults
         THEN {[server |-> s, reply |-> Refused("DEACTIVATION_BLOCKED")]}
         ELSE {}

\* A call as the client sends it: an activation has no id to name yet.
CallKinds == {"activate", "renew", "deactivate"}
Addressed(c) == c.kind = "activate" <=> c.aid = NoAid
Call == {c \in [kind : CallKinds, aid : Aids \cup {NoAid}, key : Keys] : Addressed(c)}

Outcomes(s, c, now) ==
    CASE c.kind = "activate"   -> ActivateOutcomes(s, c.key, now)
      [] c.kind = "renew"      -> RenewOutcomes(s, c.aid, c.key, now)
      [] c.kind = "deactivate" -> DeactivateOutcomes(s, c.aid, c.key, now)
=============================================================================
