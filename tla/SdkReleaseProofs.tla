------------------------- MODULE SdkReleaseProofs -------------------------
(***************************************************************************)
(* A process whose only thread calls the SDK, with its renewal thread, for *)
(* any licence keys, bounds and faults, crashes and late requests          *)
(* included: a released activation does not come back (ReleaseIsFinal), a  *)
(* live one is not forgotten (LiveSeatNeverForgotten), and a licence is    *)
(* in its grace period because of its own renewal (InGraceIsOfThisLicence).*)
(* With a second thread or process each of them can fail.                  *)
(*                                                                         *)
(* First, for any threads and processes (OwnInv): whatever anybody holds,  *)
(* asks about or is told is about an activation of its own key; and what a *)
(* renewal thread blames for emptying the cache (Blames, ExcuseInv).  Then *)
(* what one calling thread knows besides (SeatInv).                        *)
(***************************************************************************)
EXTENDS SdkRenewalProofs, SdkLeaseProofs

OneCaller == OneHandle /\ \A t, u \in Threads : t = u

-----------------------------------------------------------------------------
(***************************************************************************)
(* The server: what belongs to a key stays with it until it has ended.     *)
(***************************************************************************)
Owned(s, a, k) == s.died[a] # NotYet \/ s.active[k] = a

Kept(s, s2) ==
    /\ \A a \in Aids : s.died[a] # NotYet => s2.died[a] # NotYet
    /\ \A a \in Aids, k \in Keys : Owned(s, a, k) => Owned(s2, a, k)

\* A token that has just been issued is that of a live activation.
JustIssued(s, tok) ==
    tok # NoToken =>
        s.died[tok.activation_id] = NotYet /\ s.active[tok.key] = tok.activation_id

\* What excuses emptying the cache of an activation: it has ended, or the
\* licence has; or the server may have answered something malformed.
ExcusedAt(s, a, now) ==
    "malformed" \in Faults \/ s.died[a] # NotYet \/ LicenceEnded(now)

LEMMA ReleaseKept ==
    ASSUME NEW s \in ServerState, NEW k \in Keys, NEW now \in Nat, s.active[k] # NoAid
    PROVE  /\ Kept(s, Release(s, k, now))
           /\ Release(s, k, now).died[s.active[k]] # NotYet
<1> DEFINE r == Release(s, k, now)
<1>1. /\ r.active = [s.active EXCEPT ![k] = NoAid]
      /\ r.died = [s.died EXCEPT ![s.active[k]] = now]
      /\ s.active[k] \in Aids /\ now # NotYet
  BY DEF Release, ServerState, NotYet
<1> HIDE DEF r
<1>2. r.died[s.active[k]] # NotYet
  BY <1>1 DEF ServerState
<1>3. \A a \in Aids : s.died[a] # NotYet => r.died[a] # NotYet
  BY <1>1 DEF ServerState
<1>4. ASSUME NEW a \in Aids, NEW j \in Keys, Owned(s, a, j) PROVE Owned(r, a, j)
  BY <1>1, <1>2, <1>3, <1>4 DEF Owned, ServerState
<1>5. Kept(s, r)
  BY <1>3, <1>4 DEF Kept
<1> QED BY <1>2, <1>5 DEF r

\* What an answer of the server means for the activation it is about.
Telling(s, c, now, o) ==
    /\ Kept(s, o.server)
    /\ JustIssued(o.server, o.reply.token)
    /\ c.kind = "renew" /\ o.reply.error = "OK" => o.reply.token.activation_id = c.aid
    /\ c.kind = "deactivate" /\ o.reply.error = "OK" /\ Owned(s, c.aid, c.key) =>
        o.server.died[c.aid] # NotYet
    /\ c.kind = "renew" /\ o.reply.error \in WipingErrors /\ Owned(s, c.aid, c.key) =>
        ExcusedAt(o.server, c.aid, now)

LEMMA OutcomesTell ==
    ASSUME NEW s \in ServerState, ServerSound(s), NEW now \in Nat, NEW c,
           c.kind \in CallKinds, c.aid \in Aids \cup {NoAid}, c.key \in Keys, Addressed(c),
           NEW o \in Outcomes(s, c, now)
    PROVE  Telling(s, c, now, o)
<1> DEFINE k == c.key
           a == c.aid
<1>1. Kept(s, s)
  BY DEF Kept
<1>2. ASSUME NEW e, e # "OK" \/ (c.kind = "deactivate" /\ s.active[k] # a),
             c.kind = "renew" /\ e \in WipingErrors /\ Owned(s, a, k) => ExcusedAt(s, a, now),
             o = [server |-> s, reply |-> Refused(e)]
      PROVE  Telling(s, c, now, o)
  <2>1. o.server = s /\ o.reply.error = e /\ o.reply.token = NoToken
    BY <1>2 DEF Refused
  <2> QED BY <1>1, <1>2, <2>1 DEF Telling, JustIssued, Owned
<1>3. CASE o \in Hiccups(s)
  <2>1. PICK e \in {"SERVER", "INVALID_PROJECT_KEY", "INVALID_LICENSE"} :
          /\ o = [server |-> s, reply |-> Refused(e)]
          /\ e = "INVALID_LICENSE" => "malformed" \in Faults
    BY <1>3 DEF Hiccups
  <2> QED BY <1>2, <2>1 DEF WipingErrors, ExcusedAt
<1>4. ASSUME NEW s2, NEW b \in Aids, NEW t \in Issued(b, k, now), Kept(s, s2),
             s2.died[b] = NotYet, s2.active[k] = b, c.kind # "deactivate",
             c.kind = "renew" => b = a,
             o = [server |-> s2, reply |-> Granted(t)]
      PROVE  Telling(s, c, now, o)
  <2>1. o.server = s2 /\ o.reply.error = "OK" /\ o.reply.token = t
    BY <1>4 DEF Granted
  <2>2. t.activation_id = b /\ t.key = k
    BY DEF Issued
  <2>3. "OK" \notin WipingErrors
    BY DEF WipingErrors
  <2> QED BY <1>4, <2>1, <2>2, <2>3 DEF Telling, JustIssued
<1>5. CASE c.kind = "activate" /\ o \notin Hiccups(s)
  <2>1. o \in ActivateOutcomes(s, k, now)
    BY <1>5 DEF Outcomes
  <2>2. CASE LicenceEnded(now)
    BY <1>2, <1>5, <2>1, <2>2 DEF ActivateOutcomes
  <2>3. CASE ~LicenceEnded(now) /\ s.active[k] # NoAid
    <3>1. PICK t \in Issued(s.active[k], k, now) : o = [server |-> s, reply |-> Granted(t)]
      BY <1>5, <2>1, <2>3 DEF ActivateOutcomes
    <3>2. s.active[k] \in Aids /\ s.died[s.active[k]] = NotYet
      BY <2>3 DEF ServerState, ServerSound
    <3> QED BY <1>1, <1>4, <1>5, <3>1, <3>2
  <2>4. CASE ~LicenceEnded(now) /\ s.active[k] = NoAid /\ s.next_aid \in Aids
    <3> DEFINE s2 == [s EXCEPT !.active[k] = s.next_aid, !.next_aid = @ + 1]
    <3>1. PICK t \in Issued(s.next_aid, k, now) : o = [server |-> s2, reply |-> Granted(t)]
      BY <1>5, <2>1, <2>4 DEF ActivateOutcomes
    <3>2. s2.active = [s.active EXCEPT ![k] = s.next_aid] /\ s2.died = s.died
      BY DEF ServerState
    <3> HIDE DEF s2
    <3>3. s2.died[s.next_aid] = NotYet /\ s2.active[k] = s.next_aid
      BY <2>4, <3>2 DEF ServerSound, ServerState, Aids
    <3>4. Kept(s, s2)
      BY <2>4, <3>2, Constants DEF Kept, Owned, ServerState, Aids, NoAid
    <3> QED BY <1>4, <1>5, <2>4, <3>1, <3>3, <3>4
  <2>5. CASE ~LicenceEnded(now) /\ s.active[k] = NoAid /\ s.next_aid \notin Aids
    BY <1>2, <1>5, <2>1, <2>5 DEF ActivateOutcomes
  <2> QED BY <2>2, <2>3, <2>4, <2>5
<1>6. CASE c.kind = "renew" /\ o \notin Hiccups(s)
  <2>1. o \in RenewOutcomes(s, a, k, now)
    BY <1>6 DEF Outcomes
  <2>2. CASE s.active[k] = a /\ ~LicenceEnded(now)
    <3>1. PICK t \in Issued(a, k, now) : o = [server |-> s, reply |-> Granted(t)]
      BY <1>6, <2>1, <2>2 DEF RenewOutcomes
    <3>2. a \in Aids /\ s.died[a] = NotYet
      BY <1>6, <2>2 DEF ServerSound, Addressed
    <3> QED BY <1>1, <1>4, <1>6, <2>2, <3>1, <3>2
  <2>3. CASE ~(s.active[k] = a /\ ~LicenceEnded(now))
    <3>1. PICK e : e # "OK" /\ o = [server |-> s, reply |-> Refused(e)]
      BY <1>6, <2>1, <2>3 DEF RenewOutcomes
    <3>2. Owned(s, a, k) => ExcusedAt(s, a, now)
      BY <2>3 DEF Owned, ExcusedAt
    <3> QED BY <1>2, <3>1, <3>2
  <2> QED BY <2>2, <2>3
<1>7. CASE c.kind = "deactivate" /\ o \notin Hiccups(s)
  <2>1. o \in DeactivateOutcomes(s, a, k, now)
    BY <1>7 DEF Outcomes
  <2>2. CASE s.active[k] # a
    BY <1>2, <1>7, <2>1, <2>2 DEF DeactivateOutcomes
  <2>3. CASE o = [server |-> s, reply |-> Refused("DEACTIVATION_BLOCKED")]
    BY <1>2, <1>7, <2>3
  <2>4. CASE s.active[k] = a /\ o = [server |-> Release(s, k, now), reply |-> Refused("OK")]
    <3>1. s.active[k] # NoAid
      BY <1>7, <2>4 DEF Addressed
    <3>2. o.server = Release(s, k, now) /\ o.reply.token = NoToken
      BY <2>4 DEF Refused
    <3> QED BY <1>7, <2>4, <3>1, <3>2, ReleaseKept DEF Telling, JustIssued
  <2> QED BY <1>7, <2>1, <2>2, <2>3, <2>4 DEF DeactivateOutcomes
<1> QED BY <1>3, <1>5, <1>6, <1>7 DEF CallKinds

-----------------------------------------------------------------------------
(***************************************************************************)
(* Any handles and threads: everybody's requests and tokens are about      *)
(* activations of their own key, and latte_deactivate goes on once its     *)
(* activation has ended.                                                   *)
(***************************************************************************)
Excused(a) == ExcusedAt(server, a, clock)

\* What a request is about, and what its answer says.
CallSound(p) ==
    /\ call[p].kind \in {"renew", "deactivate"} => Owned(server, call[p].aid, call[p].key)
    /\ call[p].kind = "deactivate" /\ call[p].reply.error = "OK" =>
        server.died[call[p].aid] # NotYet
    /\ call[p].kind = "renew" /\ call[p].reply.error = "OK" =>
        call[p].reply.token.activation_id = call[p].aid

\* What a renewal thread knows from its answer.
RenewerSound(h) ==
    /\ call[h] # NoCall => renewer[h].pc = "await"
    /\ renewer[h].pc = "await" => call[h].aid = renewer[h].aid
    /\ renewer[h].pc = "store" => renewer[h].error = "OK"
    /\ renewer[h].pc \in {"lock", "store"} /\ renewer[h].error = "OK" =>
        renewer[h].token.activation_id = renewer[h].aid

\* What latte_deactivate asks for, and what it knows from the answer.
ReleaserSound(t) ==
    /\ app[t].pc = "await" /\ app[t].op = "deactivate" =>
        call[t].aid = app[t].lic.activation_id
    /\ app[t].pc = "clear" => server.died[app[t].lic.activation_id] # NotYet

HeldOwned == \A tok \in Held : tok # NoToken => Owned(server, tok.activation_id, tok.key)
ForgottenEnded == \A a \in history.forgotten : server.died[a] # NotYet

OwnFacts ==
    /\ ForgottenEnded
    /\ HeldOwned
    /\ \A p \in Callers : CallSound(p)
    /\ \A h \in Handles : RenewerSound(h)
    /\ \A t \in Threads : ReleaserSound(t)

OwnInv == LeaseInv /\ OwnFacts

LEMMA OwnInit == Init => OwnInv
<1> SUFFICES ASSUME Init PROVE OwnInv
  OBVIOUS
<1>1. Held \subseteq {NoToken}
  BY DEF Init, Held, IdleThread, NoRenewer
<1>2. OwnFacts
  BY <1>1 DEF Init, OwnFacts, ForgottenEnded, HeldOwned, CallSound, RenewerSound,
     ReleaserSound, IdleThread, NoRenewer, NoCall, Callers
<1> QED BY <1>2, LeaseInit DEF OwnInv

\* Time passes, and the server forgets nothing.
Onward ==
    /\ Kept(server, server')
    /\ clock \in Nat /\ clock' \in Nat /\ clock <= clock'

LEMMA OnwardExcused == Onward => \A a \in Aids : Excused(a) => Excused(a)'
BY Constants DEF Onward, Kept, Excused, ExcusedAt, LicenceEnded

LEMMA ServerAsItWas == UNCHANGED <<clock, server>> /\ Shape => Onward
BY DEF Onward, Kept, Shape, TypeOK

LEMMA EnvironmentOnward == LeaseInv /\ Environment => Onward
<1> SUFFICES ASSUME LeaseInv, Environment PROVE Onward
  OBVIOUS
<1>0. server \in ServerState /\ ServerSound(server) /\ clock \in Nat
  BY DEF LeaseInv, Shape, TypeOK
<1>1. CASE Tick
  BY <1>0, <1>1 DEF Tick, Onward, Kept
<1>2. CASE ServeLate
  <2>1. PICK c \in late : \E o \in Outcomes(server, c, clock) : server' = o.server
    BY <1>2 DEF ServeLate
  <2>2. PICK o \in Outcomes(server, c, clock) : server' = o.server
    BY <2>1
  <2>3. c \in Call
    BY DEF LeaseInv, Shape, TypeOK
  <2>4. Telling(server, c, clock, o)
    BY <1>0, <2>2, <2>3, OutcomesTell DEF Call
  <2> QED BY <1>0, <1>2, <2>2, <2>4 DEF ServeLate, Telling, Onward
<1>3. ASSUME NEW k \in Keys, Revoke(k) PROVE Onward
  BY <1>0, <1>3, ReleaseKept DEF Revoke, Onward
<1>4. ASSUME NEW p \in Callers, Serve(p) PROVE Onward
  <2>1. PICK o \in Outcomes(server, call[p], clock) : server' = o.server
    BY <1>4 DEF Serve
  <2>2. call[p] \in Pending
    BY <1>4 DEF Serve, LeaseInv, Shape, TypeOK
  <2>3. Telling(server, call[p], clock, o)
    BY <1>0, <2>1, <2>2, OutcomesTell DEF Pending
  <2> QED BY <1>0, <1>4, <2>1, <2>3 DEF Serve, Telling, Onward
<1>5. CASE UNCHANGED <<clock, server>>
  BY <1>5, ServerAsItWas DEF LeaseInv
<1> QED BY <1>1, <1>2, <1>3, <1>4, <1>5 DEF Environment, TimeOut, Crash

\* A call that stays, ends, or is refused says what it said.
LEMMA CallStays ==
    ASSUME Shape, Onward, NEW p \in Callers, CallSound(p),
           \/ call'[p] \in {call[p], NoCall}
           \/ call[p] # NoCall /\ \E e : /\ e # "OK"
                                         /\ call'[p] = [call[p] EXCEPT !.reply = Refused(e)]
    PROVE  CallSound(p)'
<1>1. CASE call'[p] = NoCall
  BY <1>1 DEF CallSound, NoCall
<1>2. ASSUME call[p] # NoCall, call[p].kind \in {"renew", "deactivate"}
      PROVE  call[p].aid \in Aids /\ call[p].key \in Keys
  BY <1>2 DEF Shape, TypeOK, Pending, Addressed
<1>3. CASE call[p] = NoCall /\ call'[p] = call[p]
  BY <1>1, <1>3
<1>4. CASE call[p] # NoCall /\ call'[p] = call[p]
  BY <1>2, <1>4 DEF CallSound, Onward, Kept
<1>5. ASSUME call[p] # NoCall, NEW e, e # "OK",
             call'[p] = [call[p] EXCEPT !.reply = Refused(e)]
      PROVE  CallSound(p)'
  <2>1. call[p] \in Pending
    BY <1>5 DEF Shape, TypeOK
  <2>2. /\ call'[p].kind = call[p].kind /\ call'[p].aid = call[p].aid
        /\ call'[p].key = call[p].key /\ call'[p].reply.error = e
    BY <1>5, <2>1 DEF Refused, Pending
  <2> QED BY <1>2, <1>5, <2>2 DEF CallSound, Onward, Kept
<1> QED BY <1>1, <1>3, <1>4, <1>5

LEMMA RenewerStays ==
    ASSUME NEW h \in Handles, RenewerSound(h),
           \/ /\ renewer'[h] = renewer[h]
              /\ call'[h] # NoCall => call[h] # NoCall
              /\ renewer[h].pc = "await" => call'[h].aid = call[h].aid
           \/ renewer'[h] = NoRenewer /\ call'[h] = NoCall
    PROVE  RenewerSound(h)'
BY DEF RenewerSound, NoRenewer

LEMMA ReleaserStays ==
    ASSUME Shape, Onward, NEW t \in Threads, ReleaserSound(t),
           app'[t] = app[t], app[t].pc = "await" => call'[t].aid = call[t].aid
    PROVE  ReleaserSound(t)'
<1>1. app[t].pc = "clear" => app[t].lic.activation_id \in Aids
  BY DEF Shape, Locals, Token
<1> QED BY <1>1 DEF ReleaserSound, Onward, Kept

LEMMA HeldStays ==
    ASSUME Shape, HeldOwned, Onward, Held' \subseteq Held \cup {NoToken}
    PROVE  HeldOwned'
<1> SUFFICES ASSUME NEW tok \in Held', tok # NoToken
             PROVE  Owned(server', tok.activation_id, tok.key)
  BY DEF HeldOwned
<1>1. tok \in Held /\ tok \in Token
  BY HeldType DEF MaybeToken
<1> QED BY <1>1 DEF HeldOwned, Onward, Kept, Token

LEMMA ForgottenStays ==
    ASSUME Shape, Onward, ForgottenEnded, history'.forgotten = history.forgotten
    PROVE  ForgottenEnded'
BY DEF ForgottenEnded, Onward, Kept, Shape, TypeOK

\* A call is refused, or gets no answer, whatever the server has done.
Refusal(p, e) ==
    /\ call[p] # NoCall /\ e # "OK"
    /\ call' = [call EXCEPT ![p].reply = Refused(e)]
    /\ UNCHANGED <<clock, server, cache, local>>

LEMMA RefusedCall ==
    ASSUME TypeOK, NEW p \in Callers, NEW e, Refusal(p, e)
    PROVE  /\ call'[p] = [call[p] EXCEPT !.reply = Refused(e)]
           /\ call'[p].aid = call[p].aid /\ call'[p].kind = call[p].kind
           /\ call'[p].reply.error = e /\ call'[p].reply.token = NoToken
           /\ \A q \in Callers : q # p => call'[q] = call[q]
<1>1. call[p] \in Pending
  BY DEF Refusal, TypeOK
<1>2. call' = [call EXCEPT ![p] = [call[p] EXCEPT !.reply = Refused(e)]]
  BY DEF Refusal, TypeOK
<1> QED BY <1>1, <1>2 DEF TypeOK, Pending, Refused

LEMMA RefusalOwn ==
    ASSUME OwnInv, NEW p \in Callers, NEW e, Refusal(p, e)
    PROVE  Moving /\ OwnFacts'
<1> USE DEF OwnInv, OwnFacts
<1>0. Shape /\ TypeOK /\ LeaseInv
  BY DEF LeaseInv, Shape
<1>1. /\ call'[p] = [call[p] EXCEPT !.reply = Refused(e)] /\ call[p] # NoCall /\ e # "OK"
      /\ call'[p].aid = call[p].aid /\ call'[p].reply.token = NoToken
      /\ \A q \in Callers : q # p => call'[q] = call[q]
      /\ UNCHANGED <<clock, server, cache, local>>
  BY <1>0, RefusedCall DEF Refusal
<1>2. Onward
  BY <1>0, <1>1, ServerAsItWas
<1>3. Moving
  BY <1>1, Holders, Moves DEF local
<1>4. \A q \in Callers : CallSound(q)'
  BY <1>0, <1>1, <1>2, CallStays
<1>5. \A h \in Handles : RenewerSound(h)'
  BY <1>1, RenewerStays DEF local, Callers
<1>6. \A t \in Threads : ReleaserSound(t)'
  BY <1>0, <1>1, <1>2, ReleaserStays DEF local, Callers
<1>7. ForgottenEnded'
  BY <1>1, <1>0, <1>2, ForgottenStays DEF local
<1> QED BY <1>0, <1>2, <1>3, <1>4, <1>5, <1>6, <1>7, HeldStays DEF Moving

\* The environment tells nobody anything wrong.
LEMMA EnvironmentOwn ==
    ASSUME OwnInv, Environment
    PROVE  OwnFacts'
<1> USE DEF OwnInv, OwnFacts
<1>0. Shape /\ TypeOK /\ LeaseInv /\ Onward
  BY EnvironmentOnward DEF LeaseInv, Shape
<1>1. ForgottenEnded' /\ UNCHANGED cache
  <2>1. history'.forgotten = history.forgotten /\ UNCHANGED cache
    BY <1>0 DEF Environment, Tick, ServeLate, Revoke, Serve, TimeOut, Crash, Reset, local,
       TypeOK
  <2> QED BY <1>0, <2>1, ForgottenStays
<1>2. CASE UNCHANGED <<call, local>>
  <2>1. Held' = Held
    BY <1>1, <1>2 DEF Held, local
  <2>2. \A p \in Callers : CallSound(p)'
    BY <1>0, <1>2, CallStays
  <2>3. \A t \in Threads : ReleaserSound(t)'
    BY <1>0, <1>2, ReleaserStays DEF local
  <2>4. \A h \in Handles : RenewerSound(h)'
    BY <1>2, RenewerStays DEF local
  <2> QED BY <1>0, <1>1, <2>1, <2>2, <2>3, <2>4, HeldStays
<1>3. ASSUME NEW p \in Callers, Serve(p) PROVE OwnFacts'
  <2>1. PICK o \in Outcomes(server, call[p], clock) :
          server' = o.server /\ call' = [call EXCEPT ![p].reply = o.reply]
    BY <1>3 DEF Serve
  <2>2. call[p] \in Pending /\ call[p] # NoCall /\ UNCHANGED <<clock, cache, local>>
    BY <1>0, <1>3 DEF Serve, TypeOK
  <2>3. Telling(server, call[p], clock, o)
    BY <1>0, <2>1, <2>2, OutcomesTell DEF LeaseInv, TypeOK, Pending
  <2>4. /\ call'[p].kind = call[p].kind /\ call'[p].aid = call[p].aid
        /\ call'[p].key = call[p].key /\ call'[p].reply = o.reply
        /\ \A q \in Callers : q # p => call'[q] = call[q]
    BY <1>0, <2>1, <2>2 DEF TypeOK, Pending
  <2>5. CallSound(p)'
    <3>1. call[p].kind \in {"renew", "deactivate"} =>
            call[p].aid \in Aids /\ call[p].key \in Keys
      BY <2>2 DEF Pending, Addressed
    <3> QED BY <1>0, <2>1, <2>2, <2>3, <2>4, <3>1 DEF CallSound, Telling, Kept
  <2>6. \A q \in Callers : CallSound(q)'
    BY <1>0, <2>4, <2>5, CallStays
  <2>7. \A t \in Threads : ReleaserSound(t)'
    BY <1>0, <2>2, <2>4, ReleaserStays DEF local, Callers
  <2>8. \A h \in Handles : RenewerSound(h)'
    BY <2>2, <2>4, RenewerStays DEF local, Callers
  <2>9. HeldOwned'
    <3>1. \A q \in Callers : call'[q] # NoCall =>
            \/ call'[q].reply.token = o.reply.token
            \/ call[q] # NoCall /\ call'[q] = call[q]
      BY <2>4
    <3>2. Held' \subseteq Held \cup {o.reply.token}
      BY <2>2, <3>1 DEF Held, local
    <3>3. \A tok \in Held : tok # NoToken => Owned(server', tok.activation_id, tok.key)
      BY <1>0, HeldType DEF HeldOwned, Onward, Kept, MaybeToken, Token
    <3> QED BY <2>1, <2>3, <3>2, <3>3 DEF HeldOwned, JustIssued, Owned, Telling
  <2> QED BY <1>1, <2>6, <2>7, <2>8, <2>9
<1>4. ASSUME NEW p \in Callers, TimeOut(p) PROVE OwnFacts'
  BY <1>4, RefusalOwn DEF TimeOut, Refusal
<1>5. ASSUME NEW h \in Handles, Crash(h) PROVE OwnFacts'
  <2>1. \A p \in Callers : call'[p] = NoCall \/ call'[p] = call[p]
    BY <1>5 DEF Crash
  <2>2. \A t \in Threads : \/ app'[t] = IdleThread
                           \/ app'[t] = app[t] /\ call'[t] = call[t]
    BY <1>5 DEF Crash, Callers
  <2>3. \A g \in Handles : \/ renewer'[g] = NoRenewer /\ call'[g] = NoCall
                           \/ renewer'[g] = renewer[g] /\ call'[g] = call[g]
    BY <1>0, <1>5, Constants DEF Crash, Reset, TypeOK, Callers
  <2>4. Held' \subseteq Held \cup {NoToken}
    BY <1>1, <2>1, <2>2, <2>3 DEF Held, IdleThread, NoRenewer
  <2>5. \A p \in Callers : CallSound(p)'
    BY <1>0, <2>1, CallStays
  <2>6. \A t \in Threads : ReleaserSound(t)'
    <3>1. ASSUME NEW t \in Threads, app'[t] = IdleThread PROVE ReleaserSound(t)'
      BY <3>1 DEF ReleaserSound, IdleThread
    <3> QED BY <1>0, <2>2, <3>1, ReleaserStays
  <2>7. \A g \in Handles : RenewerSound(g)'
    BY <2>3, RenewerStays
  <2> QED BY <1>0, <1>1, <2>4, <2>5, <2>6, <2>7, HeldStays
<1> QED BY <1>2, <1>3, <1>4, <1>5 DEF Environment, Tick, ServeLate, Revoke

\* A thread's step leaves the other threads where they are.
LEMMA OthersStay ==
    ASSUME TypeOK, NEW t \in Threads, Begin(t) \/ Continue(t)
    PROVE  \A u \in Threads : u # t => app'[u] = app[u]
<1>1. \E start : app' = [app EXCEPT ![t] = start]
  BY DEF Begin, Continue, Check, Activate, Deactivate, Free, CheckStep, RenewStart,
     ActivateStep, DeactivateStep, FreeJoin, CheckVerify, CheckFresh, DomainToPublic,
     TryRenew, JoinRenewer, SpawnRenewer, SpawnFails, ActivateVerify, ActivateMatch,
     ActivateRequest, ActivateReply, ActivateSave, DeactivateReply, DeactivateClear,
     Goto, Return
<1> QED BY <1>1 DEF TypeOK

\* The steps of a call that neither send a request nor take a reply.
QuietStep(t) ==
    \/ Check(t) \/ CheckStep(t) \/ TryRenew(t) \/ SpawnFails(t) \/ Free(t)
    \/ \E k \in Keys : Activate(t, k)
    \/ ActivateVerify(t) \/ ActivateMatch(t) \/ ActivateSave(t)

LEMMA QuietStepOwn ==
    ASSUME TypeOK, NEW t \in Threads, QuietStep(t)
    PROVE  ReleaserSound(t)' /\ UNCHANGED <<call, renewer>>
<1>1. app'[t].pc \notin {"await", "clear"}
  <2>1. ASSUME NEW pc \in AppPcs \ {"await", "clear"}, Goto(t, pc)
        PROVE  app'[t].pc \notin {"await", "clear"}
    BY <2>1, GotoThread
  <2>2. ASSUME app'[t] = IdleThread PROVE app'[t].pc \notin {"await", "clear"}
    BY <2>2 DEF IdleThread
  <2>3. ASSUME NEW status, Return(t, status) PROVE app'[t].pc \notin {"await", "clear"}
    BY <2>2, <2>3 DEF Return, TypeOK
  <2>4. CASE Check(t)
    <3>1. cache = NoToken => Return(t, "NOT_ACTIVATED")
      BY <2>4 DEF Check
    <3>2. cache # NoToken => app'[t].pc = "verify"
      BY <2>4 DEF Check, TypeOK, IdleThread
    <3> QED BY <2>3, <3>1, <3>2
  <2>5. CASE CheckVerify(t)
    <3>1. CASE Return(t, "NOT_ACTIVATED")
      BY <2>3, <3>1
    <3>2. CASE ~Return(t, "NOT_ACTIVATED")
      <4>1. app' = [app EXCEPT ![t].pc = "try", ![t].valid = Verdict(app[t].lic) = "OK"]
        BY <2>5, <3>2 DEF CheckVerify
      <4> HIDE DEF Verdict
      <4>2. app'[t].pc = "try"
        BY <4>1 DEF TypeOK, AppState
      <4> QED BY <4>2
    <3> QED BY <3>1, <3>2
  <2>6. CASE CheckFresh(t)
    BY <2>1, <2>3, <2>6 DEF CheckFresh, AppPcs
  <2>7. CASE DomainToPublic(t)
    BY <2>2, <2>7 DEF DomainToPublic, TypeOK
  <2>8. CASE Free(t)
    BY <2>8 DEF Free, TypeOK, AppState
  <2>9. ASSUME NEW k \in Keys, Activate(t, k) PROVE app'[t].pc \notin {"await", "clear"}
    BY <2>9 DEF Activate, TypeOK, IdleThread
  <2>10. CASE TryRenew(t) \/ SpawnFails(t) \/ ActivateVerify(t) \/ ActivateMatch(t)
              \/ ActivateSave(t)
    <3>1. PICK pc \in {"join", "fresh", "try", "request", "public"} : Goto(t, pc)
      BY <2>10 DEF TryRenew, SpawnFails, ActivateVerify, ActivateMatch, ActivateSave
    <3> QED BY <2>1, <3>1 DEF AppPcs
  <2> QED BY <2>4, <2>5, <2>6, <2>7, <2>8, <2>9, <2>10 DEF QuietStep, CheckStep
<1>2. UNCHANGED <<call, renewer>>
  BY DEF QuietStep, Check, CheckStep, CheckVerify, CheckFresh, DomainToPublic, TryRenew,
     SpawnFails, Free, Activate, ActivateVerify, ActivateMatch, ActivateSave
<1> QED BY <1>1, <1>2 DEF ReleaserSound

\* The steps of an API call.
LEMMA ThreadOwn ==
    ASSUME OwnInv, NEW t \in Threads, Begin(t) \/ Continue(t)
    PROVE  OwnFacts'
<1> USE DEF OwnInv, OwnFacts
<1> DEFINE h == HandleOf[t]
           lic == app[t].lic
<1>0. /\ Shape /\ TypeOK /\ Locals /\ LeaseInv /\ t \in Callers
      /\ h \in Handles /\ h \in Callers /\ h # t /\ Threads \cap Handles = {}
  BY Constants DEF LeaseInv, Shape, Callers
<1>1. Moving
  BY <1>0, CallMoves
<1>2. Onward /\ HeldOwned' /\ UNCHANGED server
  BY <1>0, <1>1, ServerAsItWas, HeldStays DEF Moving
<1>3. \A u \in Threads : u # t => app'[u] = app[u]
  BY <1>0, OthersStay
<1>4. ForgottenEnded'
  <2>1. CASE DeactivateClear(t)
    <3>1. history'.forgotten \subseteq history.forgotten \cup {lic.activation_id}
      BY <1>0, <2>1 DEF DeactivateClear, TypeOK
    <3>2. server.died[lic.activation_id] # NotYet
      BY <2>1 DEF DeactivateClear, ReleaserSound
    <3> QED BY <1>2, <3>1, <3>2 DEF ForgottenEnded
  <2>2. CASE ~DeactivateClear(t)
    <3>1. history'.forgotten = history.forgotten
      BY <1>0, <2>2 DEF Begin, Continue, Check, Activate, Deactivate, Free, CheckStep,
         RenewStart, ActivateStep, DeactivateStep, FreeJoin, Reset, CheckVerify, CheckFresh,
         DomainToPublic, TryRenew, JoinRenewer, SpawnRenewer, SpawnFails, ActivateVerify,
         ActivateMatch, ActivateRequest, ActivateReply, ActivateSave, DeactivateReply, TypeOK
    <3> QED BY <1>0, <1>2, <3>1, ForgottenStays
  <2> QED BY <2>1, <2>2
\* Its own request, the rest as it was.
<1> DEFINE Joined == \A g \in Handles :
             renewer'[g] = renewer[g] \/ (renewer'[g] = NoRenewer /\ call[g] = NoCall)
<1>5. ASSUME \A p \in Callers : p # t => call'[p] = call[p], CallSound(t)', ReleaserSound(t)',
             Joined
      PROVE  OwnFacts'
  <2>1. \A p \in Callers : CallSound(p)'
    BY <1>0, <1>2, <1>5, CallStays
  <2>2. \A g \in Handles : RenewerSound(g)'
    <3>1. \A g \in Handles : g \in Callers /\ g # t
      BY <1>0 DEF Callers
    <3> QED BY <1>5, <3>1, RenewerStays
  <2>3. \A u \in Threads : ReleaserSound(u)'
    BY <1>0, <1>2, <1>3, <1>5, ReleaserStays DEF Callers
  <2> QED BY <1>2, <1>4, <2>1, <2>2, <2>3
<1>6. ASSUME UNCHANGED call, ReleaserSound(t)', Joined
      PROVE  OwnFacts'
  <2>1. CallSound(t)'
    BY <1>0, <1>2, <1>6, CallStays
  <2> QED BY <1>5, <1>6, <2>1
<1>7. ASSUME call' = [call EXCEPT ![t] = NoCall], ReleaserSound(t)',
             UNCHANGED renewer
      PROVE  OwnFacts'
  <2>1. call'[t] = NoCall /\ \A p \in Callers : p # t => call'[p] = call[p]
    BY <1>0, <1>7 DEF TypeOK
  <2>2. CallSound(t)'
    BY <1>0, <1>2, <2>1, CallStays
  <2> QED BY <1>5, <1>7, <2>1, <2>2
<1>8. ASSUME app'[t] = IdleThread PROVE ReleaserSound(t)'
  BY <1>8 DEF ReleaserSound, IdleThread
<1>9. CASE QuietStep(t)
  BY <1>0, <1>6, <1>9, QuietStepOwn
<1>10. CASE JoinRenewer(t)
  <2>1. Goto(t, "spawn") /\ UNCHANGED call /\ Joined
    BY <1>0, <1>10 DEF JoinRenewer, Joinable, RenewerSound, TypeOK
  <2>2. app'[t].pc = "spawn"
    BY <1>0, <2>1, GotoThread DEF AppPcs
  <2> QED BY <1>6, <2>1, <2>2 DEF ReleaserSound
<1>11. CASE SpawnRenewer(t)
  <2> DEFINE spawned == [NoRenewer EXCEPT !.pc = "await", !.aid = lic.activation_id]
             request == Request("renew", lic.activation_id, lic.key)
  <2>1. /\ renewer' = [renewer EXCEPT ![h] = spawned] /\ call' = [call EXCEPT ![h] = request]
        /\ app[t].pc = "spawn" /\ Goto(t, "fresh")
    BY <1>11 DEF SpawnRenewer, Send
  <2>2. /\ spawned.pc = "await" /\ spawned.aid = lic.activation_id
        /\ request.kind = "renew" /\ request.aid = lic.activation_id /\ request.key = lic.key
        /\ request.reply.error = "pending"
    BY DEF NoRenewer, Request, NoReply
  <2> HIDE DEF spawned, request
  <2>3. /\ renewer'[h] = spawned /\ call'[h] = request
        /\ \A p \in Callers : p # h => call'[p] = call[p]
        /\ \A g \in Handles : g # h => renewer'[g] = renewer[g]
    BY <1>0, <2>1 DEF TypeOK
  <2>4. \A g \in Handles : RenewerSound(g)'
    <3>1. RenewerSound(h)'
      BY <2>2, <2>3 DEF RenewerSound
    <3> QED BY <2>3, <3>1, RenewerStays DEF Callers
  <2>5. Owned(server, lic.activation_id, lic.key)
    <3>1. lic \in Held /\ lic # NoToken
      BY <1>0, <2>1, Holders, RealToken DEF Locals
    <3> QED BY <3>1 DEF HeldOwned
  <2>6. CallSound(h)'
    BY <1>2, <2>2, <2>3, <2>5 DEF CallSound
  <2>7. \A p \in Callers : CallSound(p)'
    BY <1>0, <1>2, <2>3, <2>6, CallStays
  <2>8. app'[t].pc = "fresh"
    BY <1>0, <2>1, GotoThread DEF AppPcs
  <2>9. \A u \in Threads : ReleaserSound(u)'
    <3>1. ReleaserSound(t)'
      BY <2>8 DEF ReleaserSound
    <3>2. \A u \in Threads : u # h /\ u \in Callers
      BY <1>0 DEF Callers
    <3> QED BY <1>0, <1>2, <1>3, <2>3, <3>1, <3>2, ReleaserStays
  <2> QED BY <1>2, <1>4, <2>4, <2>7, <2>9
<1>12. CASE ActivateRequest(t)
  <2> DEFINE request == Request("activate", NoAid, app[t].key)
  <2>1. /\ Goto(t, "await") /\ call' = [call EXCEPT ![t] = request]
        /\ app[t].pc = "request" /\ UNCHANGED renewer
    BY <1>12 DEF ActivateRequest, Send
  <2>2. request.kind = "activate"
    BY DEF Request
  <2> HIDE DEF request
  <2>3. call'[t] = request /\ \A p \in Callers : p # t => call'[p] = call[p]
    BY <1>0, <2>1 DEF TypeOK
  <2>4. app'[t].pc = "await" /\ app'[t].op = "activate"
    BY <1>0, <2>1, GotoThread DEF AppPcs, Locals
  <2>5. ReleaserSound(t)' /\ CallSound(t)'
    BY <2>2, <2>3, <2>4 DEF ReleaserSound, CallSound
  <2> QED BY <1>5, <2>1, <2>3, <2>5
<1>13. CASE ActivateReply(t)
  <2>1. HangUp(t) /\ UNCHANGED renewer
    BY <1>13 DEF ActivateReply
  <2>2. ReleaserSound(t)'
    <3>1. CASE app' = [app EXCEPT ![t] = IdleThread]
      BY <1>0, <1>8, <3>1 DEF TypeOK
    <3>2. CASE app' # [app EXCEPT ![t] = IdleThread]
      <4>1. app' = [app EXCEPT ![t].pc = "save", ![t].lic = call[t].reply.token]
        BY <1>13, <3>2 DEF ActivateReply, Return
      <4>2. app'[t].pc = "save"
        BY <1>0, <4>1 DEF TypeOK, AppState
      <4> QED BY <4>2 DEF ReleaserSound
    <3> QED BY <3>1, <3>2
  <2> QED BY <1>7, <2>1, <2>2 DEF HangUp
<1>14. CASE Deactivate(t) /\ cache = NoToken
  <2>1. app'[t] = IdleThread /\ UNCHANGED <<call, renewer>>
    BY <1>0, <1>14 DEF Deactivate, Return, TypeOK
  <2> QED BY <1>6, <1>8, <2>1
<1>15. CASE Deactivate(t) /\ cache # NoToken
  <2> DEFINE start == [IdleThread EXCEPT !.pc = "await", !.op = "deactivate", !.lic = cache]
             request == Request("deactivate", cache.activation_id, cache.key)
  <2>1. /\ app' = [app EXCEPT ![t] = start] /\ call' = [call EXCEPT ![t] = request]
        /\ UNCHANGED renewer
    BY <1>15 DEF Deactivate, Send
  <2>2. /\ start.pc = "await" /\ start.lic = cache
        /\ request.kind = "deactivate" /\ request.aid = cache.activation_id
        /\ request.key = cache.key /\ request.reply.error = "pending"
    BY DEF IdleThread, Request, NoReply
  <2> HIDE DEF start, request
  <2>3. /\ app'[t] = start /\ call'[t] = request
        /\ \A p \in Callers : p # t => call'[p] = call[p]
    BY <1>0, <2>1 DEF TypeOK
  <2>4. ReleaserSound(t)'
    BY <2>2, <2>3 DEF ReleaserSound
  <2>5. Owned(server, cache.activation_id, cache.key)
    BY <1>15, Holders DEF HeldOwned
  <2>6. CallSound(t)'
    BY <1>2, <2>2, <2>3, <2>5 DEF CallSound
  <2> QED BY <1>5, <2>1, <2>3, <2>4, <2>6
<1>16. CASE DeactivateReply(t)
  <2>1. /\ app[t].pc = "await" /\ app[t].op = "deactivate" /\ HangUp(t) /\ UNCHANGED renewer
    BY <1>16 DEF DeactivateReply
  <2>2. ReleaserSound(t)'
    <3>1. CASE call[t].reply.error # "OK"
      BY <1>0, <1>8, <1>16, <3>1 DEF DeactivateReply, Return, TypeOK
    <3>2. CASE call[t].reply.error = "OK"
      <4>1. Goto(t, "clear")
        BY <1>16, <3>2 DEF DeactivateReply
      <4>2. app'[t].pc = "clear" /\ app'[t].lic = lic
        BY <1>0, <4>1, GotoThread DEF AppPcs
      <4>3. call[t].kind = "deactivate" /\ call[t].aid = lic.activation_id
        BY <1>0, <2>1 DEF Locals, ReleaserSound
      <4>4. server.died[lic.activation_id] # NotYet
        BY <1>0, <3>2, <4>3 DEF CallSound
      <4> QED BY <1>2, <4>2, <4>4 DEF ReleaserSound
    <3> QED BY <3>1, <3>2
  <2> QED BY <1>7, <2>1, <2>2 DEF HangUp
<1>17. CASE DeactivateClear(t) \/ FreeJoin(t)
  <2>1. app'[t] = IdleThread /\ UNCHANGED call /\ Joined
    BY <1>0, <1>17 DEF DeactivateClear, Return, FreeJoin, Reset, Joinable, RenewerSound, TypeOK
  <2> QED BY <1>6, <1>8, <2>1
<1> QED
  BY <1>9, <1>10, <1>11, <1>12, <1>13, <1>14, <1>15, <1>16, <1>17
     DEF QuietStep, Begin, Continue, RenewStart, ActivateStep, DeactivateStep

\* The renewal thread takes the answer to its own request.
LEMMA RenewerOwn ==
    ASSUME OwnInv, NEW h \in Handles, RenewerStep(h)
    PROVE  OwnFacts'
<1> USE DEF OwnInv, OwnFacts
<1>0. /\ Shape /\ TypeOK /\ Locals /\ LeaseInv /\ h \in Callers
      /\ renewer[h] \in RenewerState /\ Threads \cap Handles = {}
  BY Constants DEF LeaseInv, Shape, Callers, TypeOK
<1>1. UNCHANGED <<server, app>> /\ history'.forgotten = history.forgotten
  BY <1>0 DEF RenewerStep, RenewReply, RenewLock, RenewWipe, RenewStore, RenewDone, TypeOK
<1>2. Onward /\ HeldOwned' /\ ForgottenEnded'
  BY <1>0, <1>1, RenewerMoves, ServerAsItWas, HeldStays, ForgottenStays DEF Moving
<1>3. ASSUME \A g \in Handles : g # h => renewer'[g] = renewer[g],
             \A p \in Callers : p # h => call'[p] = call[p],
             call'[h] \in {call[h], NoCall}, RenewerSound(h)'
      PROVE  OwnFacts'
  <2>1. \A t \in Threads : ReleaserSound(t)'
    <3>1. \A t \in Threads : t \in Callers /\ t # h
      BY <1>0 DEF Callers
    <3> QED BY <1>0, <1>1, <1>2, <1>3, <3>1, ReleaserStays
  <2>2. \A p \in Callers : CallSound(p)'
    BY <1>0, <1>2, <1>3, CallStays
  <2>3. \A g \in Handles : RenewerSound(g)'
    BY <1>3, RenewerStays DEF Callers
  <2> QED BY <1>2, <2>1, <2>2, <2>3
<1>4. CASE RenewReply(h)
  <2> DEFINE reply == call[h].reply
             verdict == IF reply.error # "OK" THEN reply.error
                        ELSE IF Verified(reply.token) /\ Verdict(reply.token) = "OK"
                        THEN "OK" ELSE "UNUSABLE"
             r == [renewer[h] EXCEPT !.pc = "lock", !.error = verdict, !.token = reply.token]
  <2>1. /\ renewer[h].pc = "await"
        /\ call' = [call EXCEPT ![h] = NoCall] /\ renewer' = [renewer EXCEPT ![h] = r]
    BY <1>0, <1>4 DEF RenewReply, HangUp, TypeOK
  <2>2. verdict = "OK" => reply.error = "OK"
    OBVIOUS
  <2> HIDE DEF verdict
  <2>3. r.pc = "lock" /\ r.error = verdict /\ r.token = reply.token /\ r.aid = renewer[h].aid
    BY <1>0 DEF RenewerState
  <2> HIDE DEF r
  <2>4. /\ renewer'[h] = r /\ \A g \in Handles : g # h => renewer'[g] = renewer[g]
        /\ call'[h] = NoCall /\ \A p \in Callers : p # h => call'[p] = call[p]
    BY <1>0, <2>1 DEF TypeOK
  <2>5. call[h].kind = "renew" /\ call[h].aid = renewer[h].aid /\ CallSound(h)
    BY <1>0, <2>1 DEF Locals, RenewerSound
  <2>6. RenewerSound(h)'
    BY <2>2, <2>3, <2>4, <2>5 DEF RenewerSound, CallSound
  <2> QED BY <1>3, <2>4, <2>6
<1>5. ASSUME NEW pc \in {"store", "wipe", "done"}, renewer' = [renewer EXCEPT ![h].pc = pc],
             renewer[h].pc # "await", pc = "store" => renewer[h].pc = "lock" /\ renewer[h].error = "OK",
             UNCHANGED call
      PROVE  OwnFacts'
  <2>1. /\ renewer'[h].pc = pc /\ renewer'[h].aid = renewer[h].aid
        /\ renewer'[h].error = renewer[h].error /\ renewer'[h].token = renewer[h].token
        /\ \A g \in Handles : g # h => renewer'[g] = renewer[g]
    BY <1>0, <1>5, GotoRenewer DEF RenewerPcs
  <2>2. RenewerSound(h)'
    BY <1>5, <2>1 DEF RenewerSound
  <2> QED BY <1>3, <1>5, <2>1, <2>2
<1>6. CASE RenewLock(h)
  <2>1. PICK pc \in {"store", "wipe", "done"} :
          /\ renewer' = [renewer EXCEPT ![h].pc = pc]
          /\ pc = "store" => renewer[h].error = "OK"
    BY <1>6 DEF RenewLock, AfterLock
  <2> QED BY <1>5, <1>6, <2>1 DEF RenewLock
<1>7. CASE RenewWipe(h) \/ RenewStore(h)
  BY <1>5, <1>7 DEF RenewWipe, RenewStore
<1>8. CASE RenewDone(h)
  <2>1. /\ renewer' = [renewer EXCEPT ![h] = [NoRenewer EXCEPT !.pc = "exited"]]
        /\ renewer[h].pc = "done" /\ UNCHANGED call
    BY <1>8 DEF RenewDone
  <2>2. /\ renewer'[h].pc = "exited" /\ \A g \in Handles : g # h => renewer'[g] = renewer[g]
    BY <1>0, <2>1 DEF TypeOK, NoRenewer
  <2>3. call[h] = NoCall
    BY <2>1 DEF RenewerSound
  <2> QED BY <1>3, <2>1, <2>2, <2>3 DEF RenewerSound
<1> QED BY <1>4, <1>6, <1>7, <1>8 DEF RenewerStep

LEMMA OwnStep == OwnInv /\ [Next]_vars => OwnInv'
<1> SUFFICES ASSUME OwnInv, [Next]_vars PROVE OwnInv'
  OBVIOUS
<1>1. CASE Next
  BY <1>1, EnvironmentOwn, ThreadOwn, RenewerOwn, LeaseStep DEF OwnInv, Next
<1>2. CASE UNCHANGED vars
  <2>1. OwnFacts'
    BY <1>2 DEF vars, OwnInv, OwnFacts, ForgottenEnded, HeldOwned, Held, CallSound,
       RenewerSound, ReleaserSound
  <2> QED BY <1>2, <2>1, LeaseStep DEF OwnInv
<1> QED BY <1>1, <1>2

-----------------------------------------------------------------------------
(***************************************************************************)
(* What makes a renewal thread empty the cache is the answer to its        *)
(* request, whoever sent that.                                             *)
(***************************************************************************)

\* h's renewal of activation a was refused, and h has not acted upon it yet.
Blames(h, a) ==
    \/ call[h].kind = "renew" /\ call[h].aid = a /\ call[h].reply.error \in WipingErrors
    \/ /\ renewer[h].aid = a
       /\ \/ renewer[h].pc = "wipe"
          \/ renewer[h].pc = "lock" /\ renewer[h].error \in WipingErrors

LEMMA BlamesOne ==
    ASSUME Shape, NEW h \in Handles, NEW a, Blames(h, a)
    PROVE  a \in Aids
<1>1. h \in Callers
  BY DEF Callers
<1>2. CASE call[h].kind = "renew" /\ call[h].aid = a
  BY <1>1, <1>2 DEF Shape, TypeOK, Pending, Addressed, NoCall
<1>3. CASE renewer[h].aid = a /\ renewer[h].pc \in {"wipe", "lock"}
  BY <1>3 DEF Shape, Locals
<1> QED BY <1>2, <1>3 DEF Blames

\* An answer of the server gives somebody to blame to nobody but its caller.
LEMMA BlamesServed ==
    ASSUME OwnInv, NEW p \in Callers, Serve(p), NEW h \in Handles, NEW a,
           ~Blames(h, a), Blames(h, a)'
    PROVE  /\ p = h /\ call[h].kind = "renew" /\ call[h].aid = a
           /\ call'[h].reply.error \in WipingErrors
<1> USE DEF OwnInv, LeaseInv, Shape, Blames
<1>0. TypeOK /\ h \in Callers
  BY DEF Callers
<1>1. PICK o \in Outcomes(server, call[p], clock) :
        call' = [call EXCEPT ![p].reply = o.reply]
  BY DEF Serve
<1>2. UNCHANGED renewer /\ call[p] \in Pending
  BY <1>0 DEF Serve, local, TypeOK
<1>3. p = h
  BY <1>0, <1>1, <1>2 DEF TypeOK
<1>4. call'[h].kind = call[h].kind /\ call'[h].aid = call[h].aid
  BY <1>0, <1>1, <1>2, <1>3 DEF TypeOK, Pending
<1> QED BY <1>2, <1>3, <1>4

\* Neither does any step that is not the server's.
Unserved ==
    \/ Tick \/ ServeLate
    \/ \E k \in Keys : Revoke(k)
    \/ \E p \in Callers : TimeOut(p)
    \/ \E h \in Handles : Crash(h) \/ RenewerStep(h)
    \/ \E t \in Threads : Begin(t) \/ Continue(t)
    \/ UNCHANGED vars

LEMMA BlamesStep ==
    ASSUME OwnInv, NEW h \in Handles, NEW a, Unserved, Blames(h, a)'
    PROVE  Blames(h, a)
<1> USE DEF OwnInv, LeaseInv, Shape, Blames
<1>0. /\ TypeOK /\ Locals /\ h \in Callers /\ RenewerSound(h) /\ renewer[h] \in RenewerState
      /\ Threads \cap Handles = {}
  BY Constants DEF Callers, OwnFacts, TypeOK
<1>1. ASSUME call'[h] = call[h], renewer'[h] = renewer[h] PROVE Blames(h, a)
  BY <1>1
<1>2. ASSUME call'[h] \in {NoCall, call[h]}, renewer'[h] = NoRenewer PROVE Blames(h, a)
  BY <1>2 DEF NoCall, NoRenewer
<1>3. ASSUME NEW p \in Callers, TimeOut(p) PROVE Blames(h, a)
  <2>1. Refusal(p, "NETWORK") /\ UNCHANGED renewer
    BY <1>3 DEF TimeOut, Refusal, local
  <2>2. call'[p].reply.error = "NETWORK" /\ (h # p => call'[h] = call[h])
    BY <1>0, <1>3, <2>1, RefusedCall
  <2> QED BY <2>1, <2>2 DEF WipingErrors
<1>4. ASSUME NEW g \in Handles, Crash(g) PROVE Blames(h, a)
  <2>1. /\ call'[h] \in {NoCall, call[h]}
        /\ g # h => call'[h] = call[h] /\ renewer'[h] = renewer[h]
        /\ g = h => renewer'[h] = NoRenewer
    BY <1>0, <1>4, Constants DEF Crash, Reset, TypeOK
  <2> QED BY <1>1, <1>2, <2>1
<1>5. CASE Tick \/ ServeLate \/ \E k \in Keys : Revoke(k)
  BY <1>1, <1>5 DEF Tick, ServeLate, Revoke, local
<1>6. ASSUME NEW t \in Threads, Begin(t) \/ Continue(t) PROVE Blames(h, a)
  <2>0. t # h /\ t \in Callers
    BY <1>0 DEF Callers
  <2>1. CASE SpawnRenewer(t)
    <3> DEFINE g == HandleOf[t]
               lic == app[t].lic
               spawned == [NoRenewer EXCEPT !.pc = "await", !.aid = lic.activation_id]
               request == Request("renew", lic.activation_id, lic.key)
    <3>1. renewer' = [renewer EXCEPT ![g] = spawned] /\ call' = [call EXCEPT ![g] = request]
      BY <2>1 DEF SpawnRenewer, Send
    <3>2. spawned.pc = "await" /\ request.reply.error = "pending"
      BY DEF NoRenewer, Request, NoReply
    <3> HIDE DEF spawned, request
    <3>3. CASE g = h
      <4>1. renewer'[h] = spawned /\ call'[h] = request
        BY <1>0, <3>1, <3>3 DEF TypeOK
      <4> QED BY <3>2, <4>1 DEF WipingErrors
    <3>4. CASE g # h
      BY <1>0, <1>1, <3>1, <3>4 DEF TypeOK
    <3> QED BY <3>3, <3>4
  <2>2. CASE JoinRenewer(t) \/ FreeJoin(t)
    <3>1. UNCHANGED call /\ renewer'[h] \in {renewer[h], NoRenewer}
      BY <1>0, <2>2 DEF JoinRenewer, FreeJoin, Reset, TypeOK
    <3> QED BY <1>1, <1>2, <3>1
  <2>3. CASE QuietStep(t)
    BY <1>0, <1>1, <2>3, QuietStepOwn
  <2>4. CASE ActivateRequest(t) \/ ActivateReply(t) \/ Deactivate(t) \/ DeactivateStep(t)
    <3>1. renewer' = renewer /\ call'[h] = call[h]
      BY <1>0, <2>0, <2>4 DEF ActivateRequest, ActivateReply, Deactivate, DeactivateStep,
         DeactivateReply, DeactivateClear, Send, HangUp, TypeOK
    <3> QED BY <1>1, <3>1
  <2> QED BY <1>6, <2>1, <2>2, <2>3, <2>4
          DEF QuietStep, Begin, Continue, RenewStart, ActivateStep
<1>7. ASSUME NEW g \in Handles, RenewerStep(g), g # h PROVE Blames(h, a)
  <2>1. call'[h] = call[h] /\ renewer'[h] = renewer[h]
    BY <1>0, <1>7 DEF RenewerStep, RenewReply, RenewLock, RenewWipe, RenewStore, RenewDone,
       HangUp, TypeOK
  <2> QED BY <1>1, <2>1
<1>8. CASE RenewerStep(h)
  <2>1. CASE RenewReply(h)
    <3> DEFINE reply == call[h].reply
               verdict == IF reply.error # "OK" THEN reply.error
                          ELSE IF Verified(reply.token) /\ Verdict(reply.token) = "OK"
                          THEN "OK" ELSE "UNUSABLE"
               r == [renewer[h] EXCEPT !.pc = "lock", !.error = verdict, !.token = reply.token]
    <3>1. /\ renewer[h].pc = "await"
          /\ call' = [call EXCEPT ![h] = NoCall] /\ renewer' = [renewer EXCEPT ![h] = r]
      BY <1>0, <2>1 DEF RenewReply, HangUp, TypeOK
    <3>2. verdict \in WipingErrors => reply.error = verdict
      BY DEF WipingErrors
    <3> HIDE DEF verdict
    <3>3. r.pc = "lock" /\ r.error = verdict /\ r.aid = renewer[h].aid
      BY <1>0 DEF RenewerState
    <3> HIDE DEF r
    <3>4. renewer'[h] = r /\ call'[h] = NoCall
      BY <1>0, <3>1 DEF TypeOK
    <3>5. call[h].kind = "renew" /\ call[h].aid = renewer[h].aid
      BY <1>0, <3>1 DEF Locals, RenewerSound
    <3> QED BY <3>2, <3>3, <3>4, <3>5 DEF NoCall
  <2>2. ASSUME NEW pc \in RenewerPcs, renewer' = [renewer EXCEPT ![h].pc = pc], UNCHANGED call,
               pc = "wipe" => renewer[h].pc = "lock" /\ renewer[h].error \in WipingErrors,
               pc # "lock"
        PROVE  Blames(h, a)
    <3>1. renewer'[h].pc = pc /\ renewer'[h].aid = renewer[h].aid
      BY <1>0, <2>2, GotoRenewer
    <3> QED BY <2>2, <3>1
  <2>3. CASE RenewLock(h)
    <3>1. PICK pc \in {"store", "wipe", "done"} :
            /\ renewer' = [renewer EXCEPT ![h].pc = pc]
            /\ pc = "wipe" => renewer[h].error \in WipingErrors
      BY <2>3 DEF RenewLock, AfterLock
    <3> QED BY <2>2, <2>3, <3>1 DEF RenewLock, RenewerPcs
  <2>4. CASE RenewWipe(h) \/ RenewStore(h)
    BY <2>2, <2>4 DEF RenewWipe, RenewStore, RenewerPcs
  <2>5. CASE RenewDone(h)
    <3>1. UNCHANGED call /\ renewer'[h].pc = "exited"
      BY <1>0, <2>5 DEF RenewDone, TypeOK, NoRenewer
    <3> QED BY <3>1
  <2> QED BY <1>8, <2>1, <2>3, <2>4, <2>5 DEF RenewerStep
<1>9. CASE UNCHANGED vars
  BY <1>1, <1>9 DEF vars
<1> QED BY <1>3, <1>4, <1>5, <1>6, <1>7, <1>8, <1>9 DEF Unserved

\* Where no answer is malformed, what a renewal is refused for is over.
ExcuseInv == OwnInv /\ \A h \in Handles, a \in Aids : Blames(h, a) => Excused(a)

LEMMA ExcuseInit == Init => ExcuseInv
<1> SUFFICES ASSUME Init PROVE ExcuseInv
  OBVIOUS
<1>1. \A h \in Handles, a \in Aids : ~Blames(h, a)
  BY DEF Init, Blames, NoCall, NoRenewer, Callers
<1> QED BY <1>1, OwnInit DEF ExcuseInv

\* Time goes on over a step.
LEMMA StepOnward == LeaseInv /\ [Next]_vars => Onward
<1> SUFFICES ASSUME LeaseInv, [Next]_vars PROVE Onward
  OBVIOUS
<1>1. CASE Environment
  BY <1>1, EnvironmentOnward
<1>2. ASSUME NEW t \in Threads, Begin(t) \/ Continue(t) PROVE Onward
  BY <1>2, CallMoves, ServerAsItWas DEF LeaseInv, Moving
<1>3. ASSUME NEW h \in Handles, RenewerStep(h) PROVE Onward
  BY <1>3, RenewerMoves, ServerAsItWas DEF LeaseInv, Moving
<1>4. CASE UNCHANGED vars
  BY <1>4, ServerAsItWas DEF LeaseInv, vars
<1> QED BY <1>1, <1>2, <1>3, <1>4 DEF Next

LEMMA ExcuseStep == ExcuseInv /\ [Next]_vars => ExcuseInv'
<1> SUFFICES ASSUME ExcuseInv, [Next]_vars PROVE ExcuseInv'
  OBVIOUS
<1> USE DEF ExcuseInv
<1>1. OwnInv' /\ Onward
  BY OwnStep, StepOnward DEF OwnInv
<1>2. Unserved \/ \E p \in Callers : Serve(p)
  BY DEF Next, Environment, Unserved
<1>3. ASSUME NEW h \in Handles, NEW a \in Aids, Blames(h, a)' PROVE Excused(a)'
  <2>1. CASE Blames(h, a)
    BY <1>1, <2>1, OnwardExcused
  <2>2. ASSUME Serve(h), call[h].kind = "renew", call[h].aid = a,
               call'[h].reply.error \in WipingErrors
        PROVE  Excused(a)'
    <3>1. PICK o \in Outcomes(server, call[h], clock) :
            server' = o.server /\ call' = [call EXCEPT ![h].reply = o.reply]
      BY <2>2 DEF Serve
    <3>2. /\ h \in Callers /\ call[h] \in Pending /\ server \in ServerState
          /\ ServerSound(server) /\ clock \in Nat /\ clock' = clock /\ CallSound(h)
          /\ call \in [Callers -> Pending \cup {NoCall}]
      BY <2>2 DEF Serve, OwnInv, OwnFacts, LeaseInv, Shape, TypeOK, Callers
    <3>3. Telling(server, call[h], clock, o)
      BY <3>2, <3>1, OutcomesTell DEF Pending
    <3>4. call'[h].reply = o.reply
      BY <3>1, <3>2 DEF Pending
    <3>5. ExcusedAt(server', a, clock)
      BY <2>2, <3>1, <3>2, <3>3, <3>4 DEF CallSound, Telling
    <3> QED BY <3>2, <3>5 DEF Excused
  <2> QED BY <1>2, <1>3, <2>1, <2>2, BlamesStep, BlamesServed
<1> QED BY <1>1, <1>3

-----------------------------------------------------------------------------
(***************************************************************************)
(* One caller: the licence in the cache is the one its call is about.      *)
(***************************************************************************)
Matches(lic) == cache = NoToken \/ cache.activation_id = lic.activation_id
Unforgotten(tok) == tok = NoToken \/ tok.activation_id \notin history.forgotten

\* Where a thread's licence is the one in the cache, if there still is one; after
\* a save that may have failed it need not be.
LoadedPcs == {"verify", "try", "join", "spawn", "fresh", "clear"}
             \cup (IF "save" \in Faults THEN {} ELSE {"public"})

\* What an API call is about.
ThreadSound(t) ==
    /\ app[t].pc \in LoadedPcs => Matches(app[t].lic)
    /\ app[t].pc = "await" /\ app[t].op = "deactivate" => Matches(app[t].lic)
    /\ app[t].pc = "await" /\ app[t].op = "activate" => Unforgotten(call[t].reply.token)
    /\ app[t].pc = "save" => Unforgotten(app[t].lic)
    /\ app[t].pc # "idle" => result[t].in_grace_period = FALSE

SeatFacts == ReleaseIsFinal /\ \A t \in Threads : ThreadSound(t)

SeatInv == OwnInv /\ RenewalWritesOnlyItsOwn /\ SeatFacts

LEMMA SeatInit == Init => SeatInv
<1> SUFFICES ASSUME Init PROVE SeatInv
  OBVIOUS
<1>1. SeatFacts
  BY DEF Init, SeatFacts, ReleaseIsFinal, ThreadSound, IdleThread, LoadedPcs
<1>2. RenewalWritesOnlyItsOwn
  BY DEF Init, RenewalWritesOnlyItsOwn, NoRenewer
<1> QED BY <1>1, <1>2, OwnInit DEF SeatInv

\* A thread that stays, with the cache as it was, emptied, or renewed.
CacheSpared ==
    \/ cache' = NoToken
    \/ cache # NoToken /\ cache'.activation_id = cache.activation_id

LEMMA ThreadStays ==
    ASSUME NEW t \in Threads, ThreadSound(t),
           app'[t] = app[t], result'[t] = result[t], history'.forgotten = history.forgotten,
           CacheSpared \/ UNCHANGED cache,
           call'[t] = call[t] \/ Unforgotten(call'[t].reply.token)
    PROVE  ThreadSound(t)'
<1>1. \A lic : Matches(lic) => Matches(lic)'
  BY DEF Matches, CacheSpared
<1>2. \A tok : Unforgotten(tok)' <=> Unforgotten(tok)
  BY DEF Unforgotten
<1> QED BY <1>1, <1>2 DEF ThreadSound

LEMMA IdleIsSound ==
    ASSUME NEW t \in Threads, app'[t] = IdleThread
    PROVE  ThreadSound(t)'
BY DEF ThreadSound, IdleThread, LoadedPcs

LEMMA RefusalSeat ==
    ASSUME SeatInv, NEW p \in Callers, NEW e, Refusal(p, e)
    PROVE  SeatFacts'
<1> USE DEF SeatInv, SeatFacts
<1>1. TypeOK
  BY DEF OwnInv, LeaseInv, Shape
<1>2. call'[p].reply.token = NoToken /\ \A q \in Callers : q # p => call'[q] = call[q]
  BY <1>1, RefusedCall
<1>3. UNCHANGED <<cache, app, result, history>>
  BY DEF Refusal, local
<1>4. \A t \in Threads : ThreadSound(t)'
  BY <1>2, <1>3, ThreadStays DEF Callers, Unforgotten
<1> QED BY <1>3, <1>4 DEF ReleaseIsFinal

\* The environment tells nobody anything wrong.
LEMMA EnvironmentSeat ==
    ASSUME SeatInv, OwnInv', Environment
    PROVE  SeatFacts'
<1> USE DEF SeatInv, SeatFacts
<1>0. Shape /\ TypeOK /\ ServerSound(server)
  BY DEF OwnInv, LeaseInv, Shape
<1>1. UNCHANGED cache /\ history'.forgotten = history.forgotten
  BY <1>0 DEF Environment, Tick, ServeLate, Revoke, Serve, TimeOut, Crash, Reset, local,
     TypeOK
<1>2. ReleaseIsFinal'
  BY <1>1 DEF ReleaseIsFinal
<1>3. CASE UNCHANGED <<call, local>>
  BY <1>1, <1>2, <1>3, ThreadStays DEF local
<1>4. ASSUME NEW p \in Callers, Serve(p) PROVE SeatFacts'
  <2>1. PICK o \in Outcomes(server, call[p], clock) :
          server' = o.server /\ call' = [call EXCEPT ![p].reply = o.reply]
    BY <1>4 DEF Serve
  <2>2. call[p] \in Pending /\ UNCHANGED local
    BY <1>0, <1>4 DEF Serve, TypeOK
  <2>3. Telling(server, call[p], clock, o)
    BY <1>0, <2>1, <2>2, OutcomesTell DEF TypeOK, Pending
  <2>4. call'[p].reply = o.reply /\ \A q \in Callers : q # p => call'[q] = call[q]
    BY <1>0, <2>1, <2>2 DEF TypeOK, Pending
  <2>5. Unforgotten(o.reply.token)
    BY <1>1, <2>1, <2>3 DEF Telling, JustIssued, Unforgotten, OwnInv, OwnFacts, ForgottenEnded
  <2> QED BY <1>1, <1>2, <2>2, <2>4, <2>5, ThreadStays DEF local, Callers
<1>5. ASSUME NEW p \in Callers, TimeOut(p) PROVE SeatFacts'
  BY <1>5, RefusalSeat DEF TimeOut, Refusal
<1>6. ASSUME NEW h \in Handles, Crash(h) PROVE SeatFacts'
  <2>1. \A t \in Threads : \/ app'[t] = IdleThread
                           \/ app'[t] = app[t] /\ result'[t] = result[t] /\ call'[t] = call[t]
    BY <1>6 DEF Crash, Callers
  <2> QED BY <1>1, <1>2, <2>1, IdleIsSound, ThreadStays
<1> QED BY <1>3, <1>4, <1>5, <1>6 DEF Environment, Tick, ServeLate, Revoke

-----------------------------------------------------------------------------
(***************************************************************************)
(* The thread's calls.                                                     *)
(***************************************************************************)

\* A call that goes on with its licence, the cache as it was.
LEMMA GoesOn ==
    ASSUME NEW t \in Threads, ThreadSound(t), UNCHANGED <<cache, result>>,
           app[t].pc \in {"verify", "try", "join", "spawn", "fresh"},
           app'[t].pc \in {"try", "join", "spawn", "fresh", "public", "request"},
           app'[t].lic = app[t].lic
    PROVE  ThreadSound(t)'
<1>1. Matches(app[t].lic)
  BY DEF ThreadSound, LoadedPcs
<1>2. Matches(app[t].lic)'
  BY <1>1 DEF Matches
<1> QED BY <1>2 DEF ThreadSound

\* Its call is the only one; the renewal thread moves only on its own.
LEMMA CallSeat ==
    ASSUME OneCaller, SeatInv, NEW t \in Threads, Begin(t) \/ Continue(t)
    PROVE  SeatFacts'
<1> USE DEF SeatInv, SeatFacts
<1> DEFINE lic == app[t].lic
<1>0. /\ TypeOK /\ Locals /\ t \in Callers /\ ThreadSound(t) /\ \A u \in Threads : u = t
  BY DEF OwnInv, LeaseInv, Shape, Callers, OneCaller
<1>1. ASSUME ThreadSound(t)', UNCHANGED cache, history'.forgotten = history.forgotten
      PROVE  SeatFacts'
  BY <1>0, <1>1 DEF ReleaseIsFinal
<1>2. ASSUME app'[t] = IdleThread, UNCHANGED cache, history'.forgotten = history.forgotten
      PROVE  SeatFacts'
  BY <1>1, <1>2, IdleIsSound
<1>3. ASSUME NEW status, Return(t, status) PROVE app'[t] = IdleThread
  BY <1>0, <1>3 DEF Return, TypeOK
\* A call that starts with what is in the cache.
<1>4. ASSUME NEW start, start.lic = cache, app' = [app EXCEPT ![t] = start],
             start.pc \in {"verify", "request"} \/ (start.pc = "await" /\ start.op = "deactivate"),
             result' = [result EXCEPT ![t] = NoResult], UNCHANGED <<cache, history>>
      PROVE  SeatFacts'
  <2>1. app'[t] = start /\ result'[t].in_grace_period = FALSE
    BY <1>0, <1>4 DEF TypeOK, NoResult
  <2>2. Matches(cache)'
    BY <1>4 DEF Matches
  <2>3. ThreadSound(t)'
    BY <1>4, <2>1, <2>2 DEF ThreadSound, LoadedPcs
  <2> QED BY <1>1, <1>4, <2>3
<1>5. CASE Check(t)
  <2>1. CASE cache = NoToken
    BY <1>2, <1>3, <1>5, <2>1 DEF Check
  <2>2. CASE cache # NoToken
    <3> DEFINE start == [IdleThread EXCEPT !.pc = "verify", !.op = "check", !.lic = cache]
    <3>1. app' = [app EXCEPT ![t] = start] /\ result' = [result EXCEPT ![t] = NoResult]
          /\ UNCHANGED <<cache, history>>
      BY <1>5, <2>2 DEF Check
    <3>2. start.pc = "verify" /\ start.lic = cache
      BY DEF IdleThread
    <3> HIDE DEF start
    <3> QED BY <1>4, <3>1, <3>2
  <2> QED BY <2>1, <2>2
<1>6. ASSUME NEW k \in Keys, Activate(t, k) PROVE SeatFacts'
  <2> DEFINE start == [IdleThread EXCEPT
                        !.pc = IF cache = NoToken THEN "request" ELSE "verify",
                        !.op = "activate", !.key = k, !.lic = cache]
  <2>1. app' = [app EXCEPT ![t] = start] /\ result' = [result EXCEPT ![t] = NoResult]
        /\ UNCHANGED <<cache, history>>
    BY <1>6 DEF Activate
  <2>2. start.pc \in {"request", "verify"} /\ start.lic = cache
    BY DEF IdleThread
  <2> HIDE DEF start
  <2> QED BY <1>4, <2>1, <2>2
<1>7. CASE Deactivate(t)
  <2>1. CASE cache = NoToken
    BY <1>2, <1>3, <1>7, <2>1 DEF Deactivate
  <2>2. CASE cache # NoToken
    <3> DEFINE start == [IdleThread EXCEPT !.pc = "await", !.op = "deactivate", !.lic = cache]
    <3>1. app' = [app EXCEPT ![t] = start] /\ result' = [result EXCEPT ![t] = NoResult]
          /\ UNCHANGED <<cache, history>>
      BY <1>7, <2>2 DEF Deactivate
    <3>2. start.pc = "await" /\ start.op = "deactivate" /\ start.lic = cache
      BY DEF IdleThread
    <3> HIDE DEF start
    <3> QED BY <1>4, <3>1, <3>2
  <2> QED BY <2>1, <2>2
<1>8. CASE CheckVerify(t)
  <2>1. UNCHANGED <<cache, history>> /\ app[t].pc = "verify"
    BY <1>8 DEF CheckVerify
  <2>2. CASE Return(t, "NOT_ACTIVATED")
    BY <1>2, <1>3, <2>1, <2>2
  <2>3. CASE ~Return(t, "NOT_ACTIVATED")
    <3>1. /\ app' = [app EXCEPT ![t].pc = "try", ![t].valid = Verdict(lic) = "OK"]
          /\ UNCHANGED result
      BY <1>8, <2>3 DEF CheckVerify
    <3>2. app'[t].pc = "try" /\ app'[t].lic = lic
      <4> HIDE DEF Verdict
      <4> QED BY <1>0, <3>1 DEF TypeOK, AppState
    <3> QED BY <1>0, <1>1, <2>1, <3>1, <3>2, GoesOn
  <2> QED BY <2>2, <2>3
\* A step on the way with the licence.
<1>9. ASSUME NEW pc \in {"try", "join", "spawn", "fresh", "public", "request"}, Goto(t, pc),
             app[t].pc \in {"verify", "try", "join", "spawn", "fresh"},
             UNCHANGED <<cache, result, history>>
      PROVE  SeatFacts'
  <2>1. app'[t].pc = pc /\ app'[t].lic = lic
    BY <1>0, <1>9, GotoThread DEF AppPcs
  <2> QED BY <1>0, <1>1, <1>9, <2>1, GoesOn
<1>10. CASE CheckFresh(t)
  <2>1. UNCHANGED <<cache, history>> /\ app[t].pc = "fresh"
    BY <1>10 DEF CheckFresh
  <2>2. CASE Return(t, "NOT_ACTIVATED")
    BY <1>2, <1>3, <2>1, <2>2
  <2>3. CASE Goto(t, "public") /\ UNCHANGED result
    BY <1>9, <2>1, <2>3
  <2> QED BY <1>10, <2>2, <2>3 DEF CheckFresh
<1>11. CASE DomainToPublic(t)
  BY <1>0, <1>2, <1>11 DEF DomainToPublic, TypeOK
<1>12. CASE RenewStart(t) \/ ActivateVerify(t) \/ ActivateMatch(t)
  <2>1. PICK pc \in {"try", "join", "spawn", "fresh", "public", "request"} : Goto(t, pc)
    BY <1>12 DEF RenewStart, TryRenew, JoinRenewer, SpawnRenewer, SpawnFails, ActivateVerify,
       ActivateMatch
  <2>2. /\ app[t].pc \in {"verify", "try", "join", "spawn", "fresh"}
        /\ UNCHANGED <<cache, result, history>>
    BY <1>12 DEF RenewStart, TryRenew, JoinRenewer, SpawnRenewer, SpawnFails, ActivateVerify,
       ActivateMatch
  <2> QED BY <1>9, <2>1, <2>2
<1>13. CASE ActivateRequest(t)
  <2> DEFINE request == Request("activate", NoAid, app[t].key)
  <2>1. /\ Goto(t, "await") /\ call' = [call EXCEPT ![t] = request]
        /\ app[t].pc = "request" /\ UNCHANGED <<cache, result, history>>
    BY <1>13 DEF ActivateRequest, Send
  <2>2. request.reply.token = NoToken
    BY DEF Request, NoReply
  <2> HIDE DEF request
  <2>3. call'[t] = request /\ app'[t].pc = "await" /\ app'[t].op = "activate"
    BY <1>0, <2>1, GotoThread DEF AppPcs, Locals, TypeOK
  <2>4. ThreadSound(t)'
    BY <1>0, <2>1, <2>2, <2>3 DEF ThreadSound, LoadedPcs, Unforgotten
  <2> QED BY <1>1, <2>1, <2>4
<1>14. CASE ActivateReply(t)
  <2>1. /\ app[t].pc = "await" /\ app[t].op = "activate" /\ UNCHANGED <<cache, history>>
    BY <1>14 DEF ActivateReply
  <2>2. CASE \E status : Return(t, status)
    BY <1>2, <1>3, <2>1, <2>2
  <2>3. CASE ~\E status : Return(t, status)
    <3>1. /\ app' = [app EXCEPT ![t].pc = "save", ![t].lic = call[t].reply.token]
          /\ UNCHANGED result
      BY <1>14, <2>3 DEF ActivateReply
    <3>2. app'[t].pc = "save" /\ app'[t].lic = call[t].reply.token
      BY <1>0, <3>1 DEF TypeOK, AppState
    <3>3. Unforgotten(call[t].reply.token)
      BY <1>0, <2>1 DEF ThreadSound
    <3>4. ThreadSound(t)'
      BY <1>0, <2>1, <3>1, <3>2, <3>3 DEF ThreadSound, LoadedPcs, Unforgotten
    <3> QED BY <1>1, <2>1, <3>4
  <2> QED BY <2>2, <2>3
<1>15. CASE ActivateSave(t)
  <2>1. /\ Goto(t, "public") /\ app[t].pc = "save" /\ UNCHANGED result
        /\ cache' = lic \/ ("save" \in Faults /\ UNCHANGED cache)
        /\ history'.forgotten = history.forgotten
    BY <1>0, <1>15 DEF ActivateSave, SaveToken, TypeOK
  <2>2. app'[t].pc = "public" /\ app'[t].lic = lic
    BY <1>0, <2>1, GotoThread DEF AppPcs
  <2>3. ThreadSound(t)'
    <3>1. "public" \in LoadedPcs => Matches(lic)'
      BY <2>1, <2>2 DEF LoadedPcs, Matches
    <3> QED BY <1>0, <2>1, <2>2, <3>1 DEF ThreadSound
  <2>4. ReleaseIsFinal'
    BY <1>0, <2>1 DEF ReleaseIsFinal, ThreadSound, Unforgotten
  <2> QED BY <1>0, <2>3, <2>4
<1>16. CASE DeactivateReply(t)
  <2>1. /\ app[t].pc = "await" /\ app[t].op = "deactivate" /\ UNCHANGED <<cache, history>>
    BY <1>16 DEF DeactivateReply
  <2>2. CASE \E status : Return(t, status)
    BY <1>2, <1>3, <2>1, <2>2
  <2>3. CASE Goto(t, "clear") /\ UNCHANGED result
    <3>1. app'[t].pc = "clear" /\ app'[t].lic = lic
      BY <1>0, <2>3, GotoThread DEF AppPcs
    <3>2. ThreadSound(t)'
      BY <1>0, <2>1, <2>3, <3>1 DEF ThreadSound, Matches
    <3> QED BY <1>1, <2>1, <3>2
  <2> QED BY <1>16, <2>2, <2>3 DEF DeactivateReply
<1>17. CASE DeactivateClear(t)
  <2>1. /\ Return(t, "OK")
        /\ cache' = NoToken \/ (cache' = cache /\ cache # NoToken)
        /\ history'.forgotten = IF cache' = NoToken
             THEN history.forgotten \cup {lic.activation_id} ELSE history.forgotten
    BY <1>0, <1>17 DEF DeactivateClear, SaveToken, TypeOK
  <2>2. ReleaseIsFinal'
    BY <2>1 DEF ReleaseIsFinal
  <2>3. ThreadSound(t)'
    BY <1>3, <2>1, IdleIsSound
  <2> QED BY <1>0, <2>2, <2>3
<1>18. CASE Free(t)
  <2>1. /\ app'[t].pc = "free" /\ result'[t].in_grace_period = FALSE
        /\ UNCHANGED <<cache, history>>
    BY <1>0, <1>18 DEF Free, TypeOK, AppState, NoResult
  <2>2. ThreadSound(t)'
    BY <2>1 DEF ThreadSound, LoadedPcs
  <2> QED BY <1>1, <2>1, <2>2
<1>19. CASE FreeJoin(t)
  <2>1. /\ app'[t] = IdleThread /\ UNCHANGED cache /\ history'.forgotten = history.forgotten
    BY <1>0, <1>19 DEF FreeJoin, Reset, TypeOK
  <2> QED BY <1>2, <2>1
<1> QED
  BY <1>5, <1>6, <1>7, <1>8, <1>10, <1>11, <1>12, <1>13, <1>14, <1>15, <1>16, <1>17, <1>18,
     <1>19 DEF Begin, Continue, CheckStep, ActivateStep, DeactivateStep

\* The renewal thread writes its own activation's token, or none.
LEMMA RenewerSeat ==
    ASSUME SeatInv, NEW h \in Handles, RenewerStep(h)
    PROVE  SeatFacts'
<1> USE DEF SeatInv, SeatFacts
<1>0. /\ TypeOK /\ RenewerSound(h) /\ Threads \cap Handles = {}
  BY Constants DEF OwnInv, OwnFacts, LeaseInv, Shape
<1>1. UNCHANGED <<app, result>> /\ history'.forgotten = history.forgotten
  BY <1>0 DEF RenewerStep, RenewReply, RenewLock, RenewWipe, RenewStore, RenewDone, TypeOK
<1>2. UNCHANGED cache \/ CacheSpared
  <2>1. CASE RenewWipe(h)
    BY <2>1 DEF RenewWipe, SaveToken, CacheSpared
  <2>2. CASE RenewStore(h)
    <3>1. renewer[h].token.activation_id = renewer[h].aid /\ HoldsActivation(renewer[h].aid)
      BY <1>0, <2>2 DEF RenewStore, RenewerSound, RenewalWritesOnlyItsOwn
    <3> QED BY <2>2, <3>1 DEF RenewStore, SaveToken, CacheSpared, HoldsActivation
  <2>3. CASE RenewReply(h) \/ RenewLock(h) \/ RenewDone(h)
    BY <2>3 DEF RenewReply, RenewLock, RenewDone
  <2> QED BY <2>1, <2>2, <2>3 DEF RenewerStep
<1>3. \A t \in Threads : call'[t] = call[t]
  <2>1. UNCHANGED call \/ call' = [call EXCEPT ![h] = NoCall]
    BY DEF RenewerStep, RenewReply, RenewLock, RenewWipe, RenewStore, RenewDone, HangUp
  <2>2. \A t \in Threads : t \in Callers /\ t # h
    BY <1>0 DEF Callers
  <2> QED BY <1>0, <2>1, <2>2 DEF TypeOK
<1>4. \A t \in Threads : ThreadSound(t)'
  BY <1>1, <1>2, <1>3, ThreadStays
<1>5. ReleaseIsFinal'
  BY <1>1, <1>2 DEF ReleaseIsFinal, CacheSpared
<1> QED BY <1>4, <1>5

\* Every step keeps the invariant.
LEMMA SeatStep ==
    ASSUME OneCaller, SeatInv, [Next]_vars
    PROVE  SeatInv'
<1> USE DEF SeatInv
<1>0. OwnInv' /\ RenewalWritesOnlyItsOwn'
  BY OwnStep, OwnWritesStep DEF OneCaller, OwnInv, LeaseInv
<1>1. CASE Next
  BY <1>0, <1>1, EnvironmentSeat, CallSeat, RenewerSeat DEF Next
<1>2. CASE UNCHANGED vars
  BY <1>0, <1>2 DEF vars, SeatFacts, ReleaseIsFinal, ThreadSound, Matches, Unforgotten
<1> QED BY <1>0, <1>1, <1>2

-----------------------------------------------------------------------------
(***************************************************************************)
(* The theorems.                                                           *)
(***************************************************************************)

\* Once latte_deactivate has released an activation and emptied the cache, no
\* renewal, activation or crash brings it back, however late its answer and
\* whatever fails (latte.c:223-228, 251-256, 580-591).
THEOREM ReleaseHolds ==
    ASSUME OneCaller
    PROVE  Spec => []ReleaseIsFinal
<1>1. SeatInv /\ [Next]_vars => SeatInv'
  BY SeatStep
<1>2. SeatInv => ReleaseIsFinal
  BY DEF SeatInv, SeatFacts
<1> QED BY <1>1, <1>2, SeatInit, PTL DEF Spec

\* A step that empties the cache is that of a renewal that was refused, or that
\* of latte_deactivate, about the activation in the cache.
LEMMA EmptyingStep ==
    ASSUME OneCaller, SeatInv, [Next]_vars, cache # NoToken, cache' = NoToken
    PROVE  \/ server.died[cache.activation_id] # NotYet
           \/ \E h \in Handles :
                renewer[h].pc = "wipe" /\ renewer[h].aid = cache.activation_id
<1> USE DEF SeatInv, SeatFacts, OwnInv, OwnFacts, LeaseInv, Shape
<1>1. ~Environment /\ ~UNCHANGED vars
  BY DEF Environment, Tick, ServeLate, Revoke, Serve, TimeOut, Crash, vars
<1>2. ASSUME NEW t \in Threads, Begin(t) \/ Continue(t)
      PROVE  server.died[cache.activation_id] # NotYet
  <2>1. CASE ActivateSave(t)
    <3>1. app[t].lic # NoToken
      BY <2>1, RealToken DEF ActivateSave, Locals
    <3> QED BY <2>1, <3>1 DEF ActivateSave, SaveToken
  <2>2. CASE DeactivateClear(t)
    <3>1. app[t].pc = "clear" /\ app[t].pc \in LoadedPcs
      BY <2>2 DEF DeactivateClear, LoadedPcs
    <3> QED BY <3>1 DEF ThreadSound, ReleaserSound, Matches
  <2>3. CASE ~(ActivateSave(t) \/ DeactivateClear(t))
    BY <1>2, <2>3 DEF Begin, Continue, Check, Activate, Deactivate, Free, CheckStep,
       RenewStart, ActivateStep, DeactivateStep, FreeJoin, CheckVerify, CheckFresh,
       DomainToPublic, TryRenew, JoinRenewer, SpawnRenewer, SpawnFails, ActivateVerify,
       ActivateMatch, ActivateRequest, ActivateReply, DeactivateReply
  <2> QED BY <2>1, <2>2, <2>3
<1>3. ASSUME NEW h \in Handles, RenewerStep(h)
      PROVE  renewer[h].pc = "wipe" /\ renewer[h].aid = cache.activation_id
  <2>1. CASE RenewWipe(h)
    <3>1. renewer[h].pc = "wipe" /\ HoldsActivation(renewer[h].aid)
      BY <2>1 DEF RenewWipe, RenewalWritesOnlyItsOwn
    <3> QED BY <3>1 DEF HoldsActivation
  <2>2. CASE RenewStore(h)
    <3>1. renewer[h].token # NoToken
      BY <2>2, RealToken DEF RenewStore, RenewerSound, Locals
    <3> QED BY <2>2, <3>1 DEF RenewStore, SaveToken
  <2>3. CASE ~(RenewWipe(h) \/ RenewStore(h))
    BY <1>3, <2>3 DEF RenewerStep, RenewReply, RenewLock, RenewDone
  <2> QED BY <2>1, <2>2, <2>3
<1> QED BY <1>1, <1>2, <1>3 DEF Next

EmptiesOnlyEnded ==
    cache # NoToken /\ cache' = NoToken =>
        server.died[cache.activation_id] # NotYet \/ LicenceEnded(clock)

\* The cache is emptied only once the activation in it has been released or
\* revoked or the licence has ended: no seat is lost from sight that the
\* machine still holds (latte.c:220-228, 580-591).  The server's 200 answers
\* carry their token: INVALID_LICENSE empties the cache too.
THEOREM SeatsAreKept ==
    ASSUME OneCaller, "malformed" \notin Faults
    PROVE  Spec => LiveSeatNeverForgotten
<1>1. SeatInv /\ [Next]_vars => SeatInv'
  BY SeatStep
<1>2. ExcuseInv /\ [Next]_vars => ExcuseInv'
  BY ExcuseStep
<1>3. SeatInv /\ ExcuseInv /\ [Next]_vars => [EmptiesOnlyEnded]_vars
  <2> SUFFICES ASSUME SeatInv, ExcuseInv, [Next]_vars, cache # NoToken, cache' = NoToken
               PROVE  server.died[cache.activation_id] # NotYet \/ LicenceEnded(clock)
    BY DEF EmptiesOnlyEnded
  <2>1. ASSUME NEW h \in Handles, renewer[h].pc = "wipe",
               renewer[h].aid = cache.activation_id
        PROVE  server.died[cache.activation_id] # NotYet \/ LicenceEnded(clock)
    <3>1. Blames(h, cache.activation_id) /\ cache.activation_id \in Aids
      BY <2>1, BlamesOne DEF Blames, SeatInv, OwnInv, LeaseInv
    <3>2. Excused(cache.activation_id)
      BY <3>1 DEF ExcuseInv
    <3> QED BY <3>2 DEF Excused, ExcusedAt
  <2> QED BY <2>1, EmptyingStep
<1> QED BY <1>1, <1>2, <1>3, SeatInit, ExcuseInit, PTL
        DEF Spec, LiveSeatNeverForgotten, EmptiesOnlyEnded

\* What t's step says of the licence it hands out.
GraceIsOwn(t) ==
    app[t].pc = "public" /\ result'[t].in_grace_period =>
        app[t].lic.activation_id \in history.unreached[HandleOf[t]]

LEMMA HandOutStep ==
    ASSUME OneCaller, "save" \notin Faults, SeatInv, FlagInv, [Next]_vars, NEW t \in Threads
    PROVE  GraceIsOwn(t)
<1> USE DEF SeatInv, SeatFacts, OwnInv, LeaseInv, Shape
<1> SUFFICES ASSUME app[t].pc = "public", result'[t].in_grace_period
             PROVE  app[t].lic.activation_id \in history.unreached[HandleOf[t]]
  BY DEF GraceIsOwn
<1>1. result[t].in_grace_period = FALSE
  BY DEF ThreadSound
<1>2. CASE DomainToPublic(t)
  <2> DEFINE h == HandleOf[t]
  <2>1. h \in Handles /\ MutexFree(h)
    BY <1>2, Constants DEF DomainToPublic
  <2>2. result'[t].in_grace_period = InGracePeriodAt(app[t].lic, clock, sdk[h].renew_failed)
    BY <1>2 DEF DomainToPublic, TypeOK
  <2>3. sdk[h].renew_failed
    BY <2>2 DEF InGracePeriodAt
  <2>4. cache # NoToken /\ cache.activation_id \in history.unreached[h]
    BY <2>1, <2>3 DEF FlagInv, RenewFailedIsCurrent
  <2>5. Matches(app[t].lic)
    BY DEF ThreadSound, LoadedPcs
  <2> QED BY <2>4, <2>5 DEF Matches
<1>3. ASSUME result'[t] \in {result[t], NoResult} PROVE FALSE
  BY <1>1, <1>3 DEF NoResult
<1>4. CASE Environment \/ UNCHANGED vars
  <2>1. result'[t] \in {result[t], NoResult}
    BY <1>4 DEF Environment, Tick, ServeLate, Revoke, Serve, TimeOut, Crash, vars, local
  <2> QED BY <1>3, <2>1
<1>5. ASSUME NEW h \in Handles, RenewerStep(h) PROVE FALSE
  BY <1>3, <1>5 DEF RenewerStep, RenewReply, RenewLock, RenewWipe, RenewStore, RenewDone
<1>6. ASSUME NEW u \in Threads, Begin(u) \/ Continue(u) PROVE DomainToPublic(t)
  <2>1. u = t
    BY DEF OneCaller
  <2> QED BY <1>6, <2>1 DEF Begin, Continue, Check, Activate, Deactivate, Free, CanCall,
       CheckStep, RenewStart, ActivateStep, DeactivateStep, FreeJoin, CheckVerify,
       CheckFresh, TryRenew, JoinRenewer, SpawnRenewer, SpawnFails, ActivateVerify,
       ActivateMatch, ActivateRequest, ActivateReply, ActivateSave, DeactivateReply,
       DeactivateClear
<1> QED BY <1>2, <1>4, <1>5, <1>6 DEF Next

\* A licence is handed out as in its grace period only when it was its own
\* renewal that could not reach the server: neither a flag from before nor one
\* raised for another licence under the call (latte.c:475, 515, 566; README.md:
\* 709-711), where saves succeed.
THEOREM GraceIsItsOwn ==
    ASSUME OneCaller, "save" \notin Faults
    PROVE  Spec => InGraceIsOfThisLicence
<1>1. SeatInv /\ [Next]_vars => SeatInv'
  BY SeatStep
<1>2. RenewalInv /\ FlagInv /\ [Next]_vars => FlagInv'
  BY FlagStep DEF OneCaller
<1>3. Init => FlagInv
  BY DEF Init, FlagInv, RenewFailedIsCurrent, NoRenewer, NewHandle
<1>4. SeatInv /\ FlagInv /\ [Next]_vars => [\A t \in Threads : GraceIsOwn(t)]_vars
  BY HandOutStep
<1> QED BY <1>1, <1>2, <1>3, <1>4, SeatInit, RenewalInit, RenewalStep, PTL
        DEF Spec, InGraceIsOfThisLicence, GraceIsOwn
=============================================================================
