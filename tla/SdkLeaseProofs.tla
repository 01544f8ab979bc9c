--------------------------- MODULE SdkLeaseProofs ---------------------------
(***************************************************************************)
(* Proof that a token outlives its activation by its grace period at most, *)
(* for any handles, threads and keys and whatever fails: every token that  *)
(* anybody holds was issued before its activation ended.                   *)
(***************************************************************************)
EXTENDS SdkProofs

\* An activation gets an end at most once: only a live one is released, an id
\* that was not handed out has no end, and no two keys share an activation.
ServerSound(s) ==
    /\ \A k \in Keys : s.active[k] # NoAid =>
        /\ s.died[s.active[k]] = NotYet
        /\ s.active[k] < s.next_aid
    /\ \A j, k \in Keys : s.active[j] # NoAid /\ s.active[j] = s.active[k] => j = k
    /\ \A a \in Aids : a >= s.next_aid => s.died[a] = NotYet

\* A token was issued in the past, and not after its activation ended.
IssuedInTime(tok, s, now) ==
    tok # NoToken =>
        /\ tok.issued_at <= now
        /\ s.died[tok.activation_id] = NotYet \/ tok.issued_at <= s.died[tok.activation_id]

\* The tokens somebody holds: the file, the calls under way, the answers that
\* have arrived, and the renewal threads.
Held ==
    {cache} \cup {app[t].lic : t \in Threads} \cup {renewer[h].token : h \in Handles}
    \cup {call[p].reply.token : p \in {q \in Callers : call[q] # NoCall}}

TokensInTime == \A tok \in Held : IssuedInTime(tok, server, clock)

LeaseInv == Shape /\ ServerSound(server) /\ TokensInTime

\* What somebody holds is a token, or none.
LEMMA HeldType == Shape => Held \subseteq MaybeToken
BY DEF Shape, TypeOK, Held, AppState, RenewerState, Pending, Reply, NoReply, MaybeToken

\* The end of an activation that the server's step left alone or set to now
\* keeps every token in time.
EndsNowOrBefore(s, s2, now) ==
    \A a \in Aids : s2.died[a] = s.died[a] \/ s2.died[a] = now

LEMMA StillInTime ==
    ASSUME NEW s, NEW s2, NEW now \in Nat, NEW tok \in MaybeToken,
           IssuedInTime(tok, s, now), EndsNowOrBefore(s, s2, now)
    PROVE  IssuedInTime(tok, s2, now)
BY DEF IssuedInTime, EndsNowOrBefore, MaybeToken, Token

\* Releasing the live activation of a key keeps the server sound.
LEMMA ReleaseSound ==
    ASSUME NEW s \in ServerState, ServerSound(s), NEW k \in Keys, NEW now \in Nat,
           s.active[k] # NoAid
    PROVE  ServerSound(Release(s, k, now)) /\ EndsNowOrBefore(s, Release(s, k, now), now)
<1> DEFINE r == Release(s, k, now)
<1>1. /\ r.active = [s.active EXCEPT ![k] = NoAid]
      /\ r.died = [s.died EXCEPT ![s.active[k]] = now]
      /\ r.next_aid = s.next_aid
      /\ s.active[k] \in Aids
  BY DEF Release, ServerState
<1> HIDE DEF r
<1>2. EndsNowOrBefore(s, r, now)
  BY <1>1 DEF EndsNowOrBefore, ServerState
<1>3. ServerSound(r)
  <2>1. \A j \in Keys : r.active[j] # NoAid =>
          /\ j # k /\ r.active[j] = s.active[j] /\ r.active[j] # s.active[k]
    BY <1>1 DEF ServerSound, ServerState
  <2>2. \A j \in Keys : r.active[j] # NoAid =>
          r.died[r.active[j]] = NotYet /\ r.active[j] < r.next_aid
    BY <1>1, <2>1 DEF ServerSound, ServerState
  <2>3. \A i, j \in Keys : r.active[i] # NoAid /\ r.active[i] = r.active[j] => i = j
    BY <2>1 DEF ServerSound
  <2>4. s.active[k] < s.next_aid
    BY DEF ServerSound
  <2>5. \A a \in Aids : a >= r.next_aid => r.died[a] = NotYet
    BY <1>1, <2>4, Constants DEF ServerSound, ServerState, Aids
  <2> QED BY <2>2, <2>3, <2>5 DEF ServerSound
<1> QED BY <1>2, <1>3 DEF r

\* A token issued now for an activation that has not ended is in time.
LEMMA IssuedNow ==
    ASSUME NEW s, NEW a \in Aids, NEW k \in Keys, NEW now \in Nat,
           s.died[a] = NotYet, NEW tok \in Issued(a, k, now)
    PROVE  IssuedInTime(tok, s, now)
<1>1. tok.issued_at = now /\ tok.activation_id = a
  BY DEF Issued
<1> QED BY <1>1 DEF IssuedInTime

\* Whatever the server answers, it stays sound and its token is in time.
LEMMA OutcomesSound ==
    ASSUME NEW s \in ServerState, ServerSound(s), NEW now \in Nat, NEW c,
           c.kind \in CallKinds, c.aid \in Aids \cup {NoAid}, c.key \in Keys, Addressed(c),
           NEW o \in Outcomes(s, c, now)
    PROVE  /\ ServerSound(o.server)
           /\ EndsNowOrBefore(s, o.server, now)
           /\ IssuedInTime(o.reply.token, o.server, now)
<1> DEFINE k == c.key
           a == c.aid
           Fine(x) == /\ ServerSound(x.server)
                      /\ EndsNowOrBefore(s, x.server, now)
                      /\ IssuedInTime(x.reply.token, x.server, now)
<1>1. ASSUME NEW x, NEW e, x = [server |-> s, reply |-> Refused(e)] PROVE Fine(x)
  BY <1>1 DEF Refused, IssuedInTime, EndsNowOrBefore
<1>2. ASSUME NEW x \in Hiccups(s) PROVE Fine(x)
  <2>1. PICK e : x = [server |-> s, reply |-> Refused(e)]
    BY DEF Hiccups
  <2> QED BY <1>1, <2>1
<1>3. ASSUME NEW b \in Aids, s.died[b] = NotYet, NEW t \in Issued(b, k, now),
             NEW x, x = [server |-> s, reply |-> Granted(t)]
      PROVE  Fine(x)
  <2>1. IssuedInTime(t, s, now)
    BY <1>3, IssuedNow
  <2> QED BY <1>3, <2>1 DEF Granted, EndsNowOrBefore
<1>4. CASE c.kind = "activate"
  <2>1. o \in ActivateOutcomes(s, k, now)
    BY <1>4 DEF Outcomes
  <2>2. CASE o \in Hiccups(s)
    BY <1>2, <2>2
  <2>3. CASE LicenceEnded(now) /\ o \notin Hiccups(s)
    BY <1>1, <2>1, <2>3 DEF ActivateOutcomes
  <2>4. CASE ~LicenceEnded(now) /\ s.active[k] # NoAid /\ o \notin Hiccups(s)
    <3>1. PICK t \in Issued(s.active[k], k, now) : o = [server |-> s, reply |-> Granted(t)]
      BY <2>1, <2>4 DEF ActivateOutcomes
    <3>2. s.active[k] \in Aids /\ s.died[s.active[k]] = NotYet
      BY <2>4 DEF ServerState, ServerSound
    <3> QED BY <1>3, <3>1, <3>2
  <2>5. CASE ~LicenceEnded(now) /\ s.active[k] = NoAid /\ s.next_aid \in Aids /\ o \notin Hiccups(s)
    <3> DEFINE s2 == [s EXCEPT !.active[k] = s.next_aid, !.next_aid = @ + 1]
    <3>1. PICK t \in Issued(s.next_aid, k, now) : o = [server |-> s2, reply |-> Granted(t)]
      BY <2>1, <2>5 DEF ActivateOutcomes
    <3>2. /\ s2.active = [s.active EXCEPT ![k] = s.next_aid]
          /\ s2.next_aid = s.next_aid + 1
          /\ s2.died = s.died
      BY DEF ServerState
    <3> HIDE DEF s2
    <3>3. s.died[s.next_aid] = NotYet
      BY <2>5 DEF ServerSound, Aids
    <3>4. ServerSound(s2)
      BY <2>5, <3>2, <3>3, Constants DEF ServerSound, ServerState, Aids, NoAid
    <3>5. IssuedInTime(t, s2, now)
      BY <2>5, <3>1, <3>2, <3>3, IssuedNow
    <3> QED BY <3>1, <3>2, <3>4, <3>5 DEF Granted, EndsNowOrBefore
  <2>6. CASE ~LicenceEnded(now) /\ s.active[k] = NoAid /\ s.next_aid \notin Aids /\ o \notin Hiccups(s)
    BY <1>1, <2>1, <2>6 DEF ActivateOutcomes
  <2> QED BY <2>2, <2>3, <2>4, <2>5, <2>6
<1>5. CASE c.kind = "renew"
  <2>1. o \in RenewOutcomes(s, a, k, now)
    BY <1>5 DEF Outcomes
  <2>2. CASE o \in Hiccups(s)
    BY <1>2, <2>2
  <2>3. CASE s.active[k] = a /\ ~LicenceEnded(now) /\ o \notin Hiccups(s)
    <3>1. PICK t \in Issued(a, k, now) : o = [server |-> s, reply |-> Granted(t)]
      BY <2>1, <2>3 DEF RenewOutcomes
    <3>2. a \in Aids /\ s.died[a] = NotYet
      BY <1>5, <2>3 DEF ServerSound, Addressed
    <3> QED BY <1>3, <3>1, <3>2
  <2>4. CASE ~(s.active[k] = a /\ ~LicenceEnded(now)) /\ o \notin Hiccups(s)
    BY <1>1, <2>1, <2>4 DEF RenewOutcomes
  <2> QED BY <2>2, <2>3, <2>4
<1>6. CASE c.kind = "deactivate"
  <2>1. o \in DeactivateOutcomes(s, a, k, now)
    BY <1>6 DEF Outcomes
  <2>2. CASE o \in Hiccups(s)
    BY <1>2, <2>2
  <2>3. CASE \E e : o = [server |-> s, reply |-> Refused(e)]
    BY <1>1, <2>3
  <2>4. CASE s.active[k] = a /\ o = [server |-> Release(s, k, now), reply |-> Refused("OK")]
    <3>1. s.active[k] # NoAid
      BY <1>6, <2>4 DEF Addressed
    <3> QED BY <2>4, <3>1, ReleaseSound DEF Refused, IssuedInTime
  <2> QED BY <2>1, <2>2, <2>3, <2>4 DEF DeactivateOutcomes
<1> QED BY <1>4, <1>5, <1>6 DEF CallKinds

-----------------------------------------------------------------------------
\* At the start nobody holds a token and no activation exists.
LEMMA LeaseInit == Init => LeaseInv
<1> SUFFICES ASSUME Init PROVE LeaseInv
  OBVIOUS
<1>1. ServerSound(server)
  BY DEF Init, ServerInit, ServerSound
<1>2. Held \subseteq {NoToken}
  BY DEF Init, Held, IdleThread, NoRenewer
<1>3. TokensInTime
  BY <1>2 DEF TokensInTime, IssuedInTime
<1> QED BY <1>1, <1>3, InitShape DEF LeaseInv

\* A step that moves tokens about, and leaves the clock and the server alone.
Moving == UNCHANGED <<clock, server>> /\ Held' \subseteq Held \cup {NoToken}

LEMMA Moves ==
    ASSUME UNCHANGED <<clock, server>>,
           cache' \in Held \cup {NoToken},
           \A t \in Threads : app'[t].lic \in Held \cup {NoToken},
           \A h \in Handles : renewer'[h].token \in Held \cup {NoToken},
           \A p \in Callers :
                call'[p] # NoCall => call'[p].reply.token \in Held \cup {NoToken}
    PROVE  Moving
BY DEF Held, Moving

\* It keeps the tokens in time.
LEMMA MovingKeeps ==
    ASSUME LeaseInv, Shape', Moving
    PROVE  LeaseInv'
<1>1. TokensInTime'
  BY DEF Moving, LeaseInv, TokensInTime, IssuedInTime
<1> QED BY <1>1 DEF Moving, LeaseInv

\* What is held, by whom.
LEMMA Holders ==
    /\ cache \in Held
    /\ \A t \in Threads : app[t].lic \in Held
    /\ \A h \in Handles : renewer[h].token \in Held
    /\ \A p \in Callers : call[p] # NoCall => call[p].reply.token \in Held
BY DEF Held

\* Time and the server keep every token in time.
LEMMA EnvironmentLease == LeaseInv /\ Shape' /\ Environment => LeaseInv'
<1> SUFFICES ASSUME LeaseInv, Shape', Environment PROVE LeaseInv'
  OBVIOUS
<1> USE DEF local
<1>0. server \in ServerState /\ ServerSound(server) /\ clock \in Nat
      /\ Held \subseteq MaybeToken /\ TokensInTime
  BY HeldType DEF LeaseInv, Shape, TypeOK
<1>1. CASE Tick
  <2>1. clock' = clock + 1 /\ UNCHANGED <<server, cache, call, app, renewer>>
    BY <1>1 DEF Tick
  <2>2. Held' = Held
    BY <2>1 DEF Held
  <2>3. TokensInTime'
    BY <1>0, <2>1, <2>2 DEF TokensInTime, IssuedInTime, MaybeToken, Token
  <2> QED BY <1>0, <2>1, <2>3 DEF LeaseInv
<1>2. ASSUME UNCHANGED <<clock, cache, call, app, renewer>>, ServerSound(server'),
             EndsNowOrBefore(server, server', clock)
      PROVE  LeaseInv'
  <2>1. Held' = Held
    BY <1>2 DEF Held
  <2>2. TokensInTime'
    BY <1>0, <1>2, <2>1, StillInTime DEF TokensInTime
  <2> QED BY <1>2, <2>2 DEF LeaseInv
<1>3. CASE ServeLate
  <2>1. PICK c \in late : \E o \in Outcomes(server, c, clock) : server' = o.server
    BY <1>3 DEF ServeLate
  <2>2. c \in Call
    BY DEF LeaseInv, Shape, TypeOK
  <2>3. ServerSound(server') /\ EndsNowOrBefore(server, server', clock)
    BY <1>0, <2>1, <2>2, OutcomesSound DEF Call
  <2> QED BY <1>2, <1>3, <2>3 DEF ServeLate
<1>4. ASSUME NEW k \in Keys, Revoke(k) PROVE LeaseInv'
  <2>1. server' = Release(server, k, clock) /\ server.active[k] # NoAid
        /\ UNCHANGED <<clock, cache, call, app, renewer>>
    BY <1>4 DEF Revoke
  <2> QED BY <1>0, <1>2, <2>1, ReleaseSound
<1>5. ASSUME NEW p \in Callers, Serve(p) PROVE LeaseInv'
  <2>1. PICK o \in Outcomes(server, call[p], clock) :
          server' = o.server /\ call' = [call EXCEPT ![p].reply = o.reply]
    BY <1>5 DEF Serve
  <2>2. call[p] \in Pending /\ UNCHANGED <<clock, cache, app, renewer>>
    BY <1>5 DEF Serve, LeaseInv, Shape, TypeOK
  <2>3. /\ ServerSound(server') /\ EndsNowOrBefore(server, server', clock)
        /\ IssuedInTime(o.reply.token, server', clock)
    BY <1>0, <2>1, <2>2, OutcomesSound DEF Pending
  <2>4. \A q \in Callers : call'[q] # NoCall =>
          \/ call'[q].reply.token = o.reply.token
          \/ call[q] # NoCall /\ call'[q] = call[q]
    BY <2>1, <2>2 DEF Pending, LeaseInv, Shape, TypeOK
  <2>5. Held' \subseteq Held \cup {o.reply.token}
    BY <2>2, <2>4 DEF Held
  <2>6. TokensInTime'
    BY <1>0, <2>2, <2>3, <2>5, StillInTime DEF TokensInTime
  <2> QED BY <2>3, <2>6 DEF LeaseInv
<1>6. ASSUME NEW p \in Callers, TimeOut(p) PROVE LeaseInv'
  <2>1. /\ call' = [call EXCEPT ![p].reply = Refused("NETWORK")]
        /\ call[p] \in Pending
        /\ UNCHANGED <<clock, server, cache, app, renewer>>
    BY <1>6 DEF TimeOut, LeaseInv, Shape, TypeOK
  <2>2. \A q \in Callers : call'[q] # NoCall =>
          \/ call'[q].reply.token = NoToken
          \/ call[q] # NoCall /\ call'[q] = call[q]
    BY <2>1 DEF Pending, Refused, LeaseInv, Shape, TypeOK
  <2>3. Moving
    BY <2>1, <2>2, Holders, Moves
  <2> QED BY <2>3, MovingKeeps
<1>7. ASSUME NEW h \in Handles, Crash(h) PROVE LeaseInv'
  <2>1. UNCHANGED <<clock, server, cache>>
    BY <1>7 DEF Crash
  <2>2. \A t \in Threads : app'[t] = IdleThread \/ app'[t] = app[t]
    BY <1>7 DEF Crash
  <2>3. \A g \in Handles : renewer'[g] = NoRenewer \/ renewer'[g] = renewer[g]
    BY <1>7 DEF Crash, Reset, LeaseInv, Shape, TypeOK
  <2>4. \A p \in Callers : call'[p] = NoCall \/ call'[p] = call[p]
    BY <1>7 DEF Crash
  <2>5. Moving
    BY <2>1, <2>2, <2>3, <2>4, Holders, Moves DEF IdleThread, NoRenewer
  <2> QED BY <2>5, MovingKeeps
<1> QED BY <1>1, <1>3, <1>4, <1>5, <1>6, <1>7 DEF Environment

\* An API call moves tokens from the file and from answers to its locals, and
\* from its locals to the file.
LEMMA CallMoves ==
    ASSUME Shape, NEW t \in Threads, Begin(t) \/ Continue(t)
    PROVE  Moving
<1> USE Holders
<1> DEFINE h == HandleOf[t]
<1>0. TypeOK /\ Locals /\ h \in Handles /\ t \in Callers
  BY Constants DEF Shape, Callers
<1>1. UNCHANGED <<clock, server>>
  BY DEF Begin, Continue, Check, Activate, Deactivate, Free, CheckStep, RenewStart,
     ActivateStep, DeactivateStep, FreeJoin, CheckVerify, CheckFresh, DomainToPublic,
     TryRenew, JoinRenewer, SpawnRenewer, SpawnFails, ActivateVerify, ActivateMatch,
     ActivateRequest, ActivateReply, ActivateSave, DeactivateReply, DeactivateClear
<1>2. ASSUME NEW lic \in Held \cup {NoToken}, app'[t].lic = lic,
             \A u \in Threads : u # t => app'[u] = app[u],
             cache' \in {cache, NoToken, app[t].lic},
             \A g \in Handles : renewer'[g].token \in {NoToken, renewer[g].token},
             \A p \in Callers : \/ call'[p] \in {NoCall, call[p]}
                                \/ call'[p].reply = NoReply
      PROVE  Moving
  <2>1. \A u \in Threads : app'[u].lic \in Held \cup {NoToken}
    BY <1>2
  <2>2. cache' \in Held \cup {NoToken}
    BY <1>2
  <2>3. \A p \in Callers : call'[p] # NoCall => call'[p].reply.token \in Held \cup {NoToken}
    BY <1>2 DEF NoReply
  <2>4. \A g \in Handles : renewer'[g].token \in Held \cup {NoToken}
    BY <1>2
  <2> QED BY <1>1, <2>1, <2>2, <2>3, <2>4, Moves
<1>3. ASSUME NEW pc, Goto(t, pc)
      PROVE  app'[t].lic = app[t].lic /\ \A u \in Threads : u # t => app'[u] = app[u]
  BY <1>0, <1>3 DEF Goto, TypeOK, AppState
<1>4. ASSUME NEW start, app' = [app EXCEPT ![t] = start]
      PROVE  app'[t] = start /\ \A u \in Threads : u # t => app'[u] = app[u]
  BY <1>0, <1>4 DEF TypeOK
<1>5. ASSUME UNCHANGED <<cache, call, renewer>>,
             NEW lic \in Held \cup {NoToken}, app'[t].lic = lic,
             \A u \in Threads : u # t => app'[u] = app[u]
      PROVE  Moving
  BY <1>2, <1>5
<1>6. ASSUME NEW start, start.lic \in Held \cup {NoToken}, app' = [app EXCEPT ![t] = start],
             UNCHANGED <<cache, call, renewer>>
      PROVE  Moving
  BY <1>4, <1>5, <1>6
<1>7. ASSUME NEW status, Return(t, status), UNCHANGED <<cache, call, renewer>>
      PROVE  Moving
  BY <1>6, <1>7 DEF Return, IdleThread
<1>8. ASSUME NEW pc, Goto(t, pc), UNCHANGED <<cache, call, renewer>>
      PROVE  Moving
  BY <1>3, <1>5, <1>8
<1>9. ASSUME HangUp(t) PROVE \A p \in Callers : call'[p] \in {NoCall, call[p]}
  BY <1>0, <1>9 DEF HangUp, TypeOK
<1>10. ASSUME NEW p \in Callers, NEW kind, NEW aid, NEW key, Send(p, kind, aid, key)
       PROVE  \A q \in Callers : call'[q] = call[q] \/ call'[q].reply = NoReply
  BY <1>0, <1>10 DEF Send, Request, TypeOK
<1>11. ASSUME NEW r, r.token = NoToken, renewer' = [renewer EXCEPT ![h] = r]
       PROVE  \A g \in Handles : renewer'[g].token \in {NoToken, renewer[g].token}
  BY <1>0, <1>11 DEF TypeOK
<1>12. CASE Check(t)
  <2>1. CASE cache = NoToken
    BY <1>7, <1>12, <2>1 DEF Check
  <2>2. CASE cache # NoToken
    <3> DEFINE start == [IdleThread EXCEPT !.pc = "verify", !.op = "check", !.lic = cache]
    <3>1. app' = [app EXCEPT ![t] = start] /\ UNCHANGED <<cache, call, renewer>>
      BY <1>12, <2>2 DEF Check
    <3>2. start.lic = cache
      BY DEF IdleThread
    <3> HIDE DEF start
    <3> QED BY <1>6, <3>1, <3>2
  <2> QED BY <2>1, <2>2
<1>13. ASSUME NEW k \in Keys, Activate(t, k) PROVE Moving
  <2> DEFINE start == [IdleThread EXCEPT
                        !.pc = IF cache = NoToken THEN "request" ELSE "verify",
                        !.op = "activate", !.key = k, !.lic = cache]
  <2>1. app' = [app EXCEPT ![t] = start] /\ UNCHANGED <<cache, call, renewer>>
    BY <1>13 DEF Activate
  <2>2. start.lic = cache
    BY DEF IdleThread
  <2> HIDE DEF start
  <2> QED BY <1>6, <2>1, <2>2
<1>14. CASE Deactivate(t)
  <2>1. CASE cache = NoToken
    BY <1>7, <1>14, <2>1 DEF Deactivate
  <2>2. CASE cache # NoToken
    <3> DEFINE start == [IdleThread EXCEPT !.pc = "await", !.op = "deactivate", !.lic = cache]
    <3>1. /\ app' = [app EXCEPT ![t] = start] /\ UNCHANGED <<cache, renewer>>
          /\ Send(t, "deactivate", cache.activation_id, cache.key)
      BY <1>14, <2>2 DEF Deactivate
    <3>2. start.lic = cache
      BY DEF IdleThread
    <3> HIDE DEF start
    <3>3. app'[t].lic = cache /\ \A u \in Threads : u # t => app'[u] = app[u]
      BY <1>4, <3>1, <3>2
    <3>4. \A q \in Callers : call'[q] = call[q] \/ call'[q].reply = NoReply
      BY <1>0, <1>10, <3>1
    <3> QED BY <1>2, <3>1, <3>3, <3>4
  <2> QED BY <2>1, <2>2
<1>15. CASE Free(t)
  <2>1. app' = [app EXCEPT ![t] = [app[t] EXCEPT !.pc = "free", !.op = "free"]]
        /\ UNCHANGED <<cache, call, renewer>>
    BY <1>0, <1>15 DEF Free, TypeOK
  <2>2. [app[t] EXCEPT !.pc = "free", !.op = "free"].lic = app[t].lic
    BY <1>0 DEF TypeOK, AppState
  <2> QED BY <1>6, <2>1, <2>2
<1>16. CASE CheckVerify(t)
  <2>1. UNCHANGED <<cache, call, renewer>>
    BY <1>16 DEF CheckVerify
  <2>2. CASE Return(t, "NOT_ACTIVATED")
    BY <1>7, <2>1, <2>2
  <2>3. CASE ~Return(t, "NOT_ACTIVATED")
    <3>1. app' = [app EXCEPT ![t] = [app[t] EXCEPT
                    !.pc = "try", !.valid = Verdict(app[t].lic) = "OK"]]
      BY <1>0, <1>16, <2>3 DEF CheckVerify, TypeOK
    <3>2. [app[t] EXCEPT !.pc = "try", !.valid = Verdict(app[t].lic) = "OK"].lic = app[t].lic
      BY <1>0 DEF TypeOK, AppState
    <3> QED BY <1>6, <2>1, <3>1, <3>2
  <2> QED BY <2>2, <2>3
<1>17. CASE CheckFresh(t)
  BY <1>7, <1>8, <1>17 DEF CheckFresh
<1>18. CASE DomainToPublic(t)
  <2>1. app' = [app EXCEPT ![t] = IdleThread] /\ UNCHANGED <<cache, call, renewer>>
    BY <1>18 DEF DomainToPublic
  <2> QED BY <1>6, <2>1 DEF IdleThread
<1>19. CASE TryRenew(t)
  BY <1>8, <1>19 DEF TryRenew
<1>20. CASE JoinRenewer(t)
  <2>1. Goto(t, "spawn") /\ renewer' = [renewer EXCEPT ![h] = NoRenewer]
        /\ UNCHANGED <<cache, call>>
    BY <1>20 DEF JoinRenewer
  <2>2. \A g \in Handles : renewer'[g].token \in {NoToken, renewer[g].token}
    BY <1>11, <2>1 DEF NoRenewer
  <2> QED BY <1>2, <1>3, <2>1, <2>2
<1>21. CASE SpawnRenewer(t)
  <2> DEFINE r == [NoRenewer EXCEPT !.pc = "await", !.aid = app[t].lic.activation_id]
  <2>1. /\ Goto(t, "fresh") /\ renewer' = [renewer EXCEPT ![h] = r]
        /\ Send(h, "renew", app[t].lic.activation_id, app[t].lic.key)
        /\ UNCHANGED cache
    BY <1>21 DEF SpawnRenewer
  <2>2. r.token = NoToken
    BY DEF NoRenewer
  <2> HIDE DEF r
  <2>3. \A g \in Handles : renewer'[g].token \in {NoToken, renewer[g].token}
    BY <1>11, <2>1, <2>2
  <2>4. \A q \in Callers : call'[q] = call[q] \/ call'[q].reply = NoReply
    BY <1>0, <1>10, <2>1 DEF Callers
  <2> QED BY <1>2, <1>3, <2>1, <2>3, <2>4
<1>22. CASE SpawnFails(t)
  BY <1>8, <1>22 DEF SpawnFails
<1>23. CASE ActivateVerify(t)
  BY <1>8, <1>23 DEF ActivateVerify
<1>24. CASE ActivateMatch(t)
  BY <1>8, <1>24 DEF ActivateMatch
<1>25. CASE ActivateRequest(t)
  <2>1. Goto(t, "await") /\ Send(t, "activate", NoAid, app[t].key)
        /\ UNCHANGED <<cache, renewer>>
    BY <1>25 DEF ActivateRequest
  <2>2. \A q \in Callers : call'[q] = call[q] \/ call'[q].reply = NoReply
    BY <1>0, <1>10, <2>1
  <2> QED BY <1>2, <1>3, <2>1, <2>2
<1>26. CASE ActivateReply(t)
  <2>1. app[t].pc = "await" /\ HangUp(t) /\ UNCHANGED <<cache, renewer>>
    BY <1>26 DEF ActivateReply
  <2>2. call[t].reply.token \in Held
    BY <1>0, <2>1 DEF Locals
  <2>3. CASE \E status : Return(t, status)
    <3>1. app' = [app EXCEPT ![t] = IdleThread]
      BY <2>3 DEF Return
    <3>2. app'[t].lic = NoToken /\ \A u \in Threads : u # t => app'[u] = app[u]
      BY <1>4, <3>1 DEF IdleThread
    <3> QED BY <1>2, <1>9, <2>1, <3>2
  <2>4. CASE app' = [app EXCEPT ![t].pc = "save", ![t].lic = call[t].reply.token]
    <3>1. app' = [app EXCEPT ![t] = [app[t] EXCEPT !.pc = "save", !.lic = call[t].reply.token]]
      BY <1>0, <2>4 DEF TypeOK
    <3>2. [app[t] EXCEPT !.pc = "save", !.lic = call[t].reply.token].lic = call[t].reply.token
      BY <1>0 DEF TypeOK, AppState
    <3> QED BY <1>2, <1>4, <1>9, <2>1, <2>2, <3>1, <3>2
  <2> QED BY <1>26, <2>3, <2>4 DEF ActivateReply
<1>27. CASE ActivateSave(t)
  <2>1. Goto(t, "public") /\ cache' \in {cache, app[t].lic} /\ UNCHANGED <<call, renewer>>
    BY <1>27 DEF ActivateSave, SaveToken
  <2> QED BY <1>2, <1>3, <2>1
<1>28. CASE DeactivateReply(t)
  <2>1. HangUp(t) /\ UNCHANGED <<cache, renewer>>
    BY <1>28 DEF DeactivateReply
  <2>2. CASE Goto(t, "clear")
    BY <1>2, <1>3, <1>9, <2>1, <2>2
  <2>3. CASE \E status : Return(t, status)
    <3>1. app' = [app EXCEPT ![t] = IdleThread]
      BY <2>3 DEF Return
    <3>2. app'[t].lic = NoToken /\ \A u \in Threads : u # t => app'[u] = app[u]
      BY <1>4, <3>1 DEF IdleThread
    <3> QED BY <1>2, <1>9, <2>1, <3>2
  <2> QED BY <1>28, <2>2, <2>3 DEF DeactivateReply
<1>29. CASE DeactivateClear(t)
  <2>1. Return(t, "OK") /\ cache' \in {cache, NoToken} /\ UNCHANGED <<call, renewer>>
    BY <1>29 DEF DeactivateClear, SaveToken
  <2>2. app'[t].lic = NoToken /\ \A u \in Threads : u # t => app'[u] = app[u]
    BY <1>4, <2>1 DEF Return, IdleThread
  <2> QED BY <1>2, <2>1, <2>2
<1>30. CASE FreeJoin(t)
  <2>1. /\ app' = [app EXCEPT ![t] = IdleThread]
        /\ renewer' = [renewer EXCEPT ![h] = NoRenewer]
        /\ UNCHANGED <<cache, call>>
    BY <1>30 DEF FreeJoin, Reset
  <2>2. \A g \in Handles : renewer'[g].token \in {NoToken, renewer[g].token}
    BY <1>11, <2>1 DEF NoRenewer
  <2>3. app'[t].lic = NoToken /\ \A u \in Threads : u # t => app'[u] = app[u]
    BY <1>4, <2>1 DEF IdleThread
  <2> QED BY <1>2, <2>1, <2>2, <2>3
<1> QED
  BY <1>12, <1>13, <1>14, <1>15, <1>16, <1>17, <1>18, <1>19, <1>20, <1>21, <1>22, <1>23,
     <1>24, <1>25, <1>26, <1>27, <1>28, <1>29, <1>30
     DEF Begin, Continue, CheckStep, RenewStart, ActivateStep, DeactivateStep

\* A renewal moves its answer's token to its locals and from there to the file.
LEMMA RenewerMoves ==
    ASSUME Shape, NEW h \in Handles, RenewerStep(h)
    PROVE  Moving
<1> USE Holders
<1>0. TypeOK /\ Locals /\ h \in Callers /\ renewer[h] \in RenewerState
  BY DEF Shape, Callers, TypeOK
<1>1. UNCHANGED <<clock, server, app>>
  BY DEF RenewerStep, RenewReply, RenewLock, RenewWipe, RenewStore, RenewDone
<1>2. ASSUME NEW tok \in Held \cup {NoToken}, renewer'[h].token = tok,
             \A g \in Handles : g # h => renewer'[g] = renewer[g],
             cache' \in {cache, NoToken, renewer[h].token},
             \A p \in Callers : call'[p] \in {NoCall, call[p]}
      PROVE  Moving
  <2>1. \A g \in Handles : renewer'[g].token \in Held \cup {NoToken}
    BY <1>2
  <2>2. \A p \in Callers : call'[p] # NoCall => call'[p].reply.token \in Held \cup {NoToken}
    BY <1>2
  <2> QED BY <1>1, <1>2, <2>1, <2>2, Moves
<1>3. ASSUME NEW pc \in RenewerPcs, renewer' = [renewer EXCEPT ![h].pc = pc],
             cache' \in {cache, NoToken, renewer[h].token}, UNCHANGED call
      PROVE  Moving
  BY <1>0, <1>2, <1>3, GotoRenewer
<1>4. CASE RenewReply(h)
  <2>1. /\ renewer[h].pc = "await" /\ UNCHANGED cache
        /\ call' = [call EXCEPT ![h] = NoCall]
    BY <1>4 DEF RenewReply, HangUp
  <2>2. call[h].reply.token \in Held
    BY <1>0, <2>1 DEF Locals
  <2>3. \A p \in Callers : call'[p] \in {NoCall, call[p]}
    BY <1>0, <2>1 DEF TypeOK
  <2>4. \A g \in Handles : g # h => renewer'[g] = renewer[g]
    BY <1>0, <1>4 DEF RenewReply, TypeOK
  <2>5. renewer'[h].token = call[h].reply.token
    BY <1>0, <1>4 DEF RenewReply, TypeOK, RenewerState
  <2> QED BY <1>2, <2>1, <2>2, <2>3, <2>4, <2>5
<1>5. CASE RenewLock(h)
  <2>1. \E pc \in RenewerPcs : renewer' = [renewer EXCEPT ![h].pc = pc]
    BY <1>5 DEF RenewLock, AfterLock, RenewerPcs
  <2>2. UNCHANGED <<cache, call>>
    BY <1>5 DEF RenewLock
  <2> QED BY <1>3, <2>1, <2>2
<1>6. CASE RenewWipe(h)
  BY <1>3, <1>6 DEF RenewWipe, SaveToken, RenewerPcs
<1>7. CASE RenewStore(h)
  BY <1>3, <1>7 DEF RenewStore, SaveToken, RenewerPcs
<1>8. CASE RenewDone(h)
  <2>1. /\ renewer' = [renewer EXCEPT ![h] = [NoRenewer EXCEPT !.pc = "exited"]]
        /\ UNCHANGED <<cache, call>>
    BY <1>8 DEF RenewDone
  <2>2. renewer'[h].token = NoToken /\ \A g \in Handles : g # h => renewer'[g] = renewer[g]
    BY <1>0, <2>1 DEF TypeOK, NoRenewer
  <2> QED BY <1>2, <2>1, <2>2
<1> QED BY <1>4, <1>5, <1>6, <1>7, <1>8 DEF RenewerStep

\* Every step keeps the tokens in time.
LEMMA LeaseStep == LeaseInv /\ [Next]_vars => LeaseInv'
<1> SUFFICES ASSUME LeaseInv, [Next]_vars PROVE LeaseInv'
  OBVIOUS
<1>0. Shape'
  BY ShapeStep DEF LeaseInv
<1>1. CASE Environment
  BY <1>0, <1>1, EnvironmentLease
<1>2. ASSUME NEW t \in Threads, Begin(t) \/ Continue(t) PROVE LeaseInv'
  BY <1>0, <1>2, CallMoves, MovingKeeps DEF LeaseInv
<1>3. ASSUME NEW h \in Handles, RenewerStep(h) PROVE LeaseInv'
  BY <1>0, <1>3, RenewerMoves, MovingKeeps DEF LeaseInv
<1>4. CASE UNCHANGED vars
  BY <1>4 DEF LeaseInv, Shape, TypeOK, Locals, vars, ServerSound, TokensInTime, Held
<1> QED BY <1>1, <1>2, <1>3, <1>4 DEF Next

-----------------------------------------------------------------------------
\* The token that t's step accepts, if it accepts one, is in its grace period.
AcceptsInGrace(t) ==
    app[t].pc = "fresh" /\ app'[t].pc = "public" =>
        LET died == server.died[app[t].lic.activation_id] IN
        died = NotYet \/ clock - died <= GracePeriod

\* A token taken while it is valid was issued a grace period ago at most, and
\* its activation had not ended by then.
LEMMA ValidIsInGrace ==
    ASSUME LeaseInv, NEW t \in Threads, app[t].pc = "fresh", LicenseIsValid(app[t].lic, clock)
    PROVE  AcceptsInGrace(t)
<1> DEFINE lic == app[t].lic
           died == server.died[lic.activation_id]
<1>1. lic \in Token /\ clock \in Nat /\ server \in ServerState
  BY DEF LeaseInv, Shape, TypeOK, Locals
<1>2. IssuedInTime(lic, server, clock)
  BY Holders DEF LeaseInv, TokensInTime
<1>3. clock - lic.issued_at <= GracePeriod
  BY <1>1 DEF LicenseIsValid, Age, Token
<1>4. lic # NoToken /\ lic.issued_at \in Nat /\ died \in Nat \cup {NotYet}
  BY <1>1, RealToken DEF Token, ServerState
<1>5. died = NotYet \/ lic.issued_at <= died
  BY <1>2, <1>4 DEF IssuedInTime
<1>6. died = NotYet \/ clock - died <= GracePeriod
  BY <1>1, <1>3, <1>4, <1>5, Constants
<1> QED BY <1>6 DEF AcceptsInGrace

\* Whatever step is taken, a token that it accepts is in its grace period.
LEMMA AcceptStep == LeaseInv /\ Next => \A t \in Threads : AcceptsInGrace(t)
<1> SUFFICES ASSUME LeaseInv, Next, NEW t \in Threads, app[t].pc = "fresh", app'[t].pc = "public"
             PROVE  AcceptsInGrace(t)
  BY DEF AcceptsInGrace
<1>0. TypeOK /\ app[t] \in AppState
  BY DEF LeaseInv, Shape, TypeOK
<1>1. CASE LicenseIsValid(app[t].lic, clock)
  BY <1>1, ValidIsInGrace
<1>2. app'[t] # app[t] /\ app'[t] # IdleThread
  BY DEF IdleThread
<1>3. ~Environment
  BY <1>2 DEF Environment, Tick, ServeLate, Revoke, Serve, TimeOut, Crash, local
<1>4. ASSUME NEW h \in Handles PROVE ~RenewerStep(h)
  BY <1>2 DEF RenewerStep, RenewReply, RenewLock, RenewWipe, RenewStore, RenewDone
<1>5. PICK u \in Threads : Begin(u) \/ Continue(u)
  BY <1>3, <1>4 DEF Next
<1>6. u = t
  <2>1. \E start : app' = [app EXCEPT ![u] = start]
    BY <1>5 DEF Begin, Continue, Check, Activate, Deactivate, Free, CheckStep, RenewStart,
       ActivateStep, DeactivateStep, FreeJoin, CheckVerify, CheckFresh, DomainToPublic,
       TryRenew, JoinRenewer, SpawnRenewer, SpawnFails, ActivateVerify, ActivateMatch,
       ActivateRequest, ActivateReply, ActivateSave, DeactivateReply, DeactivateClear,
       Goto, Return
  <2> QED BY <1>0, <1>2, <2>1 DEF TypeOK
<1>7. ~Begin(t)
  BY <1>0 DEF Begin, Check, Activate, Deactivate, Free, CanCall
<1>8. CheckFresh(t) \/ ActivateMatch(t)
  BY <1>5, <1>6, <1>7 DEF Continue, CheckStep, RenewStart,
       ActivateStep, DeactivateStep, FreeJoin, CheckVerify, DomainToPublic,
       TryRenew, JoinRenewer, SpawnRenewer, SpawnFails, ActivateVerify,
       ActivateRequest, ActivateReply, ActivateSave, DeactivateReply, DeactivateClear
<1>9. CASE CheckFresh(t)
  BY <1>1, <1>2, <1>9, <1>0 DEF CheckFresh, Return, TypeOK
<1>10. CASE ActivateMatch(t) /\ ~LicenseIsValid(app[t].lic, clock)
  <2>1. Goto(t, "request")
    BY <1>10 DEF ActivateMatch
  <2>2. app'[t].pc = "request"
    BY <1>0, <2>1, GotoThread DEF AppPcs
  <2> QED BY <2>2
<1> QED BY <1>1, <1>8, <1>9, <1>10

\* What latte_check and the fast path of latte_activate accept belongs to an
\* activation that is live, or that ended no longer ago than the grace period
\* of its token: a released or revoked machine is out after that, whatever
\* calls, renewals, processes and failures came in between (latte.c:547-567,
\* 467-475).
THEOREM GraceBound == Spec => AcceptedWithinGrace
<1>1. LeaseInv /\ [Next]_vars => [\A t \in Threads : AcceptsInGrace(t)]_vars
  BY AcceptStep
<1> QED BY <1>1, LeaseInit, LeaseStep, PTL DEF Spec, AcceptedWithinGrace, AcceptsInGrace
=============================================================================
