----------------------------- MODULE SdkProofs -----------------------------
(***************************************************************************)
(* Proofs about Sdk for any handles, threads, licence keys, bounds and     *)
(* faults.                                                                 *)
(***************************************************************************)
EXTENDS Sdk, TLAPS

\* What the proofs need of the constants.
LEMMA Constants ==
    /\ MaxAid \in Nat \ {0}
    /\ LicenceEnd \in Nat
    /\ ChainLifetimes \subseteq Nat \ {0}
    /\ GracePeriod \in Nat \ {0}
    /\ HandleOf \in [Threads -> Handles]
    /\ Threads \cap Handles = {}
    /\ LATTE_MIN_RENEWAL_SECS \in Nat
BY MaxAidAssumption, LicenceEndAssumption, ChainAssumption, GracePeriodAssumption,
   HandleOfAssumption, CallersAssumption, MinRenewalAssumption

-----------------------------------------------------------------------------
(***************************************************************************)
(* The server.                                                             *)
(***************************************************************************)

\* A token is not what stands for the absence of one.
LEMMA RealToken == ASSUME NEW t \in Token PROVE t # NoToken
  BY Constants DEF Token, NoToken, NoAid, Aids

\* A token issued for an activation of this machine is a token.
LEMMA IssuedType ==
    ASSUME NEW a \in Aids, NEW k \in Keys, NEW now \in Nat
    PROVE  Issued(a, k, now) \subseteq Token
<1>1. {now + life : life \in ChainLifetimes} \subseteq Nat
  BY Constants
<1>2. Chains \subseteq BOOLEAN
  BY DEF Chains
<1> QED BY <1>1, <1>2 DEF Issued, Token

\* The server's answers keep the types, and one that grants carries a token.
LEMMA OutcomesType ==
    ASSUME NEW s \in ServerState, NEW now \in Nat, NEW c,
           c.kind \in CallKinds, c.aid \in Aids \cup {NoAid}, c.key \in Keys, Addressed(c),
           NEW o \in Outcomes(s, c, now)
    PROVE  /\ o.server \in ServerState
           /\ o.reply \in Reply
           /\ o.reply.error = "OK" /\ c.kind # "deactivate" => o.reply.token \in Token
<1> USE Constants
<1> DEFINE Granting(x) == /\ x.server \in ServerState
                          /\ x.reply \in Reply
                          /\ x.reply.error = "OK" => x.reply.token \in Token
           k == c.key
           a == c.aid
<1>1. ASSUME NEW e \in Errors PROVE Refused(e) \in Reply /\ Refused(e).error # "OK"
  BY DEF Refused, Reply, Errors
<1>2. ASSUME NEW t \in Token
      PROVE  Granted(t) \in Reply /\ Granted(t).token \in Token
  BY DEF Granted, Reply
<1>3. ASSUME NEW x \in Hiccups(s) PROVE Granting(x)
  BY <1>1 DEF Hiccups, Errors
<1>4. CASE c.kind = "activate"
  <2>1. o \in ActivateOutcomes(s, k, now)
    BY <1>4 DEF Outcomes
  <2>2. CASE o \in Hiccups(s)
    BY <1>3, <2>2
  <2>3. CASE LicenceEnded(now) /\ o \notin Hiccups(s)
    BY <1>1, <2>1, <2>3 DEF ActivateOutcomes, Errors
  <2>4. CASE ~LicenceEnded(now) /\ s.active[k] # NoAid /\ o \notin Hiccups(s)
    <3>1. PICK t \in Issued(s.active[k], k, now) : o = [server |-> s, reply |-> Granted(t)]
      BY <2>1, <2>4 DEF ActivateOutcomes
    <3>2. t \in Token
      BY <2>4, <3>1, IssuedType DEF ServerState
    <3> QED BY <1>2, <3>1, <3>2
  <2>5. CASE ~LicenceEnded(now) /\ s.active[k] = NoAid /\ s.next_aid \in Aids /\ o \notin Hiccups(s)
    <3>1. PICK t \in Issued(s.next_aid, k, now) :
            o = [server |-> [s EXCEPT !.active[k] = s.next_aid, !.next_aid = @ + 1],
                 reply |-> Granted(t)]
      BY <2>1, <2>5 DEF ActivateOutcomes
    <3>2. t \in Token
      BY <2>5, <3>1, IssuedType
    <3>3. o.server \in ServerState
      <4>1. s.next_aid + 1 \in 1 .. MaxAid + 1
        BY <2>5 DEF Aids
      <4> QED BY <2>5, <3>1, <4>1 DEF ServerState
    <3> QED BY <1>2, <3>1, <3>2, <3>3
  <2>6. CASE ~LicenceEnded(now) /\ s.active[k] = NoAid /\ s.next_aid \notin Aids /\ o \notin Hiccups(s)
    BY <1>1, <2>1, <2>6 DEF ActivateOutcomes, Errors
  <2> QED BY <2>2, <2>3, <2>4, <2>5, <2>6
<1>5. CASE c.kind = "renew"
  <2>1. o \in RenewOutcomes(s, a, k, now)
    BY <1>5 DEF Outcomes
  <2>2. CASE o \in Hiccups(s)
    BY <1>3, <2>2
  <2>3. CASE s.active[k] = a /\ ~LicenceEnded(now) /\ o \notin Hiccups(s)
    <3>1. PICK t \in Issued(a, k, now) : o = [server |-> s, reply |-> Granted(t)]
      BY <2>1, <2>3 DEF RenewOutcomes
    <3>2. t \in Token
      BY <1>5, <3>1, IssuedType DEF Addressed
    <3> QED BY <1>2, <3>1, <3>2
  <2>4. CASE ~(s.active[k] = a /\ ~LicenceEnded(now)) /\ o \notin Hiccups(s)
    BY <1>1, <2>1, <2>4 DEF RenewOutcomes, Errors
  <2> QED BY <2>2, <2>3, <2>4
<1>6. CASE c.kind = "deactivate"
  <2>1. o \in DeactivateOutcomes(s, a, k, now)
    BY <1>6 DEF Outcomes
  <2>2. CASE o \in Hiccups(s)
    BY <1>3, <2>2
  <2>3. Refused("OK") \in Reply
    BY DEF Refused, Reply
  <2>4. CASE s.active[k] # a /\ o \notin Hiccups(s)
    BY <1>6, <2>1, <2>3, <2>4 DEF DeactivateOutcomes
  <2>5. CASE s.active[k] = a /\ o \notin Hiccups(s)
    <3>1. Release(s, k, now) \in ServerState
      BY <1>6, <2>5 DEF Release, ServerState, Addressed
    <3> QED BY <1>1, <1>6, <2>1, <2>3, <2>5, <3>1 DEF DeactivateOutcomes, Errors
  <2> QED BY <2>2, <2>4, <2>5
<1> QED BY <1>4, <1>5, <1>6 DEF CallKinds

-----------------------------------------------------------------------------
(***************************************************************************)
(* Types.                                                                  *)
(***************************************************************************)

\* Where a thread is says what its locals hold: the types alone would allow a
\* call without its licence.
Locals ==
    /\ \A t \in Threads :
        /\ app[t].pc \in {"verify", "try", "join", "spawn", "fresh", "save", "clear",
                          "public"} => app[t].lic \in Token
        /\ app[t].pc = "await" => call[t] # NoCall /\ call[t].kind = app[t].op
        /\ app[t].pc = "await" /\ app[t].op = "deactivate" => app[t].lic \in Token
        /\ app[t].pc = "request" => app[t].op = "activate"
        /\ app[t].op = "activate" => app[t].key \in Keys
    /\ \A h \in Handles :
        /\ renewer[h].pc \notin {"none", "exited"} => renewer[h].aid \in Aids
        /\ renewer[h].pc = "await" => call[h] # NoCall /\ call[h].kind = "renew"
        /\ renewer[h].pc \in {"lock", "store"} /\ renewer[h].error = "OK" =>
            renewer[h].token \in Token
    /\ \A p \in Callers :
        call[p] # NoCall /\ call[p].kind # "deactivate" /\ call[p].reply.error = "OK" =>
            call[p].reply.token \in Token

Shape == TypeOK /\ Locals

\* The initial state has the shape.
LEMMA InitShape == Init => Shape
<1> SUFFICES ASSUME Init PROVE Shape
  OBVIOUS
<1> USE Constants DEF Init
<1>1. ServerInit \in ServerState /\ NoToken \in MaybeToken
  BY DEF ServerInit, ServerState, MaybeToken, Aids
<1>2. IdleThread \in AppState /\ NewHandle \in HandleState /\ NoRenewer \in RenewerState
  BY <1>1 DEF IdleThread, AppState, NewHandle, HandleState, NoRenewer, RenewerState,
     LongAgo, AppPcs, Ops, RenewerPcs
<1>3. NoResult \in [status : Statuses, in_grace_period : BOOLEAN]
  BY DEF NoResult, Statuses
<1>4. TypeOK
  BY <1>1, <1>2, <1>3 DEF TypeOK
<1>5. Locals
  BY DEF Locals, IdleThread, NoRenewer, Callers
<1> QED BY <1>4, <1>5 DEF Shape

\* The environment's steps keep the shape.
LEMMA EnvironmentShape == Shape /\ Environment => Shape'
<1> SUFFICES ASSUME Shape, Environment PROVE Shape'
  OBVIOUS
<1> USE Constants DEF Shape, local
<1>1. CASE Tick
  BY <1>1 DEF Tick, TypeOK, Locals
<1>2. CASE ServeLate
  <2>0. PICK c \in late : \E o \in Outcomes(server, c, clock) :
          server' = o.server /\ late' = late \ {c}
    BY <1>2 DEF ServeLate
  <2>1. PICK o \in Outcomes(server, c, clock) :
          server' = o.server /\ late' = late \ {c}
    BY <2>0
  <2>2. server' \in ServerState
    BY <2>1, OutcomesType DEF TypeOK, Call
  <2>3. UNCHANGED <<clock, cache, call, app, sdk, renewer, result, history>>
    BY <1>2 DEF ServeLate
  <2> QED BY <2>1, <2>2, <2>3 DEF TypeOK, Locals
<1>3. ASSUME NEW k \in Keys, Revoke(k) PROVE Shape'
  <2>1. Release(server, k, clock) \in ServerState
    BY <1>3 DEF Release, ServerState, TypeOK, Revoke
  <2> QED BY <1>3, <2>1 DEF Revoke, TypeOK, Locals
<1>4. ASSUME NEW p \in Callers, Serve(p) PROVE Shape'
  <2>1. PICK o \in Outcomes(server, call[p], clock) :
          server' = o.server /\ call' = [call EXCEPT ![p].reply = o.reply]
    BY <1>4 DEF Serve
  <2>2. call[p] \in Pending
    BY <1>4 DEF Serve, TypeOK
  <2>3. /\ server' \in ServerState
        /\ o.reply \in Reply
        /\ o.reply.error = "OK" /\ call[p].kind # "deactivate" => o.reply.token \in Token
    <3>1. /\ call[p].kind \in CallKinds /\ call[p].aid \in Aids \cup {NoAid}
          /\ call[p].key \in Keys /\ Addressed(call[p])
      BY <2>2 DEF Pending
    <3>2. server \in ServerState /\ clock \in Nat
      BY DEF TypeOK
    <3> QED BY <2>1, <3>1, <3>2, OutcomesType
  <2>4. UNCHANGED <<clock, late, cache, app, sdk, renewer, result, history>>
    BY <1>4 DEF Serve
  <2>5. call' \in [Callers -> Pending \cup {NoCall}]
    BY <2>1, <2>2, <2>3 DEF TypeOK, Pending, Addressed
  <2>6. TypeOK'
    BY <2>3, <2>4, <2>5 DEF TypeOK
  <2>7. \A q \in Callers : call'[q] # NoCall <=> call[q] # NoCall
    BY <2>1, <2>2 DEF TypeOK, Pending, NoCall
  <2>8. \A q \in Callers : call[q] # NoCall => call'[q].kind = call[q].kind
    BY <2>1, <2>2 DEF TypeOK
  <2>9. \A q \in Callers : q # p => call'[q] = call[q]
    BY <2>1 DEF TypeOK
  <2>10. call'[p].reply = o.reply
    BY <2>1, <2>2 DEF TypeOK, Pending
  <2>11. Locals'
    BY <2>3, <2>4, <2>7, <2>8, <2>9, <2>10 DEF Locals, Callers
  <2> QED BY <2>6, <2>11
<1>5. ASSUME NEW p \in Callers, TimeOut(p) PROVE Shape'
  <2>1. call[p] \in Pending
    BY <1>5 DEF TimeOut, TypeOK
  <2>2. Refused("NETWORK") \in Reply
    BY DEF Refused, Reply, Errors
  <2>3. call' = [call EXCEPT ![p].reply = Refused("NETWORK")]
    BY <1>5 DEF TimeOut
  <2>4. UNCHANGED <<clock, server, cache, app, sdk, renewer, result, history>>
    BY <1>5 DEF TimeOut
  <2>5. LateRequests(p) \subseteq Call
    BY <2>1 DEF LateRequests, Call, Pending, Addressed
  <2>6. late' \subseteq Call
    BY <1>5, <2>5 DEF TimeOut, Abandon, TypeOK
  <2>7. call' \in [Callers -> Pending \cup {NoCall}]
    BY <2>1, <2>2, <2>3 DEF TypeOK, Pending, Addressed
  <2>8. TypeOK'
    BY <2>4, <2>6, <2>7 DEF TypeOK
  <2>9. call'[p].reply.error # "OK" /\ call'[p].kind = call[p].kind /\ call'[p] # NoCall
    BY <2>1, <2>3 DEF TypeOK, Pending, NoCall, Refused
  <2>10. \A q \in Callers : q # p => call'[q] = call[q]
    BY <2>3 DEF TypeOK
  <2>11. Locals'
    BY <2>1, <2>4, <2>9, <2>10 DEF Locals, Callers
  <2> QED BY <2>8, <2>11
<1>6. ASSUME NEW h \in Handles, Crash(h) PROVE Shape'
  <2> DEFINE dead == {h} \cup {t \in Threads : HandleOf[t] = h}
  <2>1. /\ call' = [p \in Callers |-> IF p \in dead THEN NoCall ELSE call[p]]
        /\ app' = [t \in Threads |-> IF t \in dead THEN IdleThread ELSE app[t]]
        /\ result' = [t \in Threads |-> IF t \in dead THEN NoResult ELSE result[t]]
        /\ Reset(h)
        /\ UNCHANGED <<clock, server, cache>>
    BY <1>6 DEF Crash
  <2>2. PICK p \in dead : Abandon(p)
    BY <1>6 DEF Crash
  <2>3. late' \subseteq Call
    <3>1. call[p] \in Pending \cup {NoCall}
      BY DEF TypeOK, Callers
    <3>2. LateRequests(p) \subseteq Call
      BY <3>1 DEF LateRequests, Call, Pending, Addressed
    <3> QED BY <2>2, <3>2 DEF Abandon, TypeOK
  <2>4. IdleThread \in AppState /\ NewHandle \in HandleState /\ NoRenewer \in RenewerState
    BY DEF IdleThread, AppState, NewHandle, HandleState, NoRenewer, RenewerState,
       LongAgo, AppPcs, Ops, RenewerPcs, MaybeToken
  <2>5. NoResult \in [status : Statuses, in_grace_period : BOOLEAN]
    BY DEF NoResult, Statuses
  <2>6. /\ call' \in [Callers -> Pending \cup {NoCall}]
        /\ app' \in [Threads -> AppState]
        /\ result' \in [Threads -> [status : Statuses, in_grace_period : BOOLEAN]]
    BY <2>1, <2>4, <2>5 DEF TypeOK
  <2>7. /\ sdk' = [sdk EXCEPT ![h] = NewHandle]
        /\ renewer' = [renewer EXCEPT ![h] = NoRenewer]
        /\ history' = [history EXCEPT !.unreached[h] = {}]
    BY <2>1 DEF Reset
  <2>8. TypeOK'
    BY <2>1, <2>3, <2>4, <2>6, <2>7 DEF TypeOK
  <2>9. \A t \in Threads : app'[t] = IdleThread \/ (app'[t] = app[t] /\ call'[t] = call[t])
    BY <2>1 DEF Callers
  <2>10. \A g \in Handles : renewer'[g] = NoRenewer
                             \/ (renewer'[g] = renewer[g] /\ call'[g] = call[g])
    BY <2>1, <2>7 DEF Callers, TypeOK
  <2>11. \A q \in Callers : call'[q] = NoCall \/ call'[q] = call[q]
    BY <2>1
  <2>12. Locals'
    BY <2>9, <2>10, <2>11 DEF Locals, IdleThread, NoRenewer
  <2> QED BY <2>8, <2>12
<1> QED BY <1>1, <1>2, <1>3, <1>4, <1>5, <1>6 DEF Environment

\* An API call that goes on at pc changes nothing else of its locals.
LEMMA GotoThread ==
    ASSUME TypeOK, NEW t \in Threads, NEW pc \in AppPcs, Goto(t, pc)
    PROVE  /\ app' \in [Threads -> AppState]
           /\ app'[t].pc = pc /\ app'[t].op = app[t].op /\ app'[t].lic = app[t].lic
           /\ app'[t].key = app[t].key /\ app'[t].valid = app[t].valid
           /\ \A u \in Threads : u # t => app'[u] = app[u]
BY DEF Goto, TypeOK, AppState

\* An API call that returns leaves its thread idle.
LEMMA ReturnThread ==
    ASSUME TypeOK, NEW t \in Threads, NEW status \in Statuses, Return(t, status)
    PROVE  /\ app' \in [Threads -> AppState]
           /\ app'[t] = IdleThread
           /\ \A u \in Threads : u # t => app'[u] = app[u]
           /\ result' \in [Threads -> [status : Statuses, in_grace_period : BOOLEAN]]
<1>1. IdleThread \in AppState
  BY DEF IdleThread, AppState, AppPcs, Ops, MaybeToken
<1>2. [NoResult EXCEPT !.status = status] \in [status : Statuses, in_grace_period : BOOLEAN]
  BY DEF NoResult, Statuses
<1> QED BY <1>1, <1>2 DEF Return, TypeOK

\* A request that says which activation it is about is one the server takes.
LEMMA RequestPending ==
    ASSUME NEW kind \in CallKinds, NEW aid \in Aids \cup {NoAid}, NEW key \in Keys,
           kind = "activate" <=> aid = NoAid
    PROVE  /\ Request(kind, aid, key) \in Pending
           /\ Request(kind, aid, key) # NoCall
           /\ Request(kind, aid, key).kind = kind
           /\ Request(kind, aid, key).reply.error = "pending"
<1>1. Request(kind, aid, key) = [kind |-> kind, aid |-> aid, key |-> key, reply |-> NoReply]
  BY DEF Request
<1>2. NoReply \in Reply \cup {NoReply} /\ NoReply.error = "pending"
  BY DEF NoReply
<1>3. Addressed(Request(kind, aid, key))
  BY <1>1 DEF Addressed
<1>4. Request(kind, aid, key) \in [kind : CallKinds, aid : Aids \cup {NoAid}, key : Keys,
                                 reply : Reply \cup {NoReply}]
  BY <1>1, <1>2
<1>5. Request(kind, aid, key) # NoCall
  BY <1>1 DEF NoCall, CallKinds
<1> QED BY <1>1, <1>2, <1>3, <1>4, <1>5 DEF Pending

\* Setting renew_failed keeps the handle's type.
LEMMA SetFailed ==
    ASSUME TypeOK, NEW h \in Handles, NEW failed \in BOOLEAN
    PROVE  [sdk EXCEPT ![h].renew_failed = failed] \in [Handles -> HandleState]
<1>1. sdk[h] \in HandleState
  BY DEF TypeOK
<1>2. [sdk[h] EXCEPT !.renew_failed = failed] \in HandleState
  BY <1>1 DEF HandleState
<1> QED BY <1>2 DEF TypeOK

\* clear_renew_failed keeps the handle's type.
LEMMA ClearFailed ==
    ASSUME TypeOK, NEW h \in Handles, sdk' = [sdk EXCEPT ![h].renew_failed = FALSE]
    PROVE  sdk' \in [Handles -> HandleState]
BY SetFailed

\* A renewal thread that goes on at pc changes nothing else of its locals.
LEMMA GotoRenewer ==
    ASSUME TypeOK, NEW h \in Handles, NEW pc \in RenewerPcs,
           renewer' = [renewer EXCEPT ![h].pc = pc]
    PROVE  /\ renewer' \in [Handles -> RenewerState]
           /\ renewer'[h].pc = pc /\ renewer'[h].aid = renewer[h].aid
           /\ renewer'[h].error = renewer[h].error /\ renewer'[h].token = renewer[h].token
           /\ \A g \in Handles : g # h => renewer'[g] = renewer[g]
BY DEF TypeOK, RenewerState

\* The steps that start a renewal keep the shape.
LEMMA RenewStartShape ==
    ASSUME Shape, NEW t \in Threads, RenewStart(t)
    PROVE  Shape'
<1> USE Constants DEF Shape
<1> DEFINE h == HandleOf[t]
<1>0. h \in Handles
  OBVIOUS
<1>1. CASE TryRenew(t)
  <2>1. sdk' \in [Handles -> HandleState]
    <3>1. sdk[h] \in HandleState /\ clock \in Int
      BY <1>0 DEF TypeOK
    <3>2. MarkInFlight(sdk[h], clock) \in HandleState
      BY <3>1 DEF MarkInFlight, HandleState
    <3> QED BY <1>1, <3>2 DEF TryRenew, TypeOK
  <2>2. Goto(t, "join") \/ Goto(t, "fresh")
    BY <1>1 DEF TryRenew
  <2>3. app[t].pc = "try" /\ UNCHANGED <<clock, server, late, cache, call, renewer, result, history>>
    BY <1>1 DEF TryRenew
  <2>4. TypeOK'
    BY <2>1, <2>2, <2>3, GotoThread DEF TypeOK, AppPcs
  <2>5. Locals'
    BY <2>2, <2>3, GotoThread DEF Locals, AppPcs
  <2> QED BY <2>4, <2>5
<1>2. CASE JoinRenewer(t)
  <2>1. renewer' \in [Handles -> RenewerState] /\ renewer' = [renewer EXCEPT ![h] = NoRenewer]
    BY <1>0, <1>2 DEF JoinRenewer, NoRenewer, TypeOK, RenewerState, RenewerPcs, MaybeToken
  <2>2. Goto(t, "spawn") /\ app[t].pc = "join"
        /\ UNCHANGED <<clock, server, late, cache, call, sdk, result, history>>
    BY <1>2 DEF JoinRenewer
  <2>3. TypeOK'
    BY <2>1, <2>2, GotoThread DEF TypeOK, AppPcs
  <2>4. Locals'
    BY <2>1, <2>2, GotoThread DEF Locals, AppPcs, NoRenewer, TypeOK
  <2> QED BY <2>3, <2>4
<1>3. CASE SpawnRenewer(t)
  <2> DEFINE lic == app[t].lic
  <2>1. lic \in Token /\ app[t].pc = "spawn"
    BY <1>3 DEF SpawnRenewer, Locals
  <2>2. /\ Goto(t, "fresh")
        /\ renewer' = [renewer EXCEPT ![h] =
                        [NoRenewer EXCEPT !.pc = "await", !.aid = lic.activation_id]]
        /\ call' = [call EXCEPT ![h] = Request("renew", lic.activation_id, lic.key)]
        /\ UNCHANGED <<clock, server, late, cache, sdk, result, history>>
    BY <1>3 DEF SpawnRenewer, Send
  <2>3. [NoRenewer EXCEPT !.pc = "await", !.aid = lic.activation_id] \in RenewerState
    BY <2>1 DEF NoRenewer, RenewerState, RenewerPcs, MaybeToken, Token
  <2>4. Request("renew", lic.activation_id, lic.key) \in Pending
    <3>1. lic.activation_id \in Aids /\ lic.key \in Keys /\ lic.activation_id # NoAid
      BY <2>1 DEF Token, Aids, NoAid
    <3> QED BY <3>1, RequestPending DEF CallKinds
  <2>5. TypeOK'
    BY <1>0, <2>2, <2>3, <2>4, GotoThread DEF TypeOK, AppPcs, Callers
  <2>6. /\ call'[h].kind = "renew" /\ call'[h] # NoCall /\ call'[h].reply.error = "pending"
        /\ renewer'[h].pc = "await" /\ renewer'[h].aid \in Aids
        /\ \A q \in Callers : q # h => call'[q] = call[q]
        /\ \A g \in Handles : g # h => renewer'[g] = renewer[g]
    BY <1>0, <2>1, <2>2 DEF TypeOK, Callers, Request, NoCall, NoReply, NoRenewer, Token
  <2>7. Locals'
    BY <1>0, <2>1, <2>2, <2>6, GotoThread DEF Locals, AppPcs, Callers
  <2> QED BY <2>5, <2>7
<1>4. CASE SpawnFails(t)
  <2>1. sdk' \in [Handles -> HandleState]
    <3>1. sdk[h] \in HandleState
      BY <1>0 DEF TypeOK
    <3>2. [sdk[h] EXCEPT !.renew_in_flight = FALSE] \in HandleState
      BY <3>1 DEF HandleState
    <3>3. sdk' = [sdk EXCEPT ![h] = [sdk[h] EXCEPT !.renew_in_flight = FALSE]]
      BY <1>4 DEF SpawnFails, TypeOK
    <3> QED BY <3>2, <3>3 DEF TypeOK
  <2>2. Goto(t, "fresh") /\ app[t].pc = "spawn"
        /\ UNCHANGED <<clock, server, late, cache, call, renewer, result, history>>
    BY <1>4 DEF SpawnFails
  <2>3. TypeOK'
    BY <2>1, <2>2, GotoThread DEF TypeOK, AppPcs
  <2>4. Locals'
    BY <2>2, GotoThread DEF Locals, AppPcs
  <2> QED BY <2>3, <2>4
<1> QED BY <1>1, <1>2, <1>3, <1>4 DEF RenewStart

\* The steps of latte_check, and of handing out a licence, keep the shape.
LEMMA CheckShape ==
    ASSUME Shape, NEW t \in Threads, Check(t) \/ CheckStep(t)
    PROVE  Shape'
<1> USE Constants DEF Shape
<1> DEFINE rest == <<clock, server, late, cache, call, sdk, renewer, history>>
<1>1. UNCHANGED rest
  BY DEF CheckStep, Check, CheckVerify, CheckFresh, DomainToPublic
<1>2. CASE Return(t, "NOT_ACTIVATED")
  <2>1. TypeOK'
    BY <1>1, <1>2, ReturnThread DEF TypeOK, Statuses
  <2>2. Locals'
    BY <1>1, <1>2, ReturnThread DEF Locals, Statuses, IdleThread
  <2> QED BY <2>1, <2>2
<1>3. CASE Check(t) /\ ~Return(t, "NOT_ACTIVATED")
  <2>1. /\ cache \in Token
        /\ app' = [app EXCEPT ![t] = [IdleThread EXCEPT
                    !.pc = "verify", !.op = "check", !.lic = cache]]
        /\ result' = [result EXCEPT ![t] = NoResult]
    BY <1>3 DEF Check, TypeOK, MaybeToken
  <2>2. [IdleThread EXCEPT !.pc = "verify", !.op = "check", !.lic = cache] \in AppState
    BY <2>1 DEF IdleThread, AppState, AppPcs, Ops, MaybeToken
  <2>3. NoResult \in [status : Statuses, in_grace_period : BOOLEAN]
    BY DEF NoResult, Statuses
  <2>4. TypeOK'
    BY <1>1, <2>1, <2>2, <2>3 DEF TypeOK
  <2>5. Locals'
    BY <1>1, <2>1 DEF Locals, IdleThread, TypeOK
  <2> QED BY <2>4, <2>5
<1>4. CASE CheckVerify(t) /\ ~Return(t, "NOT_ACTIVATED")
  <2>1. /\ app[t].pc = "verify" /\ app[t].op = "check"
        /\ UNCHANGED result
        /\ app' = [app EXCEPT ![t].pc = "try", ![t].valid = Verdict(app[t].lic) = "OK"]
    BY <1>4 DEF CheckVerify
  <2>2. /\ app' \in [Threads -> AppState]
        /\ app'[t].pc = "try" /\ app'[t].op = app[t].op /\ app'[t].lic = app[t].lic
        /\ app'[t].key = app[t].key
        /\ \A u \in Threads : u # t => app'[u] = app[u]
    <3> DEFINE ok == Verdict(app[t].lic) = "OK"
    <3> HIDE DEF ok
    <3>1. ok \in BOOLEAN
      BY DEF ok
    <3>2. app' = [app EXCEPT ![t] = [app[t] EXCEPT !.pc = "try", !.valid = ok]]
      BY <2>1 DEF ok, TypeOK
    <3>3. app[t] \in AppState
      BY DEF TypeOK
    <3>4. [app[t] EXCEPT !.pc = "try", !.valid = ok] \in AppState
      BY <3>1, <3>3 DEF AppState, AppPcs
    <3> QED BY <3>2, <3>3, <3>4 DEF TypeOK, AppState
  <2>3. TypeOK'
    BY <1>1, <2>1, <2>2 DEF TypeOK
  <2>4. Locals'
    BY <1>1, <2>1, <2>2 DEF Locals
  <2> QED BY <2>3, <2>4
<1>5. CASE CheckFresh(t) /\ ~Return(t, "NOT_ACTIVATED")
  <2>1. Goto(t, "public") /\ app[t].pc = "fresh" /\ UNCHANGED result
    BY <1>5 DEF CheckFresh
  <2>2. TypeOK'
    BY <1>1, <2>1, GotoThread DEF TypeOK, AppPcs
  <2>3. Locals'
    BY <1>1, <2>1, GotoThread DEF Locals, AppPcs
  <2> QED BY <2>2, <2>3
<1>6. CASE DomainToPublic(t)
  <2>1. /\ app' = [app EXCEPT ![t] = IdleThread]
        /\ \E b \in BOOLEAN :
            result' = [result EXCEPT ![t] = [status |-> "OK", in_grace_period |-> b]]
    BY <1>6 DEF DomainToPublic, InGracePeriodAt
  <2>2. IdleThread \in AppState
    BY DEF IdleThread, AppState, AppPcs, Ops, MaybeToken
  <2>3. TypeOK'
    BY <1>1, <2>1, <2>2 DEF TypeOK, Statuses
  <2>4. Locals'
    BY <1>1, <2>1 DEF Locals, IdleThread, TypeOK
  <2> QED BY <2>3, <2>4
<1> QED BY <1>2, <1>3, <1>4, <1>5, <1>6 DEF CheckStep

\* An API call that goes on with another licence changes nothing else.
LEMMA TakeThread ==
    ASSUME TypeOK, NEW t \in Threads, NEW pc \in AppPcs, NEW lic \in MaybeToken,
           app' = [app EXCEPT ![t].pc = pc, ![t].lic = lic]
    PROVE  /\ app' \in [Threads -> AppState]
           /\ app'[t].pc = pc /\ app'[t].op = app[t].op /\ app'[t].lic = lic
           /\ app'[t].key = app[t].key
           /\ \A u \in Threads : u # t => app'[u] = app[u]
<1>1. app[t] \in AppState
  BY DEF TypeOK
<1>2. app' = [app EXCEPT ![t] = [app[t] EXCEPT !.pc = pc, !.lic = lic]]
  BY DEF TypeOK
<1>3. [app[t] EXCEPT !.pc = pc, !.lic = lic] \in AppState
  BY <1>1 DEF AppState
<1> QED BY <1>1, <1>2, <1>3 DEF TypeOK, AppState

\* An API call begins with locals of its own.
LEMMA BeginThread ==
    ASSUME TypeOK, NEW t \in Threads, NEW start \in AppState,
           app' = [app EXCEPT ![t] = start],
           result' = [result EXCEPT ![t] = NoResult]
    PROVE  /\ app' \in [Threads -> AppState] /\ app'[t] = start
           /\ \A u \in Threads : u # t => app'[u] = app[u]
           /\ result' \in [Threads -> [status : Statuses, in_grace_period : BOOLEAN]]
<1>1. NoResult \in [status : Statuses, in_grace_period : BOOLEAN]
  BY DEF NoResult, Statuses
<1> QED BY <1>1 DEF TypeOK

\* The steps of latte_activate keep the shape.
LEMMA ActivateShape ==
    ASSUME Shape, NEW t \in Threads,
           (\E k \in Keys : Activate(t, k)) \/ ActivateStep(t)
    PROVE  Shape'
<1> USE Constants DEF Shape
<1> DEFINE h == HandleOf[t]
<1>0. h \in Handles /\ t \in Callers /\ t \notin Handles
  BY DEF Callers
<1>1. ASSUME NEW k \in Keys, Activate(t, k) PROVE Shape'
  <2> DEFINE start == [IdleThread EXCEPT
                        !.pc = IF cache = NoToken THEN "request" ELSE "verify",
                        !.op = "activate", !.key = k, !.lic = cache]
  <2>1. /\ app' = [app EXCEPT ![t] = start] /\ result' = [result EXCEPT ![t] = NoResult]
        /\ UNCHANGED <<clock, server, late, cache, call, sdk, renewer, history>>
    BY <1>1 DEF Activate
  <2>2. /\ start \in AppState /\ start.op = "activate" /\ start.key = k
        /\ start.lic = cache
        /\ start.pc = "request" \/ (start.pc = "verify" /\ cache \in Token)
    BY DEF IdleThread, AppState, AppPcs, Ops, MaybeToken, TypeOK
  <2> HIDE DEF start
  <2>3. TypeOK'
    BY <2>1, <2>2, BeginThread DEF TypeOK
  <2>4. Locals'
    BY <2>1, <2>2, BeginThread DEF Locals
  <2> QED BY <2>3, <2>4
<1>2. CASE ActivateVerify(t)
  <2>1. /\ Goto(t, "try") \/ Goto(t, "request")
        /\ app[t].pc = "verify" /\ app[t].op = "activate"
        /\ UNCHANGED <<clock, server, late, cache, call, sdk, renewer, result, history>>
    BY <1>2 DEF ActivateVerify
  <2>2. TypeOK'
    BY <2>1, GotoThread DEF TypeOK, AppPcs
  <2>3. Locals'
    BY <2>1, GotoThread DEF Locals, AppPcs
  <2> QED BY <2>2, <2>3
<1>3. CASE ActivateMatch(t)
  <2>1. /\ Goto(t, "public") \/ Goto(t, "request")
        /\ app[t].pc = "fresh" /\ app[t].op = "activate"
        /\ UNCHANGED <<clock, server, late, cache, call, sdk, renewer, result, history>>
    BY <1>3 DEF ActivateMatch
  <2>2. TypeOK'
    BY <2>1, GotoThread DEF TypeOK, AppPcs
  <2>3. Locals'
    BY <2>1, GotoThread DEF Locals, AppPcs
  <2> QED BY <2>2, <2>3
<1>4. CASE ActivateRequest(t)
  <2> DEFINE req == Request("activate", NoAid, app[t].key)
  <2>1. /\ Goto(t, "await") /\ app[t].pc = "request"
        /\ call' = [call EXCEPT ![t] = req]
        /\ UNCHANGED <<clock, server, late, cache, sdk, renewer, result, history>>
    BY <1>4 DEF ActivateRequest, Send
  <2>2. app[t].op = "activate" /\ app[t].key \in Keys
    BY <2>1 DEF Locals
  <2>3. /\ req \in Pending /\ req # NoCall /\ req.kind = "activate"
        /\ req.reply.error = "pending"
    BY <2>2, RequestPending DEF CallKinds
  <2> HIDE DEF req
  <2>4. TypeOK'
    BY <1>0, <2>1, <2>3, GotoThread DEF TypeOK, AppPcs
  <2>5. call'[t] = req /\ \A q \in Callers : q # t => call'[q] = call[q]
    BY <1>0, <2>1 DEF TypeOK
  <2>6. Locals'
    BY <1>0, <2>1, <2>2, <2>3, <2>5, GotoThread DEF Locals, AppPcs, Callers
  <2> QED BY <2>4, <2>6
<1>5. CASE ActivateReply(t)
  <2> DEFINE reply == call[t].reply
  <2>1. /\ app[t].pc = "await" /\ app[t].op = "activate" /\ reply # NoReply
        /\ call' = [call EXCEPT ![t] = NoCall]
        /\ UNCHANGED <<clock, server, late, cache, sdk, renewer, history>>
    BY <1>5 DEF ActivateReply, HangUp
  <2>2. call'[t] = NoCall /\ \A q \in Callers : q # t => call'[q] = call[q]
    BY <1>0, <2>1 DEF TypeOK
  <2>3. CASE \E status \in Statuses : Return(t, status)
    <3>1. TypeOK'
      BY <1>0, <2>1, <2>3, ReturnThread DEF TypeOK
    <3>2. Locals'
      BY <1>0, <2>1, <2>2, <2>3, ReturnThread DEF Locals, IdleThread, Callers
    <3> QED BY <3>1, <3>2
  <2>4. CASE /\ reply.error = "OK" /\ UNCHANGED result
             /\ app' = [app EXCEPT ![t].pc = "save", ![t].lic = reply.token]
    <3>1. reply.token \in Token
      BY <1>0, <2>1, <2>4 DEF Locals
    <3>2. /\ app' \in [Threads -> AppState]
          /\ app'[t].pc = "save" /\ app'[t].op = app[t].op /\ app'[t].lic = reply.token
          /\ app'[t].key = app[t].key
          /\ \A u \in Threads : u # t => app'[u] = app[u]
      BY <2>4, <3>1, TakeThread DEF AppPcs, MaybeToken
    <3>3. TypeOK'
      BY <1>0, <2>1, <2>4, <3>2 DEF TypeOK
    <3>4. Locals'
      BY <1>0, <2>1, <2>2, <3>1, <3>2 DEF Locals, Callers
    <3> QED BY <3>3, <3>4
  <2>5. \A e : MapNetworkError(e) \in Statuses
    BY DEF MapNetworkError, Statuses
  <2>6. "SERVER_INVALID_TOKEN" \in Statuses
    BY DEF Statuses
  <2> QED BY <1>5, <2>3, <2>4, <2>5, <2>6 DEF ActivateReply
<1>6. CASE ActivateSave(t)
  <2>1. /\ Goto(t, "public") /\ app[t].pc = "save"
        /\ cache' = app[t].lic \/ cache' = cache
        /\ sdk' = [sdk EXCEPT ![h].renew_failed = FALSE]
        /\ history' = [history EXCEPT !.unreached[h] = {}]
        /\ UNCHANGED <<clock, server, late, call, renewer, result>>
    BY <1>6 DEF ActivateSave, SaveToken
  <2>2. app[t].lic \in Token
    BY <2>1 DEF Locals
  <2>3. sdk' \in [Handles -> HandleState]
    BY <1>0, <2>1, ClearFailed
  <2>4. TypeOK'
    BY <2>1, <2>2, <2>3, GotoThread DEF TypeOK, AppPcs, MaybeToken
  <2>5. Locals'
    BY <2>1, <2>2, GotoThread DEF Locals, AppPcs
  <2> QED BY <2>4, <2>5
<1> QED BY <1>1, <1>2, <1>3, <1>4, <1>5, <1>6 DEF ActivateStep

\* The steps of latte_deactivate and latte_free keep the shape.
LEMMA DeactivateShape ==
    ASSUME Shape, NEW t \in Threads,
           Deactivate(t) \/ DeactivateStep(t) \/ Free(t) \/ FreeJoin(t)
    PROVE  Shape'
<1> USE Constants DEF Shape
<1> DEFINE h == HandleOf[t]
<1>0. h \in Handles /\ t \in Callers /\ t \notin Handles
  BY DEF Callers
<1>1. CASE Deactivate(t) /\ cache # NoToken
  <2> DEFINE start == [IdleThread EXCEPT
                        !.pc = "await", !.op = "deactivate", !.lic = cache]
             req == Request("deactivate", cache.activation_id, cache.key)
  <2>1. /\ app' = [app EXCEPT ![t] = start] /\ result' = [result EXCEPT ![t] = NoResult]
        /\ call' = [call EXCEPT ![t] = req]
        /\ UNCHANGED <<clock, server, late, cache, sdk, renewer, history>>
    BY <1>1 DEF Deactivate, Send
  <2>2. cache \in Token
    BY <1>1 DEF TypeOK, MaybeToken
  <2>3. /\ start \in AppState /\ start.op = "deactivate" /\ start.pc = "await"
        /\ start.lic = cache
    BY <2>2 DEF IdleThread, AppState, AppPcs, Ops, MaybeToken
  <2>4. /\ req \in Pending /\ req # NoCall /\ req.kind = "deactivate"
        /\ req.reply.error = "pending"
    <3>1. cache.activation_id \in Aids /\ cache.key \in Keys /\ cache.activation_id # NoAid
      BY <2>2 DEF Token, Aids, NoAid
    <3> QED BY <3>1, RequestPending DEF CallKinds
  <2> HIDE DEF start, req
  <2>5. TypeOK'
    BY <1>0, <2>1, <2>3, <2>4, BeginThread DEF TypeOK
  <2>6. call'[t] = req /\ \A q \in Callers : q # t => call'[q] = call[q]
    BY <1>0, <2>1 DEF TypeOK
  <2>7. app'[t] = start /\ \A u \in Threads : u # t => app'[u] = app[u]
    BY <2>1, <2>3, BeginThread
  <2>8. Locals'
    BY <1>0, <2>1, <2>2, <2>3, <2>4, <2>6, <2>7 DEF Locals, Callers
  <2> QED BY <2>5, <2>8
<1>2. CASE Deactivate(t) /\ cache = NoToken
  <2>1. /\ Return(t, "NOT_ACTIVATED")
        /\ UNCHANGED <<clock, server, late, cache, call, sdk, renewer, history>>
    BY <1>2 DEF Deactivate
  <2>2. TypeOK'
    BY <2>1, ReturnThread DEF TypeOK, Statuses
  <2>3. Locals'
    BY <2>1, ReturnThread DEF Locals, Statuses, IdleThread
  <2> QED BY <2>2, <2>3
<1>3. CASE DeactivateReply(t)
  <2>1. /\ app[t].pc = "await" /\ app[t].op = "deactivate"
        /\ call' = [call EXCEPT ![t] = NoCall]
        /\ UNCHANGED <<clock, server, late, cache, sdk, renewer, history>>
    BY <1>3 DEF DeactivateReply, HangUp
  <2>2. call'[t] = NoCall /\ \A q \in Callers : q # t => call'[q] = call[q]
    BY <1>0, <2>1 DEF TypeOK
  <2>3. CASE \E status \in Statuses : Return(t, status)
    <3>1. TypeOK'
      BY <1>0, <2>1, <2>3, ReturnThread DEF TypeOK
    <3>2. Locals'
      BY <1>0, <2>1, <2>2, <2>3, ReturnThread DEF Locals, IdleThread, Callers
    <3> QED BY <3>1, <3>2
  <2>4. CASE Goto(t, "clear") /\ UNCHANGED result
    <3>1. TypeOK'
      BY <1>0, <2>1, <2>4, GotoThread DEF TypeOK, AppPcs
    <3>2. Locals'
      BY <1>0, <2>1, <2>2, <2>4, GotoThread DEF Locals, AppPcs, Callers
    <3> QED BY <3>1, <3>2
  <2>5. \A e : MapNetworkError(e) \in Statuses
    BY DEF MapNetworkError, Statuses
  <2> QED BY <1>3, <2>3, <2>4, <2>5 DEF DeactivateReply
<1>4. CASE DeactivateClear(t)
  <2>1. /\ Return(t, "OK") /\ app[t].pc = "clear"
        /\ cache' = NoToken \/ cache' = cache
        /\ sdk' = [sdk EXCEPT ![h].renew_failed = FALSE]
        /\ history' = [history EXCEPT
                        !.forgotten = IF cache' = NoToken
                                      THEN @ \cup {app[t].lic.activation_id} ELSE @,
                        !.unreached[h] = {}]
        /\ UNCHANGED <<clock, server, late, call, renewer>>
    BY <1>4 DEF DeactivateClear, SaveToken
  <2>2. app[t].lic.activation_id \in Aids
    BY <2>1 DEF Locals, Token
  <2>3. sdk' \in [Handles -> HandleState]
    BY <1>0, <2>1, ClearFailed
  <2>4. history' \in [forgotten : SUBSET Aids, unreached : [Handles -> SUBSET Aids]]
    BY <1>0, <2>1, <2>2 DEF TypeOK
  <2>5. TypeOK'
    BY <2>1, <2>3, <2>4, ReturnThread DEF TypeOK, Statuses, MaybeToken
  <2>6. Locals'
    BY <2>1, ReturnThread DEF Locals, Statuses, IdleThread
  <2> QED BY <2>5, <2>6
<1>5. CASE Free(t)
  <2> DEFINE start == [app[t] EXCEPT !.pc = "free", !.op = "free"]
  <2>1. /\ app' = [app EXCEPT ![t] = start] /\ result' = [result EXCEPT ![t] = NoResult]
        /\ UNCHANGED <<clock, server, late, cache, call, sdk, renewer, history>>
    BY <1>5 DEF Free, TypeOK
  <2>2. start \in AppState /\ start.pc = "free" /\ start.op = "free"
    <3>1. app[t] \in AppState
      BY DEF TypeOK
    <3> QED BY <3>1 DEF AppState, AppPcs, Ops
  <2> HIDE DEF start
  <2>3. TypeOK'
    BY <2>1, <2>2, BeginThread DEF TypeOK
  <2>4. Locals'
    BY <2>1, <2>2, BeginThread DEF Locals
  <2> QED BY <2>3, <2>4
<1>6. CASE FreeJoin(t)
  <2>1. /\ app' = [app EXCEPT ![t] = IdleThread]
        /\ sdk' = [sdk EXCEPT ![h] = NewHandle]
        /\ renewer' = [renewer EXCEPT ![h] = NoRenewer]
        /\ history' = [history EXCEPT !.unreached[h] = {}]
        /\ UNCHANGED <<clock, server, late, cache, call, result>>
    BY <1>6 DEF FreeJoin, Reset
  <2>2. IdleThread \in AppState /\ NewHandle \in HandleState /\ NoRenewer \in RenewerState
    BY DEF IdleThread, AppState, NewHandle, HandleState, NoRenewer, RenewerState,
       LongAgo, AppPcs, Ops, RenewerPcs, MaybeToken
  <2>3. TypeOK'
    BY <1>0, <2>1, <2>2 DEF TypeOK
  <2>4. Locals'
    BY <1>0, <2>1, <2>2 DEF Locals, TypeOK, IdleThread, NoRenewer
  <2> QED BY <2>3, <2>4
<1> QED BY <1>1, <1>2, <1>3, <1>4, <1>5, <1>6 DEF DeactivateStep

\* The renewal thread's steps keep the shape.
LEMMA RenewerShape ==
    ASSUME Shape, NEW h \in Handles, RenewerStep(h)
    PROVE  Shape'
<1> USE Constants DEF Shape
<1>0. h \in Callers /\ h \notin Threads /\ renewer[h] \in RenewerState
  BY DEF Callers, TypeOK
<1>1. CASE RenewReply(h)
  <2> DEFINE reply == call[h].reply
             verdict == IF reply.error # "OK" THEN reply.error
                        ELSE IF Verified(reply.token) /\ Verdict(reply.token) = "OK"
                        THEN "OK" ELSE "UNUSABLE"
             r == [renewer[h] EXCEPT !.pc = "lock", !.error = verdict, !.token = reply.token]
  <2>1. /\ renewer[h].pc = "await" /\ reply # NoReply
        /\ call' = [call EXCEPT ![h] = NoCall]
        /\ renewer' = [renewer EXCEPT ![h] = r]
        /\ UNCHANGED <<clock, server, late, cache, app, sdk, result, history>>
    BY <1>1 DEF RenewReply, HangUp, TypeOK
  <2>2. reply \in Reply /\ (reply.error = "OK" => reply.token \in Token)
    BY <1>0, <2>1 DEF Locals, TypeOK, Pending, CallKinds
  <2>3. verdict \in Errors \cup {"OK", "UNUSABLE"} /\ (verdict = "OK" => reply.error = "OK")
    BY <2>2 DEF Reply
  <2> HIDE DEF verdict
  <2>4. /\ r \in RenewerState /\ r.pc = "lock" /\ r.error = verdict
        /\ r.token = reply.token /\ r.aid = renewer[h].aid
    BY <1>0, <2>2, <2>3 DEF RenewerState, RenewerPcs, Reply, MaybeToken
  <2> HIDE DEF r
  <2>5. TypeOK'
    BY <1>0, <2>1, <2>4 DEF TypeOK
  <2>6. /\ call'[h] = NoCall /\ renewer'[h] = r
        /\ \A q \in Callers : q # h => call'[q] = call[q]
        /\ \A g \in Handles : g # h => renewer'[g] = renewer[g]
    BY <1>0, <2>1 DEF TypeOK
  <2>7. Locals'
    BY <1>0, <2>1, <2>2, <2>3, <2>4, <2>6 DEF Locals, Callers
  <2> QED BY <2>5, <2>7
<1>2. CASE RenewLock(h)
  <2>1. PICK pc \in {"store", "wipe", "done"} :
          /\ renewer' = [renewer EXCEPT ![h].pc = pc]
          /\ pc = "store" => renewer[h].error = "OK"
    BY <1>2 DEF RenewLock, AfterLock
  <2>2. sdk' \in [Handles -> HandleState]
    <3>1. sdk' = sdk \/ \E b \in BOOLEAN : sdk' = [sdk EXCEPT ![h].renew_failed = b]
      <4> DEFINE network == renewer[h].error = "NETWORK"
      <4> HIDE DEF network
      <4>1. network \in BOOLEAN
        BY DEF network
      <4>2. sdk' = sdk \/ sdk' = [sdk EXCEPT ![h].renew_failed = network]
        BY <1>2 DEF RenewLock, network
      <4> QED BY <4>1, <4>2
    <3> QED BY <3>1, SetFailed DEF TypeOK
  <2>3. /\ renewer[h].pc = "lock"
        /\ history' = [history EXCEPT !.unreached[h] =
                    IF renewer[h].error = "NETWORK" THEN @ \cup {renewer[h].aid}
                    ELSE @ \ {renewer[h].aid}]
        /\ UNCHANGED <<clock, server, late, cache, call, app, result>>
    BY <1>2 DEF RenewLock
  <2>4. renewer' \in [Handles -> RenewerState]
    BY <1>0, <2>1, GotoRenewer DEF RenewerPcs
  <2>5. renewer[h].aid \in Aids
    BY <2>3 DEF Locals
  <2>6. history' \in [forgotten : SUBSET Aids, unreached : [Handles -> SUBSET Aids]]
    BY <2>3, <2>5 DEF TypeOK
  <2>7. TypeOK'
    BY <2>2, <2>3, <2>4, <2>6 DEF TypeOK
  <2>8. Locals'
    BY <1>0, <2>1, <2>3, <2>5, GotoRenewer DEF Locals, RenewerPcs
  <2> QED BY <2>7, <2>8
<1>3. CASE RenewWipe(h)
  <2>1. /\ renewer[h].pc = "wipe"
        /\ cache' = NoToken \/ cache' = cache
        /\ renewer' = [renewer EXCEPT ![h].pc = "done"]
        /\ UNCHANGED <<clock, server, late, call, app, sdk, result, history>>
    BY <1>3 DEF RenewWipe, SaveToken
  <2>2. TypeOK'
    BY <2>1, GotoRenewer DEF TypeOK, RenewerPcs, MaybeToken
  <2>3. Locals'
    BY <2>1, GotoRenewer DEF Locals, RenewerPcs
  <2> QED BY <2>2, <2>3
<1>4. CASE RenewStore(h)
  <2>1. /\ renewer[h].pc = "store"
        /\ cache' = renewer[h].token \/ cache' = cache
        /\ sdk' = [sdk EXCEPT ![h].renew_failed = FALSE]
        /\ renewer' = [renewer EXCEPT ![h].pc = "done"]
        /\ UNCHANGED <<clock, server, late, call, app, result, history>>
    BY <1>4 DEF RenewStore, SaveToken
  <2>2. sdk' \in [Handles -> HandleState]
    BY <2>1, ClearFailed
  <2>3. renewer[h].token \in MaybeToken
    BY <1>0 DEF RenewerState
  <2>4. TypeOK'
    BY <2>1, <2>2, <2>3, GotoRenewer DEF TypeOK, RenewerPcs
  <2>5. Locals'
    BY <2>1, GotoRenewer DEF Locals, RenewerPcs
  <2> QED BY <2>4, <2>5
<1>5. CASE RenewDone(h)
  <2>1. /\ sdk' = [sdk EXCEPT ![h].renew_in_flight = FALSE]
        /\ renewer' = [renewer EXCEPT ![h] = [NoRenewer EXCEPT !.pc = "exited"]]
        /\ UNCHANGED <<clock, server, late, cache, call, app, result, history>>
    BY <1>5 DEF RenewDone
  <2>2. sdk' \in [Handles -> HandleState]
    <3>1. sdk[h] \in HandleState
      BY DEF TypeOK
    <3>2. [sdk[h] EXCEPT !.renew_in_flight = FALSE] \in HandleState
      BY <3>1 DEF HandleState
    <3> QED BY <2>1, <3>2 DEF TypeOK
  <2>3. [NoRenewer EXCEPT !.pc = "exited"] \in RenewerState
    BY DEF NoRenewer, RenewerState, RenewerPcs, MaybeToken
  <2>4. TypeOK'
    BY <2>1, <2>2, <2>3 DEF TypeOK
  <2>5. Locals'
    BY <2>1 DEF Locals, TypeOK, NoRenewer
  <2> QED BY <2>4, <2>5
<1> QED BY <1>1, <1>2, <1>3, <1>4, <1>5 DEF RenewerStep

\* Every step keeps the shape.
LEMMA ShapeStep == Shape /\ [Next]_vars => Shape'
<1> SUFFICES ASSUME Shape, [Next]_vars PROVE Shape'
  OBVIOUS
<1>1. CASE Environment
  BY <1>1, EnvironmentShape
<1>2. ASSUME NEW t \in Threads, Begin(t) \/ Continue(t) PROVE Shape'
  BY <1>2, CheckShape, RenewStartShape, ActivateShape, DeactivateShape
     DEF Begin, Continue
<1>3. ASSUME NEW h \in Handles, RenewerStep(h) PROVE Shape'
  BY <1>3, RenewerShape
<1>4. CASE UNCHANGED vars
  BY <1>4 DEF Shape, TypeOK, Locals, vars
<1> QED BY <1>1, <1>2, <1>3, <1>4 DEF Next

\* Every variable keeps the shape the handlers give it, and an API call or a
\* renewal that is under way has the licence, the request and the reply that
\* its next step reads (latte.c:199-268, 446-592).
THEOREM TypeCorrect == Spec => []TypeOK
<1>1. Spec => []Shape
  BY InitShape, ShapeStep, PTL DEF Spec
<1> QED BY <1>1, PTL DEF Shape
=============================================================================
