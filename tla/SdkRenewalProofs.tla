------------------------- MODULE SdkRenewalProofs -------------------------
(***************************************************************************)
(* The renewals of a handle follow one another, for any number of handles  *)
(* and threads: OneRenewalAtATime and JoinNeverWaits.  Those of the only   *)
(* handle write what is theirs, RenewalWritesOnlyItsOwn, and its flag is   *)
(* about the activation that is cached, RenewFailedIsCurrent.              *)
(***************************************************************************)
EXTENDS SdkProofs

Starting(t) == app[t].pc \in {"join", "spawn"}
Busy(h) == renewer[h].pc \notin {"none", "exited"}
InFlight(h) == sdk[h].renew_in_flight

\* renew_in_flight is a token that passes from latte_check to the renewal
\* thread; it is set while somebody has it, and nobody else can get it.
Baton ==
    /\ \A t \in Threads : Starting(t) => InFlight(HandleOf[t]) /\ ~Busy(HandleOf[t])
    /\ \A t, u \in Threads :
        Starting(t) /\ Starting(u) /\ HandleOf[t] = HandleOf[u] => t = u
    /\ \A h \in Handles : Busy(h) => InFlight(h)
    /\ \A h \in Handles : InFlight(h) =>
        Busy(h) \/ \E t \in Threads : HandleOf[t] = h /\ Starting(t)

\* latte_free runs alone on its handle.
FreeAlone ==
    /\ \A t \in Threads : app[t].pc = "free" <=> app[t].op = "free"
    /\ \A t, u \in Threads :
        app[t].pc = "free" /\ HandleOf[t] = HandleOf[u] /\ t # u => app[u].pc = "idle"

RenewalInv == Shape /\ FreeAlone /\ Baton

-----------------------------------------------------------------------------
\* The baton is what the two properties say of the threads.
LEMMA BatonMeans ==
    ASSUME Shape, Baton
    PROVE  OneRenewalAtATime /\ JoinNeverWaits
<1> USE Constants
<1>1. JoinNeverWaits
  BY DEF JoinNeverWaits, Joinable, Baton, Starting, Busy
<1>2. ASSUME NEW h \in Handles
      PROVE  /\ sdk[h].renew_in_flight <=> Renewing(h) # {}
             /\ \A p, q \in Renewing(h) : p = q
  <2>1. \A p : p \in Renewing(h) <=>
          \/ p \in Threads /\ HandleOf[p] = h /\ Starting(p)
          \/ p = h /\ Busy(h)
    BY DEF Renewing, Starting, Busy
  <2>2. ASSUME NEW p \in Renewing(h), NEW q \in Renewing(h) PROVE p = q
    BY <2>1 DEF Baton
  <2>3. sdk[h].renew_in_flight \in BOOLEAN
    BY DEF Shape, TypeOK, HandleState
  <2>4. sdk[h].renew_in_flight => Renewing(h) # {}
    BY <2>1 DEF Baton, InFlight
  <2>5. Renewing(h) # {} => sdk[h].renew_in_flight
    BY <2>1 DEF Baton, InFlight
  <2> QED BY <2>2, <2>3, <2>4, <2>5
<1> QED BY <1>1, <1>2 DEF OneRenewalAtATime

\* A step that changes neither who carries a renewal nor the flag.
Quiet ==
    /\ \A t \in Threads : Starting(t)' = Starting(t)
    /\ \A h \in Handles : Busy(h)' = Busy(h) /\ InFlight(h)' = InFlight(h)

LEMMA QuietKeeps ==
    ASSUME Baton, Quiet
    PROVE  Baton'
<1> USE Constants DEF Quiet
<1>1. \A t \in Threads : Starting(t)' => InFlight(HandleOf[t])' /\ ~Busy(HandleOf[t])'
  BY DEF Baton
<1>2. \A t, u \in Threads :
        Starting(t)' /\ Starting(u)' /\ HandleOf[t] = HandleOf[u] => t = u
  BY DEF Baton
<1>3. \A h \in Handles : Busy(h)' => InFlight(h)'
  BY DEF Baton
<1>4. \A h \in Handles : InFlight(h)' =>
        Busy(h)' \/ \E t \in Threads : HandleOf[t] = h /\ Starting(t)'
  BY DEF Baton
<1> QED BY <1>1, <1>2, <1>3, <1>4 DEF Baton

\* A step of thread t that is no part of latte_free.
OrdinaryStep(t) ==
    /\ \A u \in Threads : u # t => app'[u] = app[u]
    /\ app[t].pc # "free" /\ app'[t].pc # "free" /\ app'[t].op # "free"
    /\ app[t].pc = "idle" => CanCall(t)

LEMMA OrdinaryStepKeeps ==
    ASSUME FreeAlone, NEW t \in Threads, OrdinaryStep(t)
    PROVE  FreeAlone'
<1> USE Constants DEF OrdinaryStep
<1>1. \A u \in Threads : app'[u].pc = "free" <=> app'[u].op = "free"
  BY DEF FreeAlone
<1>2. ASSUME NEW u \in Threads, NEW v \in Threads,
             app'[u].pc = "free", HandleOf[u] = HandleOf[v], u # v
      PROVE  app'[v].pc = "idle"
  <2>1. u # t /\ app[u].pc = "free" /\ app[u].op = "free"
    BY <1>2 DEF FreeAlone
  <2>2. v # t
    BY <1>2, <2>1 DEF FreeAlone, CanCall
  <2> QED BY <1>2, <2>1, <2>2 DEF FreeAlone
<1> QED BY <1>1, <1>2 DEF FreeAlone

-----------------------------------------------------------------------------
\* The initial state.
LEMMA RenewalInit == Init => RenewalInv
<1> SUFFICES ASSUME Init PROVE RenewalInv
  OBVIOUS
<1>1. FreeAlone
  BY Constants DEF Init, FreeAlone, IdleThread
<1>2. Baton
  BY Constants DEF Init, Baton, Starting, Busy, InFlight, IdleThread, NoRenewer, NewHandle
<1> QED BY <1>1, <1>2, InitShape DEF RenewalInv

\* The death of a process takes its whole handle back to the start.
LEMMA ResetKeeps ==
    ASSUME RenewalInv, NEW h \in Handles, Reset(h),
           \A t \in Threads : HandleOf[t] = h => app'[t] = IdleThread,
           \A t \in Threads : HandleOf[t] # h => app'[t] = app[t]
    PROVE  FreeAlone' /\ Baton'
<1> USE Constants DEF RenewalInv
<1>1. FreeAlone'
  BY DEF FreeAlone, IdleThread
<1>2. /\ \A g \in Handles : g # h => Busy(g)' = Busy(g) /\ InFlight(g)' = InFlight(g)
      /\ ~Busy(h)' /\ ~InFlight(h)'
  BY DEF Reset, Busy, InFlight, NewHandle, NoRenewer, Shape, TypeOK
<1>3. \A t \in Threads : IF HandleOf[t] = h THEN ~Starting(t)' ELSE Starting(t)' = Starting(t)
  BY DEF Starting, IdleThread
<1>4. Baton'
  BY <1>2, <1>3 DEF Baton
<1> QED BY <1>1, <1>4

LEMMA EnvironmentRenewal ==
    ASSUME RenewalInv, Environment
    PROVE  FreeAlone' /\ Baton'
<1> USE Constants
<1>1. CASE UNCHANGED <<app, sdk, renewer>>
  BY <1>1, QuietKeeps DEF RenewalInv, FreeAlone, Quiet, Starting, Busy, InFlight
<1>2. ASSUME NEW h \in Handles, Crash(h) PROVE FreeAlone' /\ Baton'
  <2>1. \A t \in Threads : app'[t] = IF HandleOf[t] = h THEN IdleThread ELSE app[t]
    BY <1>2 DEF Crash
  <2> QED BY <1>2, <2>1, ResetKeeps DEF Crash
<1> QED BY <1>1, <1>2 DEF Environment, Tick, ServeLate, Revoke, Serve, TimeOut, local

\* The renewal is started: the baton is taken, handed over, or dropped.
LEMMA RenewStartRenewal ==
    ASSUME RenewalInv, NEW t \in Threads, RenewStart(t)
    PROVE  FreeAlone' /\ Baton'
<1> USE Constants DEF RenewalInv, Shape
<1> DEFINE h == HandleOf[t]
<1>0. h \in Handles
  OBVIOUS
<1>1. CASE TryRenew(t)
  <2>1. app[t].pc = "try" /\ UNCHANGED renewer
    BY <1>1 DEF TryRenew
  <2>2. CASE ShouldTryRenew(h, app[t].lic)
    <3>1. Goto(t, "join") /\ sdk' = [sdk EXCEPT ![h] = MarkInFlight(@, clock)] /\ ~InFlight(h)
      BY <1>1, <2>2 DEF TryRenew, ShouldTryRenew, InFlight
    <3>2. /\ InFlight(h)' /\ \A g \in Handles : g # h => InFlight(g)' = InFlight(g)
          /\ \A g \in Handles : Busy(g)' = Busy(g)
      BY <1>0, <2>1, <3>1 DEF InFlight, Busy, MarkInFlight, TypeOK, HandleState
    <3>3. Starting(t)' /\ \A u \in Threads : u # t => Starting(u)' = Starting(u)
      BY <3>1, GotoThread DEF Starting, AppPcs
    <3>4. ~Busy(h) /\ \A u \in Threads : HandleOf[u] = h => ~Starting(u)
      BY <1>0, <3>1 DEF Baton
    <3>5. Baton'
      BY <1>0, <3>2, <3>3, <3>4 DEF Baton
    <3>6. OrdinaryStep(t)
      BY <2>1, <3>1, GotoThread DEF OrdinaryStep, AppPcs, FreeAlone
    <3> QED BY <3>5, <3>6, OrdinaryStepKeeps
  <2>3. CASE ~ShouldTryRenew(h, app[t].lic)
    <3>1. Goto(t, "fresh") /\ UNCHANGED sdk
      BY <1>1, <2>3 DEF TryRenew
    <3>2. Quiet
      BY <2>1, <3>1, GotoThread DEF Quiet, Starting, Busy, InFlight, AppPcs
    <3>3. OrdinaryStep(t)
      BY <2>1, <3>1, GotoThread DEF OrdinaryStep, AppPcs, FreeAlone
    <3> QED BY <3>2, <3>3, QuietKeeps, OrdinaryStepKeeps
  <2> QED BY <2>2, <2>3
<1>2. CASE JoinRenewer(t)
  <2>1. /\ app[t].pc = "join" /\ Goto(t, "spawn") /\ ~Busy(h) /\ UNCHANGED sdk
        /\ renewer' = [renewer EXCEPT ![h] = NoRenewer]
    BY <1>2 DEF JoinRenewer, Joinable, Busy
  <2>2. \A g \in Handles : Busy(g)' = Busy(g) /\ InFlight(g)' = InFlight(g)
    BY <1>0, <2>1 DEF Busy, InFlight, NoRenewer, TypeOK
  <2>3. \A u \in Threads : Starting(u)' = Starting(u)
    BY <2>1, GotoThread DEF Starting, AppPcs
  <2>4. Quiet
    BY <2>2, <2>3 DEF Quiet
  <2>5. OrdinaryStep(t)
    BY <2>1, GotoThread DEF OrdinaryStep, AppPcs, FreeAlone
  <2> QED BY <2>4, <2>5, QuietKeeps, OrdinaryStepKeeps
<1>3. CASE SpawnRenewer(t)
  <2>1. /\ app[t].pc = "spawn" /\ Goto(t, "fresh") /\ UNCHANGED sdk
        /\ renewer' = [renewer EXCEPT ![h] =
                        [NoRenewer EXCEPT !.pc = "await", !.aid = app[t].lic.activation_id]]
    BY <1>3 DEF SpawnRenewer
  <2>2. /\ Busy(h)' /\ \A g \in Handles : g # h => Busy(g)' = Busy(g)
        /\ \A g \in Handles : InFlight(g)' = InFlight(g)
    BY <1>0, <2>1 DEF Busy, InFlight, NoRenewer, TypeOK
  <2>3. Starting(t) /\ ~Starting(t)' /\ \A u \in Threads : u # t => Starting(u)' = Starting(u)
    BY <2>1, GotoThread DEF Starting, AppPcs
  <2>4. Baton'
    BY <1>0, <2>2, <2>3 DEF Baton
  <2>5. OrdinaryStep(t)
    BY <2>1, GotoThread DEF OrdinaryStep, AppPcs, FreeAlone
  <2> QED BY <2>4, <2>5, OrdinaryStepKeeps
<1>4. CASE SpawnFails(t)
  <2>1. /\ app[t].pc = "spawn" /\ Goto(t, "fresh") /\ UNCHANGED renewer
        /\ sdk' = [sdk EXCEPT ![h].renew_in_flight = FALSE]
    BY <1>4 DEF SpawnFails
  <2>2. /\ ~InFlight(h)' /\ \A g \in Handles : g # h => InFlight(g)' = InFlight(g)
        /\ \A g \in Handles : Busy(g)' = Busy(g)
    BY <1>0, <2>1 DEF InFlight, Busy, TypeOK, HandleState
  <2>3. Starting(t) /\ ~Starting(t)' /\ \A u \in Threads : u # t => Starting(u)' = Starting(u)
    BY <2>1, GotoThread DEF Starting, AppPcs
  <2>4. Baton'
    BY <1>0, <2>2, <2>3 DEF Baton
  <2>5. OrdinaryStep(t)
    BY <2>1, GotoThread DEF OrdinaryStep, AppPcs, FreeAlone
  <2> QED BY <2>4, <2>5, OrdinaryStepKeeps
<1> QED BY <1>1, <1>2, <1>3, <1>4 DEF RenewStart

\* What latte_check, latte_activate and latte_deactivate do of their own says
\* nothing of a renewal.
CallStep(t) ==
    \/ Check(t) \/ CheckStep(t) \/ (\E k \in Keys : Activate(t, k)) \/ ActivateStep(t)
    \/ Deactivate(t) \/ DeactivateStep(t)

LEMMA CallStepApp ==
    ASSUME RenewalInv, NEW t \in Threads, CallStep(t)
    PROVE  /\ OrdinaryStep(t) /\ UNCHANGED renewer
           /\ ~Starting(t) /\ ~Starting(t)'
           /\ sdk' = sdk \/ sdk' = [sdk EXCEPT ![HandleOf[t]].renew_failed = FALSE]
<1> USE Constants DEF RenewalInv, Shape
<1>1. \A u \in Threads : u # t => app'[u] = app[u]
  <2>1. \E a : app' = [app EXCEPT ![t] = a]
    BY DEF CallStep, Check, CheckStep, CheckVerify, CheckFresh, DomainToPublic, Activate,
       ActivateStep, ActivateVerify, ActivateMatch, ActivateRequest, ActivateReply,
       ActivateSave, Deactivate, DeactivateStep, DeactivateReply, DeactivateClear,
       Goto, Return
  <2> QED BY <2>1 DEF TypeOK
<1>2. /\ UNCHANGED renewer
      /\ sdk' = sdk \/ sdk' = [sdk EXCEPT ![HandleOf[t]].renew_failed = FALSE]
  BY DEF CallStep, Check, CheckStep, CheckVerify, CheckFresh, DomainToPublic, Activate,
     ActivateStep, ActivateVerify, ActivateMatch, ActivateRequest, ActivateReply,
     ActivateSave, Deactivate, DeactivateStep, DeactivateReply, DeactivateClear
<1>3. /\ app[t].pc \notin {"join", "spawn", "free"}
      /\ app[t].pc = "idle" => CanCall(t)
      /\ app[t].pc # "idle" => app[t].op # "free"
  BY DEF CallStep, Check, CheckStep, CheckVerify, CheckFresh, DomainToPublic, Activate,
     ActivateStep, ActivateVerify, ActivateMatch, ActivateRequest, ActivateReply,
     ActivateSave, Deactivate, DeactivateStep, DeactivateReply, DeactivateClear,
     CanCall, FreeAlone
<1>4. app'[t].pc \notin {"join", "spawn", "free"} /\ app'[t].op # "free"
  <2>1. CASE Check(t)
    <3> DEFINE start == [IdleThread EXCEPT !.pc = "verify", !.op = "check", !.lic = cache]
    <3>1. app' = [app EXCEPT ![t] = IdleThread] \/ app' = [app EXCEPT ![t] = start]
      BY <2>1 DEF Check, Return
    <3>2. /\ IdleThread.pc = "idle" /\ IdleThread.op = "none"
          /\ start.pc = "verify" /\ start.op = "check"
      BY DEF IdleThread
    <3> HIDE DEF start
    <3> QED BY <3>1, <3>2 DEF TypeOK
  <2>2. CASE CheckVerify(t)
    <3>1. \/ app' = [app EXCEPT ![t].pc = "try", ![t].valid = Verdict(app[t].lic) = "OK"]
          \/ app' = [app EXCEPT ![t] = IdleThread]
      BY <2>2 DEF CheckVerify, Return
    <3>2. (app'[t].pc = "try" /\ app'[t].op = app[t].op) \/ app'[t] = IdleThread
      <4> HIDE DEF Verdict
      <4> QED BY <3>1 DEF TypeOK, AppState
    <3> QED BY <1>3, <2>2, <3>2 DEF IdleThread, CheckVerify
  <2>3. CASE CheckFresh(t)
    BY <1>3, <2>3, GotoThread DEF CheckFresh, Return, IdleThread, AppPcs, TypeOK
  <2>4. CASE DomainToPublic(t)
    BY <2>4 DEF DomainToPublic, IdleThread, TypeOK
  <2>5. CASE \E k \in Keys : Activate(t, k)
    BY <2>5 DEF Activate, IdleThread, TypeOK
  <2>6. CASE ActivateVerify(t)
    BY <1>3, <2>6, GotoThread DEF ActivateVerify, AppPcs
  <2>7. CASE ActivateMatch(t)
    BY <1>3, <2>7, GotoThread DEF ActivateMatch, AppPcs
  <2>8. CASE ActivateRequest(t)
    BY <1>3, <2>8, GotoThread DEF ActivateRequest, AppPcs
  <2>9. CASE ActivateReply(t)
    <3>1. \/ app' = [app EXCEPT ![t].pc = "save", ![t].lic = call[t].reply.token]
          \/ app' = [app EXCEPT ![t] = IdleThread]
      BY <2>9 DEF ActivateReply, Return
    <3>2. (app'[t].pc = "save" /\ app'[t].op = app[t].op) \/ app'[t] = IdleThread
      BY <3>1 DEF TypeOK, AppState
    <3> QED BY <1>3, <2>9, <3>2 DEF IdleThread, ActivateReply
  <2>10. CASE ActivateSave(t)
    BY <1>3, <2>10, GotoThread DEF ActivateSave, AppPcs
  <2>11. CASE Deactivate(t)
    <3> DEFINE start == [IdleThread EXCEPT !.pc = "await", !.op = "deactivate", !.lic = cache]
    <3>1. app' = [app EXCEPT ![t] = IdleThread] \/ app' = [app EXCEPT ![t] = start]
      BY <2>11 DEF Deactivate, Return
    <3>2. /\ IdleThread.pc = "idle" /\ IdleThread.op = "none"
          /\ start.pc = "await" /\ start.op = "deactivate"
      BY DEF IdleThread
    <3> HIDE DEF start
    <3> QED BY <3>1, <3>2 DEF TypeOK
  <2>12. CASE DeactivateReply(t)
    BY <1>3, <2>12, GotoThread DEF DeactivateReply, Return, IdleThread, AppPcs, TypeOK
  <2>13. CASE DeactivateClear(t)
    BY <2>13 DEF DeactivateClear, Return, IdleThread, TypeOK
  <2> QED BY <2>1, <2>2, <2>3, <2>4, <2>5, <2>6, <2>7, <2>8, <2>9, <2>10, <2>11, <2>12,
            <2>13 DEF CallStep, CheckStep, ActivateStep, DeactivateStep
<1> QED BY <1>1, <1>2, <1>3, <1>4 DEF OrdinaryStep, Starting

LEMMA CallStepRenewal ==
    ASSUME RenewalInv, NEW t \in Threads, CallStep(t)
    PROVE  FreeAlone' /\ Baton'
<1> USE Constants DEF RenewalInv, Shape
<1>1. \A u \in Threads : Starting(u)' = Starting(u)
  BY CallStepApp DEF OrdinaryStep, Starting
<1>2. \A h \in Handles : Busy(h)' = Busy(h)
  BY CallStepApp DEF Busy
<1>3. \A h \in Handles : InFlight(h)' = InFlight(h)
  <2>1. sdk' = sdk \/ sdk' = [sdk EXCEPT ![HandleOf[t]].renew_failed = FALSE]
    BY CallStepApp
  <2> QED BY <2>1 DEF InFlight, TypeOK, HandleState
<1> QED BY <1>1, <1>2, <1>3, CallStepApp, QuietKeeps, OrdinaryStepKeeps DEF Quiet

\* latte_free waits for the thread, then the handle starts again.
LEMMA FreeRenewal ==
    ASSUME RenewalInv, NEW t \in Threads, Free(t) \/ FreeJoin(t)
    PROVE  FreeAlone' /\ Baton'
<1> USE Constants DEF RenewalInv, Shape
<1>1. CASE Free(t)
  <2>1. /\ app[t].pc = "idle" /\ app'[t].pc = "free" /\ app'[t].op = "free"
        /\ \A u \in Threads : u # t => app'[u] = app[u]
        /\ \A u \in Threads : HandleOf[u] = HandleOf[t] => app[u].pc = "idle"
        /\ UNCHANGED <<sdk, renewer>>
    BY <1>1 DEF Free, TypeOK, AppState
  <2>2. FreeAlone'
    BY <2>1 DEF FreeAlone
  <2>3. Quiet
    BY <2>1 DEF Quiet, Starting, Busy, InFlight
  <2> QED BY <2>2, <2>3, QuietKeeps
<1>2. CASE FreeJoin(t)
  <2> DEFINE h == HandleOf[t]
  <2>1. h \in Handles /\ Reset(h) /\ app' = [app EXCEPT ![t] = IdleThread] /\ app[t].pc = "free"
    BY <1>2 DEF FreeJoin
  <2>2. app'[t] = IdleThread /\ \A u \in Threads : u # t => app'[u] = app[u]
    BY <2>1 DEF TypeOK
  <2>3. \A u \in Threads : u # t /\ HandleOf[u] = h => app[u].pc = "idle"
    BY <2>1 DEF FreeAlone
  <2>4. /\ \A g \in Handles : g # h => Busy(g)' = Busy(g) /\ InFlight(g)' = InFlight(g)
        /\ ~Busy(h)' /\ ~InFlight(h)'
    BY <2>1 DEF Reset, Busy, InFlight, NewHandle, NoRenewer, TypeOK
  <2>5. \A u \in Threads : IF HandleOf[u] = h THEN ~Starting(u)' ELSE Starting(u)' = Starting(u)
    BY <2>2, <2>3 DEF Starting, IdleThread
  <2>6. Baton'
    BY <2>4, <2>5 DEF Baton
  <2>7. FreeAlone'
    BY <2>1, <2>2, <2>3 DEF FreeAlone, IdleThread
  <2> QED BY <2>6, <2>7
<1> QED BY <1>1, <1>2

\* The renewal thread keeps the baton until its last step.
LEMMA RenewerRenewal ==
    ASSUME RenewalInv, NEW h \in Handles, RenewerStep(h)
    PROVE  FreeAlone' /\ Baton'
<1> USE Constants DEF RenewalInv, Shape
<1>0. UNCHANGED app
  BY DEF RenewerStep, RenewReply, RenewLock, RenewWipe, RenewStore, RenewDone
<1>1. FreeAlone' /\ \A t \in Threads : Starting(t)' = Starting(t)
  BY <1>0 DEF FreeAlone, Starting
<1>2. CASE RenewReply(h) \/ RenewLock(h) \/ RenewWipe(h) \/ RenewStore(h)
  <2>1. /\ renewer[h].pc \in {"await", "lock", "wipe", "store"}
        /\ \A g \in Handles : g # h => renewer'[g] = renewer[g]
    <3>1. \E r : renewer' = [renewer EXCEPT ![h] = r]
      BY <1>2 DEF RenewReply, RenewLock, RenewWipe, RenewStore
    <3> QED BY <1>2, <3>1 DEF RenewReply, RenewLock, RenewWipe, RenewStore, TypeOK
  <2>2. renewer'[h].pc \in {"lock", "wipe", "store", "done"}
    <3>1. CASE RenewReply(h)
      <4>1. PICK e, tok : renewer' = [renewer EXCEPT
                            ![h].pc = "lock", ![h].error = e, ![h].token = tok]
        BY <3>1 DEF RenewReply
      <4> QED BY <4>1 DEF TypeOK, RenewerState
    <3>2. CASE RenewLock(h)
      <4>1. AfterLock(renewer[h].error) \in {"store", "wipe", "done"}
        BY DEF AfterLock
      <4>2. PICK pc \in {"store", "wipe", "done"} : renewer' = [renewer EXCEPT ![h].pc = pc]
        BY <3>2, <4>1 DEF RenewLock
      <4> QED BY <4>2 DEF TypeOK, RenewerState
    <3>3. CASE RenewWipe(h) \/ RenewStore(h)
      BY <3>3 DEF RenewWipe, RenewStore, TypeOK, RenewerState
    <3> QED BY <1>2, <3>1, <3>2, <3>3
  <2>3. \A g \in Handles : Busy(g)' = Busy(g)
    BY <2>1, <2>2 DEF Busy
  <2>4. \A g \in Handles : InFlight(g)' = InFlight(g)
    <3>1. PICK b : sdk' = sdk \/ sdk' = [sdk EXCEPT ![h].renew_failed = b]
      BY <1>2 DEF RenewReply, RenewLock, RenewWipe, RenewStore
    <3> QED BY <3>1 DEF InFlight, TypeOK, HandleState
  <2> QED BY <1>1, <2>3, <2>4, QuietKeeps DEF Quiet
<1>3. CASE RenewDone(h)
  <2>1. /\ Busy(h) /\ ~Busy(h)' /\ ~InFlight(h)'
        /\ \A g \in Handles : g # h => Busy(g)' = Busy(g) /\ InFlight(g)' = InFlight(g)
    BY <1>3 DEF RenewDone, Busy, InFlight, NoRenewer, TypeOK, HandleState
  <2>2. \A t \in Threads : Starting(t) => HandleOf[t] # h
    BY <2>1 DEF Baton
  <2>3. Baton'
    BY <1>1, <2>1, <2>2 DEF Baton
  <2> QED BY <1>1, <2>3
<1> QED BY <1>2, <1>3 DEF RenewerStep

LEMMA RenewalStep == RenewalInv /\ [Next]_vars => RenewalInv'
<1> SUFFICES ASSUME RenewalInv, [Next]_vars PROVE FreeAlone' /\ Baton'
  BY ShapeStep DEF RenewalInv
<1>1. CASE Environment
  BY <1>1, EnvironmentRenewal
<1>2. ASSUME NEW t \in Threads, Begin(t) \/ Continue(t) PROVE FreeAlone' /\ Baton'
  BY <1>2, CallStepRenewal, RenewStartRenewal, FreeRenewal DEF Begin, Continue, CallStep
<1>3. ASSUME NEW h \in Handles, RenewerStep(h) PROVE FreeAlone' /\ Baton'
  BY <1>3, RenewerRenewal
<1>4. CASE UNCHANGED vars
  <2>1. Quiet
    BY <1>4 DEF Quiet, Starting, Busy, InFlight, vars
  <2> QED BY <1>4, <2>1, QuietKeeps DEF RenewalInv, FreeAlone, vars
<1> QED BY <1>1, <1>2, <1>3, <1>4 DEF Next

\* renew_in_flight is set exactly while one thread carries a renewal of the
\* handle, whatever the number of threads that call latte_check at once
\* (latte.c:162-178, 264-266, 275-297).
THEOREM OneRenewal == Spec => []OneRenewalAtATime
<1>1. RenewalInv => OneRenewalAtATime
  BY BatonMeans DEF RenewalInv
<1> QED BY <1>1, RenewalInit, RenewalStep, PTL DEF Spec

\* latte_check never waits for a renewal thread (latte.c:281).
THEOREM JoinIsImmediate == Spec => []JoinNeverWaits
<1>1. RenewalInv => JoinNeverWaits
  BY BatonMeans DEF RenewalInv
<1> QED BY <1>1, RenewalInit, RenewalStep, PTL DEF Spec

-----------------------------------------------------------------------------
OneHandle == \A g, h \in Handles : g = h

\* What a step that spares the cache does to the renewal threads: they stay as
\* they are, or are outside their critical section afterwards.
LeavesSection ==
    \A h \in Handles : renewer'[h] = renewer[h] \/ renewer'[h].pc \notin {"store", "wipe"}

\* No API call writes the cache inside the critical section of the renewal
\* thread of the only handle: both that write it take renew_mu.
LEMMA CallSpares ==
    ASSUME OneHandle, Shape, NEW t \in Threads, Begin(t) \/ Continue(t)
    PROVE  /\ LeavesSection
           /\ UNCHANGED cache \/ \A h \in Handles : UNCHANGED renewer /\ MutexFree(h)
<1> USE Constants
<1> DEFINE h == HandleOf[t]
<1>0. h \in Handles /\ TypeOK
  BY DEF Shape
<1>1. ASSUME NEW r, r.pc \notin {"store", "wipe"}, renewer' = [renewer EXCEPT ![h] = r]
      PROVE  LeavesSection
  BY <1>0, <1>1 DEF LeavesSection, TypeOK
<1>2. CASE UNCHANGED renewer
  <2>1. CASE ActivateSave(t) \/ DeactivateClear(t)
    <3>1. MutexFree(h)
      BY <2>1 DEF ActivateSave, DeactivateClear
    <3> QED BY <1>0, <1>2, <3>1 DEF OneHandle, LeavesSection
  <2>2. CASE ~(ActivateSave(t) \/ DeactivateClear(t))
    <3>1. UNCHANGED cache
      BY <2>2 DEF Begin, Continue, Check, Activate, Deactivate, Free, CheckStep, RenewStart,
         ActivateStep, DeactivateStep, FreeJoin, CheckVerify, CheckFresh, DomainToPublic,
         TryRenew, JoinRenewer, SpawnRenewer, SpawnFails, ActivateVerify, ActivateMatch,
         ActivateRequest, ActivateReply, DeactivateReply
    <3> QED BY <1>2, <3>1 DEF LeavesSection
  <2> QED BY <2>1, <2>2
<1>3. CASE JoinRenewer(t) \/ FreeJoin(t)
  <2>1. renewer' = [renewer EXCEPT ![h] = NoRenewer] /\ UNCHANGED cache
    BY <1>3 DEF JoinRenewer, FreeJoin, Reset
  <2> QED BY <1>1, <2>1 DEF NoRenewer
<1>4. CASE SpawnRenewer(t)
  <2> DEFINE r == [NoRenewer EXCEPT !.pc = "await", !.aid = app[t].lic.activation_id]
  <2>1. renewer' = [renewer EXCEPT ![h] = r] /\ UNCHANGED cache
    BY <1>4 DEF SpawnRenewer
  <2>2. r.pc = "await"
    BY DEF NoRenewer
  <2> HIDE DEF r
  <2> QED BY <1>1, <2>1, <2>2
<1>5. UNCHANGED renewer \/ JoinRenewer(t) \/ FreeJoin(t) \/ SpawnRenewer(t)
  BY DEF Begin, Continue, Check, Activate, Deactivate, Free, CheckStep, RenewStart,
     ActivateStep, DeactivateStep, CheckVerify, CheckFresh, DomainToPublic,
     TryRenew, SpawnFails, ActivateVerify, ActivateMatch, ActivateRequest, ActivateReply,
     ActivateSave, DeactivateReply, DeactivateClear
<1> QED BY <1>2, <1>3, <1>4, <1>5

\* The only renewal thread enters its critical section when the cache holds its
\* activation, and writes the cache as it leaves.
LEMMA RenewerSpares ==
    ASSUME OneHandle, Shape, NEW h \in Handles, RenewerStep(h)
    PROVE  /\ renewer'[h].pc \in {"store", "wipe"} =>
                HoldsActivation(renewer'[h].aid) /\ UNCHANGED cache
           /\ \A g \in Handles : g = h
<1>0. TypeOK
  BY DEF Shape
<1>1. CASE RenewReply(h)
  <2>1. renewer'[h].pc = "lock"
    BY <1>0, <1>1 DEF RenewReply, TypeOK, RenewerState
  <2> QED BY <2>1 DEF OneHandle
<1>2. CASE RenewLock(h)
  <2>1. CASE HoldsActivation(renewer[h].aid)
    <3>1. PICK pc \in RenewerPcs : renewer' = [renewer EXCEPT ![h].pc = pc]
      BY <1>2, <2>1 DEF RenewLock, AfterLock, RenewerPcs
    <3>2. UNCHANGED cache
      BY <1>2 DEF RenewLock
    <3> QED BY <1>0, <2>1, <3>1, <3>2, GotoRenewer DEF OneHandle
  <2>2. CASE ~HoldsActivation(renewer[h].aid)
    <3>1. renewer' = [renewer EXCEPT ![h].pc = "done"]
      BY <1>2, <2>2 DEF RenewLock
    <3> QED BY <1>0, <3>1, GotoRenewer DEF RenewerPcs, OneHandle
  <2> QED BY <2>1, <2>2
<1>3. CASE RenewWipe(h) \/ RenewStore(h)
  <2>1. renewer' = [renewer EXCEPT ![h].pc = "done"]
    BY <1>3 DEF RenewWipe, RenewStore
  <2> QED BY <1>0, <2>1, GotoRenewer DEF RenewerPcs, OneHandle
<1>4. CASE RenewDone(h)
  <2>1. renewer'[h].pc = "exited"
    BY <1>0, <1>4 DEF RenewDone, TypeOK, NoRenewer
  <2> QED BY <2>1 DEF OneHandle
<1> QED BY <1>1, <1>2, <1>3, <1>4 DEF RenewerStep, OneHandle

\* Every step keeps the renewal thread's section its own.
LEMMA OwnWritesStep ==
    ASSUME OneHandle, Shape, RenewalWritesOnlyItsOwn, [Next]_vars
    PROVE  RenewalWritesOnlyItsOwn'
<1>1. CASE LeavesSection /\ UNCHANGED cache
  BY <1>1 DEF LeavesSection, RenewalWritesOnlyItsOwn, HoldsActivation
<1>2. CASE Environment
  <2>1. UNCHANGED cache
    BY <1>2 DEF Environment, Tick, ServeLate, Revoke, Serve, TimeOut, Crash
  <2>2. LeavesSection
    <3>1. ASSUME NEW g \in Handles, Crash(g) PROVE LeavesSection
      BY <3>1 DEF Crash, Reset, LeavesSection, NoRenewer, Shape, TypeOK
    <3>2. CASE UNCHANGED renewer
      BY <3>2 DEF LeavesSection
    <3> QED
      BY <1>2, <3>1, <3>2 DEF Environment, Tick, ServeLate, Revoke, Serve, TimeOut, local
  <2> QED BY <1>1, <2>1, <2>2
<1>3. ASSUME NEW t \in Threads, Begin(t) \/ Continue(t) PROVE RenewalWritesOnlyItsOwn'
  <2>1. CASE \A h \in Handles : UNCHANGED renewer /\ MutexFree(h)
    BY <2>1 DEF RenewalWritesOnlyItsOwn, MutexFree
  <2> QED BY <1>1, <1>3, <2>1, CallSpares
<1>4. ASSUME NEW h \in Handles, RenewerStep(h) PROVE RenewalWritesOnlyItsOwn'
  BY <1>4, RenewerSpares DEF RenewalWritesOnlyItsOwn, HoldsActivation
<1>5. CASE UNCHANGED vars
  BY <1>1, <1>5 DEF LeavesSection, vars
<1> QED BY <1>2, <1>3, <1>4, <1>5 DEF Next

\* When one handle uses the cache file, its renewal thread saves or wipes only
\* while the cache holds the activation it renewed, for any number of threads
\* and whatever fails (latte.c:223-228, 251-256).  With a second handle it does
\* not, and ReleaseIsFinal fails (MCSdk_v_processes.cfg).
THEOREM OwnWrites ==
    ASSUME OneHandle
    PROVE  Spec => []RenewalWritesOnlyItsOwn
<1>1. Init => RenewalWritesOnlyItsOwn
  BY DEF Init, RenewalWritesOnlyItsOwn, NoRenewer
<1>2. Shape /\ RenewalWritesOnlyItsOwn /\ [Next]_vars => RenewalWritesOnlyItsOwn'
  BY OwnWritesStep
<1> QED BY <1>1, <1>2, InitShape, ShapeStep, PTL DEF Spec

-----------------------------------------------------------------------------
\* The flag is about the cached activation while renew_mu is free, and is down
\* when the renewal thread is about to empty the cache.
FlagInv ==
    /\ RenewFailedIsCurrent
    /\ \A h \in Handles : renewer[h].pc = "wipe" => ~sdk[h].renew_failed

\* A step that is not about the cache or the flag, and neither enters nor
\* leaves a renewal thread's section.
FlagUntouched ==
    /\ UNCHANGED <<cache, history>>
    /\ \A h \in Handles :
        /\ sdk'[h].renew_failed = sdk[h].renew_failed
        /\ MutexFree(h)' => MutexFree(h)
        /\ renewer'[h].pc = "wipe" => renewer[h].pc = "wipe"

LEMMA FlagUntouchedKeeps == FlagInv /\ FlagUntouched => FlagInv'
BY DEF FlagInv, FlagUntouched, RenewFailedIsCurrent

\* A step after which the flag of the only handle is down.
LEMMA FlagDownKeeps ==
    ASSUME OneHandle, NEW h \in Handles, sdk'[h].renew_failed = FALSE
    PROVE  FlagInv'
BY DEF OneHandle, FlagInv, RenewFailedIsCurrent

LEMMA ResetFlag ==
    ASSUME OneHandle, TypeOK, NEW h \in Handles, Reset(h)
    PROVE  FlagInv'
<1>1. sdk'[h].renew_failed = FALSE
  BY DEF Reset, NewHandle, TypeOK
<1> QED BY <1>1, FlagDownKeeps

\* The API calls: two of them clear the flag, both under renew_mu.
LEMMA CallFlag ==
    ASSUME OneHandle, RenewalInv, FlagInv, NEW t \in Threads, Begin(t) \/ Continue(t)
    PROVE  FlagInv'
<1> USE Constants DEF RenewalInv, Shape
<1> DEFINE h == HandleOf[t]
<1>0. h \in Handles
  OBVIOUS
<1>1. CASE ActivateSave(t) \/ DeactivateClear(t)
  <2>1. sdk' = [sdk EXCEPT ![h].renew_failed = FALSE]
    BY <1>1 DEF ActivateSave, DeactivateClear
  <2>2. sdk'[h].renew_failed = FALSE
    BY <1>0, <2>1 DEF TypeOK, HandleState
  <2> QED BY <1>0, <2>2, FlagDownKeeps
<1>2. CASE FreeJoin(t)
  BY <1>0, <1>2, ResetFlag DEF FreeJoin
<1>3. CASE RenewStart(t)
  <2>1. UNCHANGED <<cache, history>>
    BY <1>3 DEF RenewStart, TryRenew, JoinRenewer, SpawnRenewer, SpawnFails
  <2>2. \A g \in Handles : sdk'[g].renew_failed = sdk[g].renew_failed
    <3>1. \/ UNCHANGED sdk
          \/ sdk' = [sdk EXCEPT ![h] = MarkInFlight(sdk[h], clock)]
          \/ sdk' = [sdk EXCEPT ![h].renew_in_flight = FALSE]
      BY <1>0, <1>3 DEF RenewStart, TryRenew, JoinRenewer, SpawnRenewer, SpawnFails, TypeOK
    <3>2. sdk[h] \in HandleState
      BY <1>0 DEF TypeOK
    <3>3. ASSUME NEW handle, handle.renew_failed = sdk[h].renew_failed,
                 sdk' = [sdk EXCEPT ![h] = handle]
          PROVE  \A g \in Handles : sdk'[g].renew_failed = sdk[g].renew_failed
      BY <1>0, <3>3 DEF TypeOK
    <3>4. MarkInFlight(sdk[h], clock).renew_failed = sdk[h].renew_failed
      BY <3>2 DEF MarkInFlight, HandleState
    <3>5. [sdk[h] EXCEPT !.renew_in_flight = FALSE].renew_failed = sdk[h].renew_failed
      BY <3>2 DEF HandleState
    <3>6. CASE sdk' = [sdk EXCEPT ![h].renew_in_flight = FALSE]
      <4>1. sdk' = [sdk EXCEPT ![h] = [sdk[h] EXCEPT !.renew_in_flight = FALSE]]
        BY <1>0, <3>6 DEF TypeOK
      <4> QED BY <3>3, <3>5, <4>1
    <3> QED BY <3>1, <3>3, <3>4, <3>6
  <2>3. CASE UNCHANGED renewer
    BY <2>1, <2>2, <2>3, FlagUntouchedKeeps DEF FlagUntouched, MutexFree
  <2>4. CASE JoinRenewer(t) \/ SpawnRenewer(t)
    <3>1. ~Busy(h)
      BY <2>4 DEF JoinRenewer, SpawnRenewer, Baton, Starting
    <3>2. \A g \in Handles : g = h
      BY <1>0 DEF OneHandle
    <3>3. renewer'[h].pc \in {"none", "await"}
      <4> DEFINE spawned == [NoRenewer EXCEPT
                              !.pc = "await", !.aid = app[t].lic.activation_id]
      <4>1. \/ renewer' = [renewer EXCEPT ![h] = NoRenewer]
            \/ renewer' = [renewer EXCEPT ![h] = spawned]
        BY <2>4 DEF JoinRenewer, SpawnRenewer
      <4>2. NoRenewer.pc = "none" /\ spawned.pc = "await"
        BY DEF NoRenewer
      <4> HIDE DEF spawned
      <4> QED BY <1>0, <4>1, <4>2 DEF TypeOK
    <3> QED BY <2>1, <2>2, <3>1, <3>2, <3>3, FlagUntouchedKeeps
            DEF FlagUntouched, MutexFree, Busy
  <2> QED BY <1>3, <2>3, <2>4 DEF RenewStart, TryRenew, SpawnFails
<1>4. CASE ~(ActivateSave(t) \/ DeactivateClear(t) \/ FreeJoin(t) \/ RenewStart(t))
  <2>1. UNCHANGED <<cache, history, sdk, renewer>>
    BY <1>4 DEF Begin, Continue, Check, Activate, Deactivate, Free, CheckStep,
       ActivateStep, DeactivateStep, CheckVerify, CheckFresh, DomainToPublic,
       ActivateVerify, ActivateMatch, ActivateRequest, ActivateReply, DeactivateReply
  <2> QED BY <2>1, FlagUntouchedKeeps DEF FlagUntouched, MutexFree
<1> QED BY <1>1, <1>2, <1>3, <1>4

\* The renewal thread raises the flag for the activation it finds in the cache,
\* and takes it down before it writes the cache.
LEMMA RenewerFlag ==
    ASSUME OneHandle, Shape, FlagInv, NEW h \in Handles, RenewerStep(h)
    PROVE  FlagInv'
<1> USE DEF Shape
<1>0. \A g \in Handles : g = h
  BY DEF OneHandle
<1>1. CASE RenewReply(h)
  <2>1. /\ renewer[h].pc = "await" /\ renewer'[h].pc = "lock"
        /\ UNCHANGED <<cache, history, sdk>>
    BY <1>1 DEF RenewReply, TypeOK, RenewerState
  <2> QED BY <1>0, <2>1, FlagUntouchedKeeps DEF FlagUntouched, MutexFree
<1>2. CASE RenewLock(h)
  <2> DEFINE r == renewer[h]
             network == r.error = "NETWORK"
  <2>1. /\ r.pc = "lock" /\ UNCHANGED cache
        /\ history'.unreached[h] = IF network THEN history.unreached[h] \cup {r.aid}
                                   ELSE history.unreached[h] \ {r.aid}
    BY <1>2 DEF RenewLock, TypeOK
  <2>2. CASE ~HoldsActivation(r.aid)
    <3>1. renewer' = [renewer EXCEPT ![h].pc = "done"] /\ UNCHANGED sdk
      BY <1>2, <2>2 DEF RenewLock
    <3>2. renewer'[h].pc = "done"
      BY <3>1, GotoRenewer DEF RenewerPcs
    <3>3. sdk[h].renew_failed =>
            cache # NoToken /\ cache.activation_id \in history.unreached[h]
      BY <2>1 DEF FlagInv, RenewFailedIsCurrent, MutexFree
    <3>4. sdk'[h].renew_failed =>
            cache' # NoToken /\ cache'.activation_id \in history'.unreached[h]
      BY <2>1, <2>2, <3>1, <3>3 DEF HoldsActivation
    <3> QED BY <1>0, <3>2, <3>4 DEF FlagInv, RenewFailedIsCurrent
  <2>3. CASE HoldsActivation(r.aid) /\ r.error = "OK"
    <3>1. renewer' = [renewer EXCEPT ![h].pc = "store"]
      <4>1. AfterLock(r.error) = "store"
        BY <2>3 DEF AfterLock, WipingErrors
      <4> QED BY <1>2, <2>3, <4>1 DEF RenewLock
    <3>2. renewer'[h].pc = "store"
      BY <3>1, GotoRenewer DEF RenewerPcs
    <3> QED BY <1>0, <3>2 DEF FlagInv, RenewFailedIsCurrent, MutexFree
  <2>4. CASE HoldsActivation(r.aid) /\ r.error = "NETWORK"
    <3>1. renewer' = [renewer EXCEPT ![h].pc = "done"]
      BY <1>2, <2>4 DEF RenewLock, AfterLock, WipingErrors
    <3>2. renewer'[h].pc = "done"
      BY <3>1, GotoRenewer DEF RenewerPcs
    <3> QED BY <1>0, <2>1, <2>4, <3>2 DEF FlagInv, RenewFailedIsCurrent, HoldsActivation
  <2>5. CASE HoldsActivation(r.aid) /\ r.error \notin {"OK", "NETWORK"}
    <3>1. sdk' = [sdk EXCEPT ![h].renew_failed = FALSE]
      <4>1. sdk' = [sdk EXCEPT ![h].renew_failed = network]
        BY <1>2, <2>5 DEF RenewLock
      <4>2. network = FALSE
        BY <2>5
      <4> HIDE DEF network
      <4> QED BY <4>1, <4>2
    <3>2. sdk'[h].renew_failed = FALSE
      BY <3>1 DEF TypeOK, HandleState
    <3> QED BY <3>2, FlagDownKeeps
  <2> QED BY <2>2, <2>3, <2>4, <2>5
<1>3. CASE RenewWipe(h)
  <2>1. renewer[h].pc = "wipe" /\ UNCHANGED sdk
    BY <1>3 DEF RenewWipe
  <2>2. sdk[h].renew_failed \in BOOLEAN /\ ~sdk[h].renew_failed
    BY <2>1 DEF FlagInv, TypeOK, HandleState
  <2> QED BY <2>1, <2>2, FlagDownKeeps
<1>4. CASE RenewStore(h)
  <2>1. sdk'[h].renew_failed = FALSE
    BY <1>4 DEF RenewStore, TypeOK, HandleState
  <2> QED BY <2>1, FlagDownKeeps
<1>5. CASE RenewDone(h)
  <2>1. /\ renewer[h].pc = "done" /\ renewer'[h].pc = "exited"
        /\ sdk'[h].renew_failed = sdk[h].renew_failed
        /\ UNCHANGED <<cache, history>>
    BY <1>5 DEF RenewDone, NoRenewer, TypeOK, HandleState
  <2> QED BY <1>0, <2>1, FlagUntouchedKeeps DEF FlagUntouched, MutexFree
<1> QED BY <1>1, <1>2, <1>3, <1>4, <1>5 DEF RenewerStep

LEMMA FlagStep ==
    ASSUME OneHandle, RenewalInv, FlagInv, [Next]_vars
    PROVE  FlagInv'
<1>1. CASE UNCHANGED <<cache, sdk, renewer, history>>
  BY <1>1, FlagUntouchedKeeps DEF FlagUntouched, MutexFree
<1>2. ASSUME NEW h \in Handles, Crash(h) PROVE FlagInv'
  BY <1>2, ResetFlag DEF Crash, RenewalInv, Shape
<1>3. CASE Environment
  BY <1>1, <1>2, <1>3 DEF Environment, Tick, ServeLate, Revoke, Serve, TimeOut, local
<1>4. ASSUME NEW t \in Threads, Begin(t) \/ Continue(t) PROVE FlagInv'
  BY <1>4, CallFlag
<1>5. ASSUME NEW h \in Handles, RenewerStep(h) PROVE FlagInv'
  BY <1>5, RenewerFlag DEF RenewalInv
<1>6. CASE UNCHANGED vars
  BY <1>1, <1>6 DEF vars
<1> QED BY <1>3, <1>4, <1>5, <1>6 DEF Next

\* Whenever renew_mu is free, the renew_failed of the handle that uses the cache
\* file is about the activation in it, for any number of threads that activate
\* and deactivate while renewals are under way and whatever fails (latte.c:
\* 40-41, 223-235, 253-256, 513, 587-590).
THEOREM FlagIsCurrent ==
    ASSUME OneHandle
    PROVE  Spec => []RenewFailedIsCurrent
<1>1. Init => FlagInv
  BY DEF Init, FlagInv, RenewFailedIsCurrent, NoRenewer, NewHandle
<1>2. RenewalInv /\ FlagInv /\ [Next]_vars => FlagInv'
  BY FlagStep
<1>3. FlagInv => RenewFailedIsCurrent
  BY DEF FlagInv
<1> QED BY <1>1, <1>2, <1>3, RenewalInit, RenewalStep, PTL DEF Spec
=============================================================================
