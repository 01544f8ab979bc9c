-------------------------------- MODULE Sdk --------------------------------
(***************************************************************************)
(* src/src/latte.c: SDK handles (struct latte_sdk) that share one cache    *)
(* file and one licence server.  Each handle has application threads that  *)
(* call latte_check, latte_activate, latte_deactivate and latte_free, at   *)
(* most one background renewal thread, and a mutex (renew_mu).  A handle   *)
(* stands for a process: two handles are two processes, or two handles of  *)
(* one process, which share nothing but the file.                          *)
(*                                                                         *)
(* One step of the model makes at most one access to what other processes  *)
(* share (the cache file, the server, the clock); the file is read and     *)
(* replaced atomically, which is what storage/file.c provides.             *)
(***************************************************************************)
EXTENDS LicenseServer, Validate, FiniteSets

CONSTANTS
    Handles,      \* latte_sdk handles
    Threads,      \* application threads
    HandleOf,     \* the handle each application thread calls
    LATTE_MIN_RENEWAL_SECS,   \* least time between two renewal attempts
    MaxTime,      \* bound: the clock stops here
    MaxLate       \* bound: requests still travelling after their caller gave up

ASSUME HandleOfAssumption == HandleOf \in [Threads -> Handles]
ASSUME MinRenewalAssumption == LATTE_MIN_RENEWAL_SECS \in Nat
ASSUME MaxTimeAssumption == MaxTime \in Nat \ {0}
ASSUME MaxLateAssumption == MaxLate \in Nat
ASSUME CallersAssumption == Threads \cap Handles = {}

VARIABLES
    clock,     \* time(NULL)
    server,    \* the licence server's state
    late,      \* requests whose caller has given up on them
    cache,     \* the token in the cache file, or NoToken
    call,      \* call[p]: the HTTP call thread p waits for, or NoCall
    app,       \* app[t]: where thread t is in an API call, and its locals
    sdk,       \* sdk[h]: the fields of the handle that renew_mu guards
    renewer,   \* renewer[h]: renew_thread, and where renew_thread_fn is
    result,    \* result[t]: what thread t's last API call returned
    history    \* what the properties remember of the past, see Init

vars == <<clock, server, late, cache, call, app, sdk, renewer, result, history>>

\* A call is made by an application thread, or by the renewal thread of a
\* handle, which goes by the handle's name.
Callers == Threads \cup Handles

NoCall == [kind |-> "none"]
NoReply == [error |-> "pending", token |-> NoToken]
Request(kind, aid, key) ==
    [kind |-> kind, aid |-> aid, key |-> key, reply |-> NoReply]

LongAgo == -LATTE_MIN_RENEWAL_SECS
IdleThread == [pc |-> "idle", op |-> "none", key |-> "none", lic |-> NoToken,
               valid |-> FALSE]
NoResult == [status |-> "none", in_grace_period |-> FALSE]
NoRenewer == [pc |-> "none", aid |-> NoAid, error |-> "OK", token |-> NoToken]

\* latte_new: calloc, then the renewal state set to its initial values.
NewHandle == [renew_in_flight |-> FALSE, last_renew_attempt |-> LongAgo,
              renew_failed |-> FALSE]

Init ==
    /\ clock = 1
    /\ server = ServerInit
    /\ late = {}
    /\ cache = NoToken
    /\ call = [p \in Callers |-> NoCall]
    /\ app = [t \in Threads |-> IdleThread]
    /\ sdk = [h \in Handles |-> NewHandle]
    /\ renewer = [h \in Handles |-> NoRenewer]
    /\ result = [t \in Threads |-> NoResult]
    /\ history = [forgotten |-> {},      \* activations whose release reached the file
                  unreached |->          \* activations whose last renewal attempt could
                    [h \in Handles |-> {}]]   \* not reach the server, with no success since

-----------------------------------------------------------------------------
(***************************************************************************)
(* Helpers.                                                                *)
(***************************************************************************)

\* ll_verify_activation_any, as far as the cached token's life goes: the
\* certificates of the chain expire, the signature never does.  LivesUntilItsEnd
\* of module Verify says why a trusted chain comes down to one end.
Verified(tok) == tok.trusted /\ clock <= tok.chain_end

Verdict(tok) == ValidateAt(tok, ThisMachine, clock)

\* Mutant of RenewableVerdicts: only a valid token is renewed.
OnlyValidIsRenewed == {"OK"}

\* Errors of a token that is still renewed: latte_check, lines 550-551.
RenewableVerdicts == {"OK", "GRACE_PERIOD_EXPIRED", "LICENSE_INACTIVE_OR_EXPIRED",
                      "LICENSE_TOO_OLD"}

\* Mutant of HoldsActivation: any token in the cache will do.
HoldsAnything(aid) == cache # NoToken

\* holds_activation
HoldsActivation(aid) == cache # NoToken /\ cache.activation_id = aid

\* Mutant of MutexFree: renew_mu is not taken.
NoMutex(h) == TRUE

\* The renewal thread is the only one that keeps renew_mu over two steps.
MutexFree(h) == renewer[h].pc \notin {"wipe", "store"}

\* ll_file_save_token writes tok ("" when it is NoToken), or fails.
SaveToken(tok) ==
    \/ cache' = tok
    \/ "save" \in Faults /\ UNCHANGED cache

Goto(t, pc) == app' = [app EXCEPT ![t].pc = pc]
Return(t, status) ==
    /\ app' = [app EXCEPT ![t] = IdleThread]
    /\ result' = [result EXCEPT ![t] = [NoResult EXCEPT !.status = status]]

\* A handle takes calls until latte_free is called on it.
CanCall(t) ==
    /\ app[t].pc = "idle"
    /\ \A u \in Threads : HandleOf[u] = HandleOf[t] => app[u].op # "free"

Send(p, kind, aid, key) == call' = [call EXCEPT ![p] = Request(kind, aid, key)]
HangUp(p) == call' = [call EXCEPT ![p] = NoCall]

-----------------------------------------------------------------------------
(***************************************************************************)
(* The environment: time, the server, the network.                         *)
(***************************************************************************)
local == <<app, sdk, renewer, result, history>>

Tick ==
    /\ clock < MaxTime
    /\ clock' = clock + 1
    /\ UNCHANGED <<server, late, cache, call, local>>

\* The server handles p's request and its reply arrives.
Serve(p) ==
    /\ call[p] # NoCall
    /\ call[p].reply = NoReply
    /\ \E o \in Outcomes(server, call[p], clock) :
        /\ server' = o.server
        /\ call' = [call EXCEPT ![p].reply = o.reply]
    /\ UNCHANGED <<clock, late, cache, local>>

\* A late renewal would change nothing: the server keeps no record of one.
LateRequests(p) ==
    IF call[p] # NoCall /\ call[p].reply = NoReply /\ call[p].kind # "renew"
    THEN {[kind |-> call[p].kind, aid |-> call[p].aid, key |-> call[p].key]}
    ELSE {}

\* A request whose caller is gone is dropped, or is still on its way.
Abandon(p) ==
    \/ UNCHANGED late
    \/ late' = late \cup LateRequests(p) /\ Cardinality(late') <= MaxLate

\* post_json gives up after LATTE_HTTP_TIMEOUT_SECS: a request or a reply is
\* lost, or the answer is not JSON.
TimeOut(p) ==
    /\ "lost" \in Faults
    /\ call[p] # NoCall
    /\ call[p].reply # Refused("NETWORK")
    /\ call' = [call EXCEPT ![p].reply = Refused("NETWORK")]
    /\ Abandon(p)
    /\ UNCHANGED <<clock, server, cache, local>>

\* The server handles a request nobody waits for any more.
ServeLate ==
    /\ \E c \in late : \E o \in Outcomes(server, c, clock) :
        /\ server' = o.server
        /\ late' = late \ {c}
    /\ UNCHANGED <<clock, cache, call, local>>

\* The seller releases the machine's activation of key k.
Revoke(k) ==
    /\ "revoke" \in Faults
    /\ server.active[k] # NoAid
    /\ server' = Release(server, k, clock)
    /\ UNCHANGED <<clock, late, cache, call, local>>

-----------------------------------------------------------------------------
(***************************************************************************)
(* maybe_start_renew, in an application thread at pc "try".  The calls     *)
(* that start a renewal go on at pc "fresh" whatever comes of it.          *)
(***************************************************************************)
\* Mutant of ShouldTryRenew: renew_in_flight is not looked at.
ShouldTryRenewAlways(h, lic) ==
    /\ clock - sdk[h].last_renew_attempt >= LATTE_MIN_RENEWAL_SECS
    /\ Age(lic, clock) >= LATTE_MAX_RENEWAL_SECS

ShouldTryRenew(h, lic) ==
    /\ ~sdk[h].renew_in_flight
    /\ clock - sdk[h].last_renew_attempt >= LATTE_MIN_RENEWAL_SECS
    /\ Age(lic, clock) >= LATTE_MAX_RENEWAL_SECS

MarkInFlight(handle, now) ==
    [handle EXCEPT !.renew_in_flight = TRUE, !.last_renew_attempt = now]

\* should_try_renew
TryRenew(t) == LET h == HandleOf[t] IN
    /\ app[t].pc = "try"
    /\ MutexFree(h)
    /\ IF ShouldTryRenew(h, app[t].lic)
       THEN sdk' = [sdk EXCEPT ![h] = MarkInFlight(@, clock)] /\ Goto(t, "join")
       ELSE UNCHANGED sdk /\ Goto(t, "fresh")
    /\ UNCHANGED <<clock, server, late, cache, call, renewer, result, history>>

\* Mutant of Joinable: a thread that was never started is joined too.
JoinableOnceStarted(h) == renewer[h].pc = "exited"

Joinable(h) == renewer[h].pc \in {"none", "exited"}

\* ll_thread_join: the previous renewal thread, if any, must have ended.
JoinRenewer(t) == LET h == HandleOf[t] IN
    /\ app[t].pc = "join"
    /\ Joinable(h)
    /\ renewer' = [renewer EXCEPT ![h] = NoRenewer]
    /\ Goto(t, "spawn")
    /\ UNCHANGED <<clock, server, late, cache, call, sdk, result, history>>

\* ll_thread_spawn: the new thread starts by sending its request.
SpawnRenewer(t) == LET h == HandleOf[t]  lic == app[t].lic IN
    /\ app[t].pc = "spawn"
    /\ renewer' = [renewer EXCEPT ![h] =
                    [NoRenewer EXCEPT !.pc = "await", !.aid = lic.activation_id]]
    /\ Send(h, "renew", lic.activation_id, lic.key)
    /\ Goto(t, "fresh")
    /\ UNCHANGED <<clock, server, late, cache, sdk, result, history>>

\* Mutant of SpawnFails: the attempt stays in flight.
SpawnFailsInFlight(t) == LET h == HandleOf[t] IN
    /\ app[t].pc = "spawn"
    /\ "spawn" \in Faults
    /\ MutexFree(h)
    /\ Goto(t, "fresh")
    /\ UNCHANGED <<clock, server, late, cache, call, sdk, renewer, result, history>>

\* No memory for the arguments, or no thread: the attempt is given up.  The exit
\* at lines 273-278, before the join, is for a licence without activation id or
\* key, which no token here is.
SpawnFails(t) == LET h == HandleOf[t] IN
    /\ app[t].pc = "spawn"
    /\ "spawn" \in Faults
    /\ MutexFree(h)
    /\ sdk' = [sdk EXCEPT ![h].renew_in_flight = FALSE]
    /\ Goto(t, "fresh")
    /\ UNCHANGED <<clock, server, late, cache, call, renewer, result, history>>

-----------------------------------------------------------------------------
(***************************************************************************)
(* latte_check, and the fast path of latte_activate, which reads the cache *)
(* the same way.                                                           *)
(***************************************************************************)

\* ll_file_load_token
Check(t) ==
    /\ CanCall(t)
    /\ IF cache = NoToken THEN Return(t, "NOT_ACTIVATED")
       ELSE /\ app' = [app EXCEPT ![t] = [IdleThread EXCEPT
                        !.pc = "verify", !.op = "check", !.lic = cache]]
            /\ result' = [result EXCEPT ![t] = NoResult]
    /\ UNCHANGED <<clock, server, late, cache, call, sdk, renewer, history>>

\* Verification and ll_validate read the clock one after the other; here at one
\* instant.
CheckVerify(t) == LET lic == app[t].lic IN
    /\ app[t].pc = "verify"
    /\ app[t].op = "check"
    /\ IF Verified(lic) /\ Verdict(lic) \in RenewableVerdicts
       THEN /\ app' = [app EXCEPT ![t].pc = "try", ![t].valid = Verdict(lic) = "OK"]
            /\ UNCHANGED result
       ELSE Return(t, "NOT_ACTIVATED")
    /\ UNCHANGED <<clock, server, late, cache, call, sdk, renewer, history>>

\* ll_license_is_valid once more, now that the renewal has been started.
CheckFresh(t) == LET lic == app[t].lic IN
    /\ app[t].pc = "fresh"
    /\ app[t].op = "check"
    /\ IF app[t].valid /\ LicenseIsValid(lic, clock)
       THEN Goto(t, "public") /\ UNCHANGED result
       ELSE Return(t, "NOT_ACTIVATED")
    /\ UNCHANGED <<clock, server, late, cache, call, sdk, renewer, history>>

\* domain_to_public: the licence handed to the application, its in-grace flag
\* computed from renew_failed as it is now.
DomainToPublic(t) == LET h == HandleOf[t]  lic == app[t].lic IN
    /\ app[t].pc = "public"
    /\ MutexFree(h)
    /\ result' = [result EXCEPT ![t] =
                    [status |-> "OK",
                     in_grace_period |->
                        InGracePeriodAt(lic, clock, sdk[h].renew_failed)]]
    /\ app' = [app EXCEPT ![t] = IdleThread]
    /\ UNCHANGED <<clock, server, late, cache, call, sdk, renewer, history>>

-----------------------------------------------------------------------------
(***************************************************************************)
(* latte_activate                                                          *)
(***************************************************************************)
Activate(t, key) ==
    /\ CanCall(t)
    /\ app' = [app EXCEPT ![t] = [IdleThread EXCEPT
                !.pc = IF cache = NoToken THEN "request" ELSE "verify",
                !.op = "activate", !.key = key, !.lic = cache]]
    /\ result' = [result EXCEPT ![t] = NoResult]
    /\ UNCHANGED <<clock, server, late, cache, call, sdk, renewer, history>>

\* The fast path needs a valid cached token; its key is compared only after a
\* renewal of it has been started.
ActivateVerify(t) == LET lic == app[t].lic IN
    /\ app[t].pc = "verify"
    /\ app[t].op = "activate"
    /\ Goto(t, IF Verified(lic) /\ Verdict(lic) = "OK" THEN "try" ELSE "request")
    /\ UNCHANGED <<clock, server, late, cache, call, sdk, renewer, result, history>>

\* key_matches or alias_matches, and ll_license_is_valid
ActivateMatch(t) == LET lic == app[t].lic IN
    /\ app[t].pc = "fresh"
    /\ app[t].op = "activate"
    /\ Goto(t, IF lic.key = app[t].key /\ LicenseIsValid(lic, clock)
               THEN "public" ELSE "request")
    /\ UNCHANGED <<clock, server, late, cache, call, sdk, renewer, result, history>>

ActivateRequest(t) ==
    /\ app[t].pc = "request"
    /\ Send(t, "activate", NoAid, app[t].key)
    /\ Goto(t, "await")
    /\ UNCHANGED <<clock, server, late, cache, sdk, renewer, result, history>>

ActivateReply(t) == LET reply == call[t].reply IN
    /\ app[t].pc = "await"
    /\ app[t].op = "activate"
    /\ reply # NoReply
    /\ HangUp(t)
    /\ IF reply.error # "OK" THEN Return(t, MapNetworkError(reply.error))
       ELSE IF Verified(reply.token) /\ Verdict(reply.token) = "OK"
       THEN /\ app' = [app EXCEPT ![t].pc = "save", ![t].lic = reply.token]
            /\ UNCHANGED result
       ELSE Return(t, "SERVER_INVALID_TOKEN")
    /\ UNCHANGED <<clock, server, late, cache, sdk, renewer, history>>

\* Mutant of ActivateSave: renew_failed is left as it was.
ActivateSaveKeepsFailed(t) == LET h == HandleOf[t] IN
    /\ app[t].pc = "save"
    /\ MutexFree(h)
    /\ SaveToken(app[t].lic)
    /\ history' = [history EXCEPT !.unreached[h] = {}]
    /\ Goto(t, "public")
    /\ UNCHANGED <<clock, server, late, call, sdk, renewer, result>>

\* Lines 512-515: whether the file was written is not looked at.
ActivateSave(t) == LET h == HandleOf[t] IN
    /\ app[t].pc = "save"
    /\ MutexFree(h)
    /\ SaveToken(app[t].lic)
    /\ sdk' = [sdk EXCEPT ![h].renew_failed = FALSE]
    /\ history' = [history EXCEPT !.unreached[h] = {}]
    /\ Goto(t, "public")
    /\ UNCHANGED <<clock, server, late, call, renewer, result>>

-----------------------------------------------------------------------------
(***************************************************************************)
(* latte_deactivate                                                        *)
(***************************************************************************)

\* cached_credentials: read without the mutex and without verifying.
Deactivate(t) ==
    /\ CanCall(t)
    /\ IF cache = NoToken THEN Return(t, "NOT_ACTIVATED") /\ UNCHANGED call
       ELSE /\ app' = [app EXCEPT ![t] = [IdleThread EXCEPT
                        !.pc = "await", !.op = "deactivate", !.lic = cache]]
            /\ result' = [result EXCEPT ![t] = NoResult]
            /\ Send(t, "deactivate", cache.activation_id, cache.key)
    /\ UNCHANGED <<clock, server, late, cache, sdk, renewer, history>>

DeactivateReply(t) == LET reply == call[t].reply IN
    /\ app[t].pc = "await"
    /\ app[t].op = "deactivate"
    /\ reply # NoReply
    /\ HangUp(t)
    /\ IF reply.error = "OK" THEN Goto(t, "clear") /\ UNCHANGED result
       ELSE Return(t, MapNetworkError(reply.error))
    /\ UNCHANGED <<clock, server, late, cache, sdk, renewer, history>>

\* Lines 587-591: the file is emptied whatever it holds by now, and whether
\* that worked is not looked at.
DeactivateClear(t) == LET h == HandleOf[t] IN
    /\ app[t].pc = "clear"
    /\ MutexFree(h)
    /\ SaveToken(NoToken)
    /\ sdk' = [sdk EXCEPT ![h].renew_failed = FALSE]
    /\ history' = [history EXCEPT
                    !.forgotten = IF cache' = NoToken
                                  THEN @ \cup {app[t].lic.activation_id} ELSE @,
                    !.unreached[h] = {}]
    /\ Return(t, "OK")
    /\ UNCHANGED <<clock, server, late, call, renewer>>

-----------------------------------------------------------------------------
(***************************************************************************)
(* renew_thread_fn, the renewal thread of handle h.                        *)
(***************************************************************************)

\* The reply, and for a token whether it verifies and validates now.
RenewReply(h) == LET reply == call[h].reply IN
    /\ renewer[h].pc = "await"
    /\ reply # NoReply
    /\ HangUp(h)
    /\ renewer' = [renewer EXCEPT
                    ![h].pc = "lock",
                    ![h].error =
                        IF reply.error # "OK" THEN reply.error
                        ELSE IF Verified(reply.token) /\ Verdict(reply.token) = "OK"
                        THEN "OK" ELSE "UNUSABLE",
                    ![h].token = reply.token]
    /\ UNCHANGED <<clock, server, late, cache, app, sdk, result, history>>

AfterLock(error) ==
    CASE error = "OK"           -> "store"
      [] error \in WipingErrors -> "wipe"
      [] OTHER                  -> "done"

\* Lines 223-225, 187-188 and 251-252: renew_mu is taken and the cache read.
\* When it holds another activation by now, nothing is touched.
RenewLock(h) == LET r == renewer[h] IN
    /\ r.pc = "lock"
    /\ IF HoldsActivation(r.aid)
       THEN /\ renewer' = [renewer EXCEPT ![h].pc = AfterLock(r.error)]
            /\ sdk' = IF r.error = "OK" THEN sdk
                      ELSE [sdk EXCEPT ![h].renew_failed = r.error = "NETWORK"]
       ELSE renewer' = [renewer EXCEPT ![h].pc = "done"] /\ UNCHANGED sdk
    /\ history' = [history EXCEPT !.unreached[h] =
                    IF r.error = "NETWORK" THEN @ \cup {r.aid} ELSE @ \ {r.aid}]
    /\ UNCHANGED <<clock, server, late, cache, call, app, result>>

\* Line 226, and the unlock.
RenewWipe(h) ==
    /\ renewer[h].pc = "wipe"
    /\ SaveToken(NoToken)
    /\ renewer' = [renewer EXCEPT ![h].pc = "done"]
    /\ UNCHANGED <<clock, server, late, call, app, sdk, result, history>>

\* Lines 253-256.
RenewStore(h) ==
    /\ renewer[h].pc = "store"
    /\ SaveToken(renewer[h].token)
    /\ sdk' = [sdk EXCEPT ![h].renew_failed = FALSE]
    /\ renewer' = [renewer EXCEPT ![h].pc = "done"]
    /\ UNCHANGED <<clock, server, late, call, app, result, history>>

\* Mutant of RenewDone: renew_in_flight is never cleared.
RenewDoneInFlight(h) ==
    /\ renewer[h].pc = "done"
    /\ renewer' = [renewer EXCEPT ![h] = [NoRenewer EXCEPT !.pc = "exited"]]
    /\ UNCHANGED <<clock, server, late, cache, call, app, sdk, result, history>>

\* Lines 262-267.
RenewDone(h) ==
    /\ renewer[h].pc = "done"
    /\ sdk' = [sdk EXCEPT ![h].renew_in_flight = FALSE]
    /\ renewer' = [renewer EXCEPT ![h] = [NoRenewer EXCEPT !.pc = "exited"]]
    /\ UNCHANGED <<clock, server, late, cache, call, app, result, history>>

-----------------------------------------------------------------------------
(***************************************************************************)
(* The life of a handle: latte_free, followed by latte_new in the same or  *)
(* in a new process; and the death of the process.                         *)
(***************************************************************************)

\* latte_free, called when no other call on the handle is in progress.
Free(t) ==
    /\ \A u \in Threads : HandleOf[u] = HandleOf[t] => app[u].pc = "idle"
    /\ app' = [app EXCEPT ![t].pc = "free", ![t].op = "free"]
    /\ result' = [result EXCEPT ![t] = NoResult]
    /\ UNCHANGED <<clock, server, late, cache, call, sdk, renewer, history>>

Reset(h) ==
    /\ sdk' = [sdk EXCEPT ![h] = NewHandle]
    /\ renewer' = [renewer EXCEPT ![h] = NoRenewer]
    /\ history' = [history EXCEPT !.unreached[h] = {}]

FreeJoin(t) == LET h == HandleOf[t] IN
    /\ app[t].pc = "free"
    /\ Joinable(h)
    /\ Reset(h)
    /\ app' = [app EXCEPT ![t] = IdleThread]
    /\ UNCHANGED <<clock, server, late, cache, call, result>>

\* The process dies; its requests may still reach the server.
Crash(h) == LET dead == {h} \cup {t \in Threads : HandleOf[t] = h} IN
    /\ "crash" \in Faults
    /\ call' = [p \in Callers |-> IF p \in dead THEN NoCall ELSE call[p]]
    /\ app' = [t \in Threads |-> IF t \in dead THEN IdleThread ELSE app[t]]
    /\ result' = [t \in Threads |-> IF t \in dead THEN NoResult ELSE result[t]]
    /\ Reset(h)
    /\ \E p \in dead : Abandon(p)
    /\ UNCHANGED <<clock, server, cache>>

-----------------------------------------------------------------------------
CheckStep(t) == CheckVerify(t) \/ CheckFresh(t) \/ DomainToPublic(t)
RenewStart(t) == TryRenew(t) \/ JoinRenewer(t) \/ SpawnRenewer(t) \/ SpawnFails(t)
ActivateStep(t) ==
    \/ ActivateVerify(t) \/ ActivateMatch(t) \/ ActivateRequest(t)
    \/ ActivateReply(t) \/ ActivateSave(t)
DeactivateStep(t) == DeactivateReply(t) \/ DeactivateClear(t)
RenewerStep(h) ==
    RenewReply(h) \/ RenewLock(h) \/ RenewWipe(h) \/ RenewStore(h) \/ RenewDone(h)

\* A call that has begun goes on; one that has not may never be made.
Continue(t) ==
    CheckStep(t) \/ RenewStart(t) \/ ActivateStep(t) \/ DeactivateStep(t) \/ FreeJoin(t)

Begin(t) ==
    Check(t) \/ (\E k \in Keys : Activate(t, k)) \/ Deactivate(t) \/ Free(t)

Environment ==
    \/ Tick \/ ServeLate
    \/ \E k \in Keys : Revoke(k)
    \/ \E p \in Callers : Serve(p) \/ TimeOut(p)
    \/ \E h \in Handles : Crash(h)

Next ==
    \/ Environment
    \/ \E t \in Threads : Begin(t) \/ Continue(t)
    \/ \E h \in Handles : RenewerStep(h)

Spec == Init /\ [][Next]_vars

\* The threads of the process run, and a call over the network ends: with the
\* server's answer, or when its timeout expires.
Fairness ==
    /\ \A t \in Threads : WF_vars(Continue(t))
    /\ \A h \in Handles : WF_vars(RenewerStep(h))
    /\ \A p \in Callers : WF_vars(Serve(p) \/ TimeOut(p))

FairSpec == Spec /\ Fairness
-----------------------------------------------------------------------------
(***************************************************************************)
(* Properties.                                                             *)
(***************************************************************************)
AppPcs == {"idle", "verify", "try", "join", "spawn", "fresh", "public", "request",
           "await", "save", "clear", "free"}
RenewerPcs == {"none", "await", "lock", "wipe", "store", "done", "exited"}
Ops == {"none", "check", "activate", "deactivate", "free"}
Statuses == {"none", "OK", "NOT_ACTIVATED", "LICENSE_EXPIRED", "LICENSE_NOT_FOUND",
             "SEAT_LIMIT", "INVALID_PROJECT_KEY", "NETWORK", "DEACTIVATION_BLOCKED",
             "INTERNAL", "SERVER_INVALID_TOKEN"}
MaybeToken == Token \cup {NoToken}

AppState == [pc : AppPcs, op : Ops, key : Keys \cup {"none"}, lic : MaybeToken,
             valid : BOOLEAN]
HandleState == [renew_in_flight : BOOLEAN, last_renew_attempt : Int,
                renew_failed : BOOLEAN]
RenewerState == [pc : RenewerPcs, aid : Aids \cup {NoAid},
                 error : Errors \cup {"OK", "UNUSABLE"}, token : MaybeToken]
Pending == {c \in [kind : CallKinds, aid : Aids \cup {NoAid}, key : Keys,
                    reply : Reply \cup {NoReply}] : Addressed(c)}

\* Every variable keeps the shape the handlers give it.
TypeOK ==
    /\ clock \in Nat
    /\ server \in ServerState
    /\ late \subseteq Call
    /\ cache \in MaybeToken
    /\ call \in [Callers -> Pending \cup {NoCall}]
    /\ app \in [Threads -> AppState]
    /\ sdk \in [Handles -> HandleState]
    /\ renewer \in [Handles -> RenewerState]
    /\ result \in [Threads -> [status : Statuses, in_grace_period : BOOLEAN]]
    /\ history \in [forgotten : SUBSET Aids, unreached : [Handles -> SUBSET Aids]]

\* The threads a renewal of handle h belongs to: the application thread that is
\* starting it, then the renewal thread until it has said that it is done.
Renewing(h) ==
    {t \in Threads : HandleOf[t] = h /\ app[t].pc \in {"join", "spawn"}} \cup
    {g \in {h} : renewer[g].pc \notin {"none", "exited"}}

\* renew_in_flight is set exactly while one thread carries a renewal of the
\* handle, and never two, however many threads call latte_check at once: every
\* way out of maybe_start_renew and of renew_thread_fn clears it, once
\* (latte.c:162-178, 264-266, 275-297).
OneRenewalAtATime ==
    \A h \in Handles :
        /\ sdk[h].renew_in_flight <=> Renewing(h) # {}
        /\ \A p, q \in Renewing(h) : p = q

\* latte_check makes no network call (latte.h:265), and does not wait for one
\* either: the thread it joins before starting a renewal has always ended
\* (latte.c:281), because renew_in_flight is cleared last.
JoinNeverWaits ==
    \A t \in Threads : app[t].pc = "join" => Joinable(HandleOf[t])

\* Inside its critical section the renewal thread saves or wipes only while
\* the cache still holds the activation it renewed: holds_activation's answer
\* cannot go stale before the write (latte.c:223-228, 251-256).
RenewalWritesOnlyItsOwn ==
    \A h \in Handles :
        renewer[h].pc \in {"store", "wipe"} => HoldsActivation(renewer[h].aid)

\* Once latte_deactivate has released an activation and emptied the cache, no
\* renewal that was in flight brings its token back (latte.c:585-586).
ReleaseIsFinal ==
    cache # NoToken => cache.activation_id \notin history.forgotten

\* renew_failed says that the last renewal attempt could not reach the server
\* and that nothing has succeeded since, about the activation that is cached
\* now (latte.c:40-41), whenever renew_mu is free: neither a flag left over from
\* an activation that is gone, nor the answer to its renewal that arrives late,
\* puts a fresh licence in its grace period.
RenewFailedIsCurrent ==
    \A h \in Handles : MutexFree(h) /\ sdk[h].renew_failed =>
        cache # NoToken /\ cache.activation_id \in history.unreached[h]

\* The cache is emptied only once the activation it holds has been released,
\* revoked or has ended (latte.c:580-581): no step forgets a live seat.
LiveSeatNeverForgotten ==
    [][cache # NoToken /\ cache' = NoToken =>
        \/ server.died[cache.activation_id] # NotYet
        \/ LicenceEnded(clock)]_vars

\* A cached token outlives its activation by its grace period at most: when
\* latte_check or the fast path of latte_activate accepts it, the activation
\* is live or ended no longer ago than that, whatever happened to the renewals
\* and to other processes in between.
AcceptedWithinGrace ==
    [][\A t \in Threads : app[t].pc = "fresh" /\ app'[t].pc = "public" =>
        LET died == server.died[app[t].lic.activation_id] IN
        died = NotYet \/ clock - died <= GracePeriod]_vars

\* A licence is handed out as in its grace period only when it was this very
\* activation whose last renewal could not reach the server (README.md:709-711):
\* the flag is read after the licence was loaded, and the cache may have changed
\* under the call.  Checked where saves succeed: latte_activate hands out a
\* licence it could not save, next to the flag of the activation still cached.
InGraceIsOfThisLicence ==
    [][\A t \in Threads : app[t].pc = "public" /\ result'[t].in_grace_period =>
        app[t].lic.activation_id \in history.unreached[HandleOf[t]]]_vars

\* Every renewal ends, so a later one can start (latte.c:262-266).
RenewalEnds ==
    \A h \in Handles : sdk[h].renew_in_flight ~> ~sdk[h].renew_in_flight

\* Every API call returns, latte_free included: no thread waits for ever for
\* renew_mu or for the renewal thread.
CallsReturn == \A t \in Threads : app[t].pc # "idle" ~> app[t].pc = "idle"

Stranded(a) ==
    /\ HoldsActivation(a)
    /\ Live(server, a)
    /\ clock > OfflineDeadline(cache)

KeepsChecking == \A t \in Threads : []<><<Check(t)>>_vars
FailuresEnd ==
    <>[][~ ((\E p \in Callers : TimeOut(p)) \/ (\E t \in Threads : SpawnFails(t)))]_vars

\* README.md:694: a machine whose token has outlived its grace period recovers
\* without activating again, once the server answers and threads can be started,
\* if the application keeps calling latte_check.
Recovers ==
    KeepsChecking /\ FailuresEnd => \A a \in Aids : Stranded(a) ~> ~Stranded(a)

-----------------------------------------------------------------------------
(***************************************************************************)
(* What the documentation says and the code does not do.                   *)
(***************************************************************************)

\* latte.h:266-269, README.md:398, 689: latte_check returns LICENSE_EXPIRED for
\* a token whose grace period has elapsed or whose licence has ended.
OutlivedIsReportedExpired ==
    [][\A t \in Threads :
        /\ app[t].op = "check" /\ app[t].pc = "fresh" /\ ~app[t].valid
        /\ app'[t].pc = "idle"
        => result'[t].status = "LICENSE_EXPIRED"]_vars

\* latte.h:333-335: after latte_deactivate has returned OK, latte_check answers
\* NOT_ACTIVATED until the next latte_activate; so the cache is empty then.
DeactivatedIsEmpty ==
    [][\A t \in Threads :
        app[t].pc = "clear" /\ result'[t].status = "OK" => cache' = NoToken]_vars
=============================================================================
