------------------------------ MODULE Exchange ------------------------------
(***************************************************************************)
(* Sdk with the HTTP layer in between: where Sdk takes a reply of the      *)
(* server to reach its caller, here an answer arrives and client.c reads   *)
(* it.  The answer may also be the page of a third party (a captive        *)
(* portal, a proxy) that speaks in the server's place.                     *)
(*                                                                         *)
(* latte_machines and latte_rename_machine are added: they take the        *)
(* credentials from the cache, ask the server and change nothing here.     *)
(***************************************************************************)
EXTENDS Sdk, HttpClient

CONSTANT Pages    \* statuses of the pages third parties put in the way

ASSUME PagesAssumption == Pages \subseteq 100 .. 599

VARIABLES
    answer,    \* answer[p]: the answer p's call ended with, while it matters
    inquiry    \* inquiry[t]: the machine call of thread t, and its status

exchangeVars == <<vars, answer, inquiry>>

NoAnswer == [from |-> "nobody", body |-> Blank]
NoInquiry == [kind |-> "none", status |-> "none"]
InquiryKinds == {"machines", "rename"}

ExchangeInit ==
    /\ Init
    /\ answer = [p \in Callers |-> NoAnswer]
    /\ inquiry = [t \in Threads |-> NoInquiry]

Answered(p, from, a) ==
    /\ answer' = [answer EXCEPT ![p] = [from |-> from, body |-> a]]
    /\ call' = [call EXCEPT ![p].reply = Reading(call[p].kind, a)]

\* The server handles p's request, its answer arrives and is read.
Respond(p) ==
    /\ call[p] # NoCall
    /\ call[p].reply = NoReply
    /\ \E o \in Outcomes(server, call[p], clock) :
        \E a \in Answers(call[p], o.reply, clock) :
            /\ server' = o.server
            /\ Answered(p, "server", a)
    /\ UNCHANGED <<clock, late, cache, inquiry, local>>

\* A third party answers instead, with a page that is not the server's JSON.
Intercept(p) ==
    /\ call[p] # NoCall
    /\ call[p].reply = NoReply
    /\ \E code \in Pages : Answered(p, "page", Page(code))
    /\ UNCHANGED <<clock, server, late, cache, inquiry, local>>

-----------------------------------------------------------------------------
(***************************************************************************)
(* latte_machines and latte_rename_machine.                                *)
(***************************************************************************)
Inquiring(t) == inquiry[t].kind \in InquiryKinds /\ inquiry[t].status = "asked"

Ask(t, kind) ==
    /\ CanCall(t)
    /\ ~Inquiring(t)
    /\ inquiry' = [inquiry EXCEPT ![t] =
            IF cache = NoToken THEN [kind |-> kind, status |-> "NOT_ACTIVATED"]
            ELSE [kind |-> kind, status |-> "asked", aid |-> cache.activation_id,
                  key |-> cache.key]]
    /\ UNCHANGED <<vars, answer>>

\* What latte_machines and latte_rename_machine return for an answer.
InquiryError(kind, a) ==
    IF kind = "machines" THEN HttpMachines(a).error ELSE HttpRenameMachine(a).error

InquiryStatus(error) == IF error = "OK" THEN "OK" ELSE MapNetworkError(error)

\* The answer to t's machine call: the server's, a page, or none.
Told(t) ==
    /\ Inquiring(t)
    /\ \E a \in InquiryAnswers(server, inquiry[t]) \cup {Page(code) : code \in Pages \cup {0}} :
        /\ answer' = [answer EXCEPT ![t] = [from |-> "inquiry", body |-> a]]
        /\ inquiry' = [inquiry EXCEPT ![t] =
                [kind |-> inquiry[t].kind,
                 status |-> InquiryStatus(InquiryError(inquiry[t].kind, a))]]
    /\ UNCHANGED vars

-----------------------------------------------------------------------------
(***************************************************************************)
(* The other steps are those of Sdk.  An answer is remembered until its    *)
(* caller is done with it, and what a machine call returned for one step.  *)
(***************************************************************************)
Heard(p) ==
    \/ call[p] # NoCall /\ call[p].reply \notin {NoReply, Refused("NETWORK")}
    \/ p \in Handles /\ renewer[p].pc \in {"lock", "wipe", "store"}

Settle(threads) ==
    /\ answer' = [p \in Callers |-> IF Heard(p)' THEN answer[p] ELSE NoAnswer]
    /\ inquiry' = [t \in Threads |->
            IF Inquiring(t) /\ t \in threads THEN inquiry[t] ELSE NoInquiry]

\* A thread in a machine call makes no other, and its handle is not freed.
MayBegin(t) ==
    /\ ~Inquiring(t)
    /\ app'[t].op = "free" =>
        \A u \in Threads : HandleOf[u] = HandleOf[t] => ~Inquiring(u)

SdkStep ==
    \/ Tick \/ ServeLate
    \/ \E k \in Keys : Revoke(k)
    \/ \E p \in Callers : TimeOut(p)
    \/ \E t \in Threads : Continue(t) \/ (Begin(t) /\ MayBegin(t))
    \/ \E h \in Handles : RenewerStep(h)

ExchangeNext ==
    \/ \E p \in Callers : Respond(p) \/ Intercept(p)
    \/ \E t \in Threads : (\E kind \in InquiryKinds : Ask(t, kind)) \/ Told(t)
    \/ SdkStep /\ Settle(Threads)
    \/ \E h \in Handles : Crash(h) /\ Settle({t \in Threads : HandleOf[t] # h})

ExchangeSpec == ExchangeInit /\ [][ExchangeNext]_exchangeVars
-----------------------------------------------------------------------------
(***************************************************************************)
(* Properties.                                                             *)
(***************************************************************************)
AnswerBody ==
    [status : 0 .. 599, json : BOOLEAN, token : MaybeToken, chain : SUBSET ChainNames,
     released : BOOLEAN, seat_free_at : Stamps, available_at : Stamps,
     machines : Listings \cup {NotAList}, machine_name : {"", "name"}]
Answer == [from : {"nobody", "server", "page", "inquiry"}, body : AnswerBody]
Inquiry == [kind : InquiryKinds, status : Statuses] \cup {NoInquiry} \cup
           [kind : InquiryKinds, status : {"asked"}, aid : Aids, key : Keys]

\* Every variable keeps its type, and a machine call ends with a status of
\* latte.h.
ExchangeTypeOK ==
    /\ TypeOK
    /\ answer \in [Callers -> Answer]
    /\ inquiry \in [Threads -> Inquiry]

\* client.c is what Sdk takes the network to be: whatever the server answers,
\* the caller reads the very outcome the server decided on, every status, body
\* and certificate chain included (client.c:112-184, 301-342).  Only the page of
\* a third party can do what no server does.
AnswersAreOutcomes == [][Next \/ \E p \in Callers : Intercept(p)]_vars

\* The pages that cost a licence: what status_error takes for a refusal.
TakenForAVerdict(a) ==
    /\ a.from = "page"
    /\ ~Succeeded(a.body)
    /\ a.body.status \notin {401, 409, 429} \cup 500 .. 599

\* The cache is emptied only after the server's verdict on the licence, an
\* incomplete success of the server, or a third party's page with a 4xx or 3xx
\* that the client takes for one (client.c:112-123, 156).  A captive portal's 200,
\* 511 or 503, a proxy's 401 and an overloaded server's 429 never cost a licence.
LicenceLostOnlyToAVerdict ==
    [][cache # NoToken /\ cache' = NoToken =>
        \/ server.died[cache.activation_id] # NotYet
        \/ LicenceEnded(clock)
        \/ \E h \in Handles :
            /\ renewer[h].pc = "wipe"
            /\ \/ TakenForAVerdict(answer[h])
               \/ answer[h].from = "server" /\ Succeeded(answer[h].body)]_exchangeVars

\* latte_deactivate goes on to empty the cache only once the server has
\* released the activation: a page in the server's place is no release
\* (client.c:322-336, latte.h:333-336).
OkMeansReleased ==
    \A t \in Threads : app[t].pc = "clear" =>
        server.died[app[t].lic.activation_id] # NotYet

\* The times the application is told are the instants the server named,
\* across leap days and offsets: when a blocked release becomes possible, when
\* a seat is free, when a machine was seen (client.c:270-299, 327-340, 368-376).
TimesAreRight ==
    \A p \in Callers : LET a == answer[p].body  told == HttpDeactivate(a) IN
        /\ told.error = "DEACTIVATION_BLOCKED" => told.available_at = Instant(a.available_at)
        /\ told.error = "OK" => told.seat_free_at = Instant(a.seat_free_at)
        /\ \A i \in DOMAIN HttpMachines(a).machines :
            LET m == HttpMachines(a).machines[i]  entry == a.machines.entries[i] IN
            /\ m.activated_at = Instant(entry.activated_at)
            /\ m.last_seen_at = Instant(entry.last_seen_at)
            /\ m.seat_free_at = Instant(entry.seat_free_at)
=============================================================================
