----------------------------- MODULE HttpClient -----------------------------
(***************************************************************************)
(* src/src/http/client.c: what the SDK makes of an HTTP answer.  An answer *)
(* is a record of what the client looks at; status 0 is a transfer that    *)
(* failed, and json says whether the body parsed.                          *)
(*                                                                         *)
(* An allocation that fails ends a call with NETWORK whatever the server   *)
(* did, as an answer that is lost does; it is not told apart from one.     *)
(***************************************************************************)
EXTENDS LicenseServer, Calendar, Sequences

ChainNames == {"submaster", "project", "daily"}

\* The machines of an answer that has none, or something else than a list.
NotAList == [list |-> FALSE, entries |-> <<>>]

Blank == [status |-> 0, json |-> FALSE, token |-> NoToken, chain |-> {},
          released |-> FALSE, seat_free_at |-> NoStamp, available_at |-> NoStamp,
          machines |-> NotAList, machine_name |-> ""]

Body(code) == [Blank EXCEPT !.status = code, !.json = TRUE]
Page(code) == [Blank EXCEPT !.status = code]

Succeeded(a) == a.status \in {200, 201}

\* Mutant of PostOk: a success that is not JSON is read on.
PostOkOfAnything(a) ==
    IF a.status = 0 THEN "NETWORK"
    ELSE IF ~Succeeded(a) THEN StatusError(a.status) ELSE "OK"

\* post_ok
PostOk(a) ==
    IF a.status = 0 THEN "NETWORK"
    ELSE IF ~Succeeded(a) THEN StatusError(a.status)
    ELSE IF a.json THEN "OK" ELSE "NETWORK"

\* Mutant of HttpPost: a certificate of the chain may be missing.
HttpPostWithoutChain(a) ==
    IF PostOk(a) # "OK" THEN Refused(PostOk(a))
    ELSE IF a.token = NoToken THEN Refused("INVALID_LICENSE")
    ELSE Granted(a.token)

\* http_post: the token and its chain, all of it.
HttpPost(a) ==
    IF PostOk(a) # "OK" THEN Refused(PostOk(a))
    ELSE IF a.token = NoToken \/ a.chain # ChainNames THEN Refused("INVALID_LICENSE")
    ELSE Granted(a.token)

DeactivateResult(error, a) ==
    [error |-> error,
     released |-> error = "OK" /\ a.released,
     seat_free_at |-> IF error = "OK" THEN ParseTime(a.seat_free_at) ELSE 0,
     available_at |-> IF error = "DEACTIVATION_BLOCKED"
                      THEN ParseTime(a.available_at) ELSE 0]

\* Mutant of HttpDeactivate: any 200 is a release.
HttpDeactivateAnyPage(a) == DeactivateResult(
    IF a.status = 0          THEN "NETWORK"
    ELSE IF a.status = 409   THEN "DEACTIVATION_BLOCKED"
    ELSE IF ~Succeeded(a)    THEN StatusError(a.status) ELSE "OK", a)

\* ll_http_deactivate: a 409 is the seller's policy, never a seat limit.
HttpDeactivate(a) == DeactivateResult(
    IF a.status = 0          THEN "NETWORK"
    ELSE IF a.status = 409   THEN "DEACTIVATION_BLOCKED"
    ELSE IF ~Succeeded(a)    THEN StatusError(a.status)
    ELSE IF a.json           THEN "OK" ELSE "NETWORK", a)

\* One entry of the list: an empty name is none.
MachineOf(m) ==
    [name |-> IF m.machine_name = "" THEN "none" ELSE m.machine_name,
     activated_at |-> ParseTime(m.activated_at),
     last_seen_at |-> ParseTime(m.last_seen_at),
     seat_free_at |-> ParseTime(m.seat_free_at),
     current |-> m.current]

\* ll_http_machines
HttpMachines(a) ==
    IF PostOk(a) # "OK" THEN [error |-> PostOk(a), machines |-> <<>>]
    ELSE IF ~a.machines.list THEN [error |-> "INVALID_LICENSE", machines |-> <<>>]
    ELSE LET entries == a.machines.entries
         IN  [error |-> "OK",
              machines |-> [i \in DOMAIN entries |-> MachineOf(entries[i])]]

\* ll_http_rename_machine
HttpRenameMachine(a) ==
    [error |-> PostOk(a),
     stored |-> IF PostOk(a) = "OK" THEN a.machine_name ELSE ""]

\* The reply latte.c sees to a call of the kinds it keeps a licence by.
Reading(kind, a) ==
    IF kind = "deactivate" THEN Refused(HttpDeactivate(a).error) ELSE HttpPost(a)

-----------------------------------------------------------------------------
(***************************************************************************)
(* The server's side, external: the answers by which it says what it has   *)
(* decided, as latte.h, README.md and the client's own tables have them.   *)
(***************************************************************************)
CONSTANT Stamps    \* timestamps the server writes
ASSUME StampsAssumption == NoStamp \in Stamps /\ Stamps \subseteq TimeStamps \cup {NoStamp}

StatusesOf(error) ==
    CASE error = "LICENSE_NOT_FOUND"           -> {404}
      [] error = "LICENSE_INACTIVE_OR_EXPIRED" -> {403}
      [] error = "SEAT_LIMIT_REACHED"          -> {409}
      [] error = "INVALID_PROJECT_KEY"         -> {401}
      [] error = "SERVER"                      -> {429, 500, 503}
      [] error = "INVALID_LICENSE"             -> {400, 422}
      [] OTHER                                 -> {}

\* A success with a token for this machine; without one of its certificates; and
\* without a token.
Delivery(token) ==
    {[Body(code) EXCEPT !.token = token, !.chain = ChainNames] : code \in {200, 201}}
Unchained(token) ==
    {[Body(200) EXCEPT !.token = token, !.chain = ChainNames \ {name}] : name \in ChainNames}
Incomplete(key, now) == {Body(200)} \cup UNION {Unchained(t) : t \in Issued(1, key, now)}

\* A release, one that the seller's policy refuses until some time, an error.
Releases(t) == {[Body(200) EXCEPT !.released = r, !.seat_free_at = t] : r \in BOOLEAN}
Blocked == {[Body(409) EXCEPT !.available_at = t] : t \in Stamps}
ErrorPages(error) == {Page(code) : code \in StatusesOf(error)}

\* How the server says reply to call c.
Answers(c, reply, now) ==
    IF c.kind = "deactivate"
    THEN CASE reply.error = "OK"                   -> UNION {Releases(t) : t \in Stamps}
           [] reply.error = "DEACTIVATION_BLOCKED" -> Blocked
           [] OTHER                                -> ErrorPages(reply.error)
    ELSE CASE reply.error = "OK"                   -> Delivery(reply.token)
           [] reply.error = "INVALID_LICENSE"      -> Incomplete(c.key, now)
           [] OTHER                                -> ErrorPages(reply.error)

\* POST /v1/machines: this machine, and one that was released before it.
ThisOne(t) == [machine_name |-> "", activated_at |-> t, last_seen_at |-> t,
               seat_free_at |-> NoStamp, current |-> TRUE]
ReleasedOne(t) == [machine_name |-> "old", activated_at |-> t, last_seen_at |-> t,
                   seat_free_at |-> t, current |-> FALSE]
Listings == {[list |-> TRUE, entries |-> <<ThisOne(t), ReleasedOne(t)>>] : t \in Stamps}

\* Machine calls need a live activation; a name may be refused.
InquiryAnswers(s, c) ==
    IF s.active[c.key] # c.aid THEN {Page(403), Page(404)}
    ELSE IF c.kind = "machines"
    THEN {[Body(200) EXCEPT !.machines = m] : m \in Listings \cup {NotAList}}
    ELSE {[Body(200) EXCEPT !.machine_name = "name"], Page(422)}
=============================================================================
