--------------------------- MODULE ExchangeProofs ---------------------------
(***************************************************************************)
(* The HTTP layer implements the network that Sdk takes for granted, for   *)
(* any handles, threads, keys, faults, pages and timestamps; and the times *)
(* it hands out are those of the calendar.  Whatever pages third parties   *)
(* put in the way, a release that is acted upon has happened, a released   *)
(* activation stays released, and a licence that is lost is accounted for: *)
(* OwnInv and SeatInv of SdkReleaseProofs hold of Exchange too, since a    *)
(* page tells nobody "OK".                                                 *)
(***************************************************************************)
EXTENDS Exchange, SdkReleaseProofs

-----------------------------------------------------------------------------
(***************************************************************************)
(* The calendar: in every year, before and after the epoch,                *)
(* days_from_civil is the closed form DayNumber, it starts at 0 on 1       *)
(* January 1970 and the day after a date is one more.                      *)
(***************************************************************************)

\* The offset of a month's first day in a year that begins in March.
LEMMA MarchOffsets ==
    ASSUME NEW m \in 1 .. 12
    PROVE  \A d \in Int : DayOfYear(m, d) =
             DaysBeforeMonth[m] + (IF m <= 2 THEN 306 ELSE -59) + d - 1
<1>1. CASE m = 1 BY <1>1 DEF DaysBeforeMonth, DayOfYear
<1>2. CASE m = 2 BY <1>2 DEF DaysBeforeMonth, DayOfYear
<1>3. CASE m = 3 BY <1>3 DEF DaysBeforeMonth, DayOfYear
<1>4. CASE m = 4 BY <1>4 DEF DaysBeforeMonth, DayOfYear
<1>5. CASE m = 5 BY <1>5 DEF DaysBeforeMonth, DayOfYear
<1>6. CASE m = 6 BY <1>6 DEF DaysBeforeMonth, DayOfYear
<1>7. CASE m = 7 BY <1>7 DEF DaysBeforeMonth, DayOfYear
<1>8. CASE m = 8 BY <1>8 DEF DaysBeforeMonth, DayOfYear
<1>9. CASE m = 9 BY <1>9 DEF DaysBeforeMonth, DayOfYear
<1>10. CASE m = 10 BY <1>10 DEF DaysBeforeMonth, DayOfYear
<1>11. CASE m = 11 BY <1>11 DEF DaysBeforeMonth, DayOfYear
<1>12. CASE m = 12 BY <1>12 DEF DaysBeforeMonth, DayOfYear
<1>q. QED BY <1>1, <1>2, <1>3, <1>4, <1>5, <1>6, <1>7, <1>8, <1>9, <1>10, <1>11, <1>12

\* Truncation of the adjusted year is a floor, and an era has 97 leap years.
LEMMA Eras ==
    ASSUME NEW y \in Int, NEW doy \in Int
    PROVE  DayOfEra(y, doy) = 365 * y + LeapsUpTo(y) + doy - 719468
<1> DEFINE era == CDiv(IF y >= 0 THEN y ELSE y - 399, 400)
           yoe == y - era * 400
<1>1. era = y \div 400
  BY DEF CDiv
<1>2. DayOfEra(y, doy)
        = era * 146097 + (yoe * 365 + yoe \div 4 - yoe \div 100 + doy) - 719468
  BY DEF DayOfEra
<1> HIDE DEF era
<1>3. LeapsUpTo(y) = 97 * era + yoe \div 4 - yoe \div 100
  BY <1>1 DEF LeapsUpTo
<1>q. QED BY <1>1, <1>2, <1>3

\* A leap day is counted with the year that begins after it.
LEMMA LeapDay ==
    ASSUME NEW y \in Int
    PROVE  LeapsUpTo(y) = LeapsUpTo(y - 1) + (IF Leap(y) THEN 1 ELSE 0)
<1>1. y \div 4 = (y - 1) \div 4 + (IF y % 4 = 0 THEN 1 ELSE 0)
  OBVIOUS
<1>2. y \div 100 = (y - 1) \div 100 + (IF y % 100 = 0 THEN 1 ELSE 0)
  OBVIOUS
<1>3. y \div 400 = (y - 1) \div 400 + (IF y % 400 = 0 THEN 1 ELSE 0)
  OBVIOUS
<1>4. (y % 100 = 0 => y % 4 = 0) /\ (y % 400 = 0 => y % 100 = 0)
  OBVIOUS
<1>q. QED BY <1>1, <1>2, <1>3, <1>4 DEF LeapsUpTo, Leap

\* For every year, before and after the epoch, and every month,
\* days_from_civil is the day number of the calendar (client.c:269-279): its
\* eras, truncating divisions and months counted from March cancel out.
THEOREM CivilDays ==
    ASSUME NEW y \in Int, NEW m \in 1 .. 12, NEW d \in Int
    PROVE  DaysFromCivil(y, m, d) = DayNumber(y, m, d)
<1>1. DaysBeforeMonth[m] \in Int /\ DayOfYear(m, d) \in Int
  BY DEF DaysBeforeMonth, DayOfYear
<1>2. LeapsUpTo(1969) = 477 /\ LeapsUpTo(y) \in Int /\ LeapsUpTo(y - 1) \in Int
  BY DEF LeapsUpTo
<1>3. CASE m <= 2
  <2>1. DayOfYear(m, d) = DaysBeforeMonth[m] + 306 + d - 1 BY <1>1, <1>3, MarchOffsets
  <2>2. DaysFromCivil(y, m, d)
          = 365 * (y - 1) + LeapsUpTo(y - 1) + DayOfYear(m, d) - 719468
    BY <1>1, <1>3, Eras DEF DaysFromCivil
  <2>q. QED BY <1>1, <1>2, <1>3, <2>1, <2>2 DEF DayNumber
<1>4. CASE m > 2
  <2>1. DayOfYear(m, d) = DaysBeforeMonth[m] - 59 + d - 1 BY <1>1, <1>4, MarchOffsets
  <2>2. DaysFromCivil(y, m, d)
          = 365 * y + LeapsUpTo(y) + DayOfYear(m, d) - 719468
    BY <1>1, <1>4, Eras DEF DaysFromCivil
  <2>3. LeapsUpTo(y) = LeapsUpTo(y - 1) + (IF Leap(y) THEN 1 ELSE 0)
    BY LeapDay
  <2>q. QED BY <1>1, <1>2, <1>4, <2>1, <2>2, <2>3 DEF DayNumber
<1>q. QED BY <1>3, <1>4

\* The day after a date is one day later, over months, leap days, years and
\* eras: with the epoch at 0 this makes DayNumber the count of days.
THEOREM OneDayLater ==
    ASSUME NEW y \in Int, NEW m \in 1 .. 12, NEW d \in 1 .. DaysInMonth(y, m)
    PROVE  LET next == NextDay(y, m, d)
           IN  DaysFromCivil(next[1], next[2], next[3]) = DaysFromCivil(y, m, d) + 1
<1> DEFINE Days(next) == DaysFromCivil(next[1], next[2], next[3])
<1>1. d \in Int /\ LeapsUpTo(y - 1) \in Int /\ LeapsUpTo(y) \in Int
      /\ LeapsUpTo(1969) \in Int /\ DaysBeforeMonth[m] \in Int
  BY DEF LeapsUpTo, DaysInMonth, DaysBeforeMonth
<1>2. DaysFromCivil(y, m, d) = DayNumber(y, m, d)
  BY <1>1, CivilDays
<1>3. CASE d < DaysInMonth(y, m)
  <2>1. DaysFromCivil(y, m, d + 1) = DayNumber(y, m, d + 1)
    BY <1>1, CivilDays
  <2>2. DayNumber(y, m, d + 1) = DayNumber(y, m, d) + 1
    BY <1>1 DEF DayNumber
  <2>q. QED BY <1>2, <1>3, <2>1, <2>2 DEF NextDay
<1>4. CASE d >= DaysInMonth(y, m) /\ m < 12
  <2>1. d = DaysInMonth(y, m) /\ m + 1 \in 1 .. 12
    BY <1>1, <1>4 DEF DaysInMonth
  <2>2. DaysFromCivil(y, m + 1, 1) = DayNumber(y, m + 1, 1)
    BY <2>1, CivilDays
  <2>3. DaysBeforeMonth[m + 1] + (IF m + 1 > 2 /\ Leap(y) THEN 1 ELSE 0)
          = DaysBeforeMonth[m] + (IF m > 2 /\ Leap(y) THEN 1 ELSE 0) + DaysInMonth(y, m)
    BY <1>4 DEF DaysBeforeMonth, DaysInMonth
  <2>4. DaysBeforeMonth[m + 1] \in Int
    BY <2>1 DEF DaysBeforeMonth
  <2>5. DayNumber(y, m + 1, 1) = DayNumber(y, m, d) + 1
    BY <1>1, <2>1, <2>3, <2>4 DEF DayNumber
  <2>q. QED BY <1>2, <1>4, <2>1, <2>2, <2>5 DEF NextDay
<1>5. CASE d >= DaysInMonth(y, m) /\ m = 12
  <2>1. d = DaysInMonth(y, m) /\ d = 31
    BY <1>1, <1>5 DEF DaysInMonth
  <2>2. DaysFromCivil(y + 1, 1, 1) = DayNumber(y + 1, 1, 1)
    BY CivilDays
  <2>3. LeapsUpTo(y) = LeapsUpTo(y - 1) + (IF Leap(y) THEN 1 ELSE 0)
    BY LeapDay
  <2>4. DayNumber(y + 1, 1, 1) = DayNumber(y, m, d) + 1
    BY <1>1, <1>5, <2>1, <2>3 DEF DayNumber, DaysBeforeMonth
  <2>q. QED BY <1>2, <1>5, <2>1, <2>2, <2>4 DEF NextDay
<1>q. QED BY <1>1, <1>3, <1>4, <1>5 DEF DaysInMonth

\* The epoch.
THEOREM Epoch == DaysFromCivil(1970, 1, 1) = 0
  BY CivilDays DEF DayNumber, DaysBeforeMonth, LeapsUpTo, Leap

-----------------------------------------------------------------------------
(***************************************************************************)
(* What a server can say.                                                  *)
(***************************************************************************)

\* What a server can say to a call of a kind: a token, a release, or one of the
\* errors that have a status of their own for that kind.
Sayable(kind, reply) ==
    \/ kind # "deactivate" /\ \E t \in Token : reply = Granted(t)
    \/ kind = "deactivate" /\ reply = Refused("OK")
    \/ kind = "deactivate" /\ reply = Refused("DEACTIVATION_BLOCKED")
    \/ kind # "deactivate" /\ reply = Refused("SEAT_LIMIT_REACHED")
    \/ \E e \in {"SERVER", "INVALID_PROJECT_KEY", "INVALID_LICENSE",
                 "LICENSE_INACTIVE_OR_EXPIRED", "LICENSE_NOT_FOUND"} : reply = Refused(e)

\* Every outcome of the server ends in something sayable.
LEMMA OutcomesAreSayable ==
    ASSUME NEW s \in ServerState, NEW now \in Nat, NEW c,
           c.kind \in CallKinds, c.aid \in Aids \cup {NoAid}, c.key \in Keys, Addressed(c),
           NEW o \in Outcomes(s, c, now)
    PROVE  Sayable(c.kind, o.reply)
<1> USE DEF Sayable
<1>1. CASE o \in Hiccups(s)
  BY <1>1 DEF Hiccups
<1>2. CASE c.kind = "activate" /\ o \notin Hiccups(s)
  <2>1. o \in ActivateOutcomes(s, c.key, now)
    BY <1>2 DEF Outcomes
  <2>2. CASE LicenceEnded(now)
    BY <1>2, <2>1, <2>2 DEF ActivateOutcomes
  <2>3. CASE ~LicenceEnded(now) /\ s.active[c.key] # NoAid
    <3>1. Issued(s.active[c.key], c.key, now) \subseteq Token
      BY <2>3, IssuedType DEF ServerState
    <3> QED BY <1>2, <2>1, <2>3, <3>1 DEF ActivateOutcomes
  <2>4. CASE ~LicenceEnded(now) /\ s.active[c.key] = NoAid /\ s.next_aid \in Aids
    <3>1. Issued(s.next_aid, c.key, now) \subseteq Token
      BY <2>4, IssuedType
    <3> QED BY <1>2, <2>1, <2>4, <3>1 DEF ActivateOutcomes
  <2>5. CASE ~LicenceEnded(now) /\ s.active[c.key] = NoAid /\ s.next_aid \notin Aids
    BY <1>2, <2>1, <2>5 DEF ActivateOutcomes
  <2> QED BY <2>2, <2>3, <2>4, <2>5
<1>3. CASE c.kind = "renew" /\ o \notin Hiccups(s)
  <2>1. o \in RenewOutcomes(s, c.aid, c.key, now)
    BY <1>3 DEF Outcomes
  <2>2. Issued(c.aid, c.key, now) \subseteq Token
    BY <1>3, IssuedType DEF Addressed
  <2> QED BY <1>3, <2>1, <2>2 DEF RenewOutcomes
<1>4. CASE c.kind = "deactivate" /\ o \notin Hiccups(s)
  <2>1. o \in DeactivateOutcomes(s, c.aid, c.key, now)
    BY <1>4 DEF Outcomes
  <2> QED BY <1>4, <2>1 DEF DeactivateOutcomes
<1> QED BY <1>1, <1>2, <1>3, <1>4 DEF CallKinds

-----------------------------------------------------------------------------
(***************************************************************************)
(* The client reads what the server said.                                  *)
(***************************************************************************)
\* A refusal goes to the wire as a status and comes back as the same error.
LEMMA StatusesReadBack ==
    ASSUME NEW e, NEW code \in StatusesOf(e), NEW kind \in CallKinds,
           e # "DEACTIVATION_BLOCKED", e = "SEAT_LIMIT_REACHED" => kind # "deactivate"
    PROVE  Reading(kind, Page(code)) = Refused(e)
<1>1. /\ code \in {400, 401, 403, 404, 409, 422, 429, 500, 503}
      /\ e \in {"SERVER", "INVALID_PROJECT_KEY", "INVALID_LICENSE", "LICENSE_NOT_FOUND",
                "LICENSE_INACTIVE_OR_EXPIRED", "SEAT_LIMIT_REACHED"}
      /\ code = 409 => e = "SEAT_LIMIT_REACHED"
      /\ StatusError(code) = e
  BY DEF StatusesOf, StatusError
<1>2. Page(code).status = code /\ ~Succeeded(Page(code)) /\ code # 0
  BY <1>1 DEF Page, Blank, Succeeded
<1>3. HttpPost(Page(code)) = Refused(e)
  BY <1>1, <1>2 DEF HttpPost, PostOk
<1>4. CASE kind = "deactivate"
  <2>1. code # 409
    BY <1>1, <1>4
  <2> QED BY <1>1, <1>2, <1>4, <2>1 DEF Reading, HttpDeactivate, DeactivateResult
<1> QED BY <1>3, <1>4 DEF Reading

\* Whatever answer the server gives to say it, the client reads the reply.
LEMMA ReadingIsTheReply ==
    ASSUME NEW c, c.kind \in CallKinds, c.key \in Keys, c.aid \in Aids \cup {NoAid},
           NEW now \in Nat, NEW reply, Sayable(c.kind, reply), NEW a \in Answers(c, reply, now)
    PROVE  Reading(c.kind, a) = reply
<1> USE DEF Succeeded
<1>0. \A e : Refused(e).error = e
  BY DEF Refused
<1>1. CASE c.kind # "deactivate" /\ \E t \in Token : reply = Granted(t)
  <2>1. PICK t \in Token : reply = Granted(t)
    BY <1>1
  <2>2. a \in Delivery(t)
    BY <1>1, <2>1 DEF Answers, Granted
  <2>3. PICK code \in {200, 201} :
          a = [Body(code) EXCEPT !.token = t, !.chain = ChainNames]
    BY <2>2 DEF Delivery
  <2>4. PostOk(a) = "OK" /\ a.token = t /\ a.chain = ChainNames
    BY <2>3 DEF PostOk, Body, Blank
  <2> QED BY <1>1, <2>1, <2>4, RealToken DEF Reading, HttpPost
<1>2. CASE c.kind = "deactivate" /\ reply = Refused("OK")
  <2>1. PICK t \in Stamps : a \in Releases(t)
    BY <1>0, <1>2 DEF Answers
  <2>2. PICK r \in BOOLEAN : a = [Body(200) EXCEPT !.released = r, !.seat_free_at = t]
    BY <2>1 DEF Releases
  <2>3. a.status = 200 /\ a.json
    BY <2>2 DEF Body, Blank
  <2> QED BY <1>2, <2>3 DEF Reading, HttpDeactivate, DeactivateResult
<1>3. CASE c.kind = "deactivate" /\ reply = Refused("DEACTIVATION_BLOCKED")
  <2>1. a \in Blocked
    BY <1>0, <1>3 DEF Answers
  <2>2. PICK t \in Stamps : a = [Body(409) EXCEPT !.available_at = t]
    BY <2>1 DEF Blocked
  <2>3. a.status = 409
    BY <2>2 DEF Body, Blank
  <2> QED BY <1>3, <2>3 DEF Reading, HttpDeactivate, DeactivateResult
<1>4. CASE c.kind # "deactivate" /\ reply = Refused("INVALID_LICENSE")
  <2>1. a \in Incomplete(c.key, now)
    BY <1>0, <1>4 DEF Answers
  <2>2. PostOk(a) = "OK" /\ (a.token = NoToken \/ a.chain # ChainNames)
    <3>1. CASE a = Body(200)
      BY <3>1 DEF PostOk, Body, Blank
    <3>2. CASE a # Body(200)
      <4>1. PICK t \in Issued(1, c.key, now) : a \in Unchained(t)
        BY <2>1, <3>2 DEF Incomplete
      <4>2. PICK name \in ChainNames :
              a = [Body(200) EXCEPT !.token = t, !.chain = ChainNames \ {name}]
        BY <4>1 DEF Unchained
      <4>3. ChainNames \ {name} # ChainNames
        OBVIOUS
      <4> QED BY <4>2, <4>3 DEF PostOk, Body, Blank
    <3> QED BY <3>1, <3>2
  <2> QED BY <1>4, <2>2 DEF Reading, HttpPost
<1>5. CASE \E e \in Errors : /\ reply = Refused(e)
                             /\ e # "DEACTIVATION_BLOCKED"
                             /\ e = "SEAT_LIMIT_REACHED" => c.kind # "deactivate"
                             /\ e = "INVALID_LICENSE" => c.kind = "deactivate"
  <2>1. PICK e \in Errors : /\ reply = Refused(e)
                            /\ e # "DEACTIVATION_BLOCKED"
                            /\ e = "SEAT_LIMIT_REACHED" => c.kind # "deactivate"
                            /\ e = "INVALID_LICENSE" => c.kind = "deactivate"
    BY <1>5
  <2>2. a \in ErrorPages(e)
    BY <1>0, <2>1 DEF Answers, Errors
  <2>3. PICK code \in StatusesOf(e) : a = Page(code)
    BY <2>2 DEF ErrorPages
  <2> QED BY <2>1, <2>3, StatusesReadBack
<1> QED BY <1>1, <1>2, <1>3, <1>4, <1>5 DEF Sayable, Errors

\* An answer of the server is, to Sdk, the outcome the server decided on.
LEMMA RespondServes ==
    ASSUME Shape, NEW p \in Callers, Respond(p)
    PROVE  Serve(p)
<1>1. PICK o \in Outcomes(server, call[p], clock) :
        \E a \in Answers(call[p], o.reply, clock) :
            server' = o.server /\ Answered(p, "server", a)
  BY DEF Respond
<1>2. PICK a \in Answers(call[p], o.reply, clock) :
        server' = o.server /\ Answered(p, "server", a)
  BY <1>1
<1>3. call[p] \in Pending /\ server \in ServerState /\ clock \in Nat
  BY DEF Respond, Shape, TypeOK
<1>4. /\ call[p].kind \in CallKinds /\ call[p].aid \in Aids \cup {NoAid}
      /\ call[p].key \in Keys /\ Addressed(call[p])
  BY <1>3 DEF Pending
<1>5. Reading(call[p].kind, a) = o.reply
  BY <1>3, <1>4, OutcomesAreSayable, ReadingIsTheReply
<1> QED BY <1>1, <1>2, <1>5 DEF Serve, Respond, Answered

-----------------------------------------------------------------------------
(***************************************************************************)
(* Types.                                                                  *)
(***************************************************************************)
LEMMA PageType == ASSUME NEW code \in 0 .. 599 PROVE Page(code) \in AnswerBody
  BY StampsAssumption DEF Page, Blank, AnswerBody, MaybeToken

LEMMA BodyType == ASSUME NEW code \in 0 .. 599 PROVE Body(code) \in AnswerBody
  BY StampsAssumption DEF Body, Blank, AnswerBody, MaybeToken

\* Whatever the server answers is an answer.
LEMMA AnswersType ==
    ASSUME NEW c, c.kind \in CallKinds, c.key \in Keys, NEW now \in Nat,
           NEW reply, Sayable(c.kind, reply), NEW a \in Answers(c, reply, now)
    PROVE  a \in AnswerBody
<1>0. /\ \A e : Refused(e).error = e
      /\ \A t : Granted(t).error = "OK" /\ Granted(t).token = t
  BY DEF Refused, Granted
<1>1. Body(200) \in AnswerBody /\ Body(201) \in AnswerBody /\ Body(409) \in AnswerBody
  BY BodyType
<1>2. ASSUME NEW t \in Token, a \in Delivery(t) \cup Unchained(t) PROVE a \in AnswerBody
  <2>1. t \in MaybeToken
    BY DEF MaybeToken
  <2>2. \A x \in AnswerBody, names \in SUBSET ChainNames :
          [x EXCEPT !.token = t, !.chain = names] \in AnswerBody
    BY <2>1 DEF AnswerBody
  <2>3. CASE a \in Delivery(t)
    <3>1. PICK code \in {200, 201} :
            a = [Body(code) EXCEPT !.token = t, !.chain = ChainNames]
      BY <2>3 DEF Delivery
    <3> QED BY <1>1, <2>2, <3>1
  <2>4. CASE a \in Unchained(t)
    <3>1. PICK name \in ChainNames :
            a = [Body(200) EXCEPT !.token = t, !.chain = ChainNames \ {name}]
      BY <2>4 DEF Unchained
    <3> QED BY <1>1, <2>2, <3>1
  <2> QED BY <1>2, <2>3, <2>4
<1>3. CASE c.kind # "deactivate" /\ \E t \in Token : reply = Granted(t)
  BY <1>0, <1>2, <1>3 DEF Answers
<1>4. CASE a \in Incomplete(c.key, now)
  <2>1. Issued(1, c.key, now) \subseteq Token
    BY Constants, IssuedType DEF Aids
  <2>2. CASE a = Body(200)
    BY <1>1, <2>2
  <2>3. CASE a # Body(200)
    <3>1. PICK t \in Issued(1, c.key, now) : a \in Unchained(t)
      BY <1>4, <2>3 DEF Incomplete
    <3> QED BY <1>2, <2>1, <3>1
  <2> QED BY <2>2, <2>3
<1>5. CASE \E t \in Stamps : a \in Releases(t)
  <2>1. PICK t \in Stamps, r \in BOOLEAN :
          a = [Body(200) EXCEPT !.released = r, !.seat_free_at = t]
    BY <1>5 DEF Releases
  <2>2. \A x \in AnswerBody : [x EXCEPT !.released = r, !.seat_free_at = t] \in AnswerBody
    BY DEF AnswerBody
  <2> QED BY <1>1, <2>1, <2>2
<1>6. CASE a \in Blocked
  <2>1. PICK t \in Stamps : a = [Body(409) EXCEPT !.available_at = t]
    BY <1>6 DEF Blocked
  <2>2. \A x \in AnswerBody : [x EXCEPT !.available_at = t] \in AnswerBody
    BY DEF AnswerBody
  <2> QED BY <1>1, <2>1, <2>2
<1>7. CASE \E e : a \in ErrorPages(e)
  <2>1. PICK e : a \in ErrorPages(e)
    BY <1>7
  <2>2. PICK code \in StatusesOf(e) : a = Page(code)
    BY <2>1 DEF ErrorPages
  <2>3. code \in 0 .. 599
    BY <2>2 DEF StatusesOf
  <2> QED BY <2>2, <2>3, PageType
<1>8. \/ c.kind # "deactivate" /\ \E t \in Token : reply = Granted(t)
      \/ a \in Incomplete(c.key, now)
      \/ \E t \in Stamps : a \in Releases(t)
      \/ a \in Blocked
      \/ \E e : a \in ErrorPages(e)
  <2>1. CASE c.kind = "deactivate"
    BY <2>1 DEF Answers
  <2>2. CASE c.kind # "deactivate" /\ reply.error # "OK"
    BY <2>2 DEF Answers
  <2>3. CASE c.kind # "deactivate" /\ reply.error = "OK"
    BY <1>0, <2>3 DEF Sayable
  <2> QED BY <2>1, <2>2, <2>3
<1> QED BY <1>3, <1>4, <1>5, <1>6, <1>7, <1>8

\* So is what a machine call hears.
LEMMA InquiryAnswersType ==
    ASSUME NEW s, NEW c, NEW a \in InquiryAnswers(s, c)
    PROVE  a \in AnswerBody
<1>1. Page(403) \in AnswerBody /\ Page(404) \in AnswerBody /\ Page(422) \in AnswerBody
  BY PageType
<1>2. Body(200) \in AnswerBody
  BY BodyType
<1>3. CASE a \in {[Body(200) EXCEPT !.machines = m] : m \in Listings \cup {NotAList}}
  <2>1. PICK m \in Listings \cup {NotAList} : a = [Body(200) EXCEPT !.machines = m]
    BY <1>3
  <2>2. \A x \in AnswerBody : [x EXCEPT !.machines = m] \in AnswerBody
    BY DEF AnswerBody
  <2> QED BY <1>2, <2>1, <2>2
<1>4. CASE a = [Body(200) EXCEPT !.machine_name = "name"]
  <2>1. \A x \in AnswerBody : [x EXCEPT !.machine_name = "name"] \in AnswerBody
    BY DEF AnswerBody
  <2> QED BY <1>2, <1>4, <2>1
<1>5. \/ a \in {Page(403), Page(404), Page(422)}
      \/ a \in {[Body(200) EXCEPT !.machines = m] : m \in Listings \cup {NotAList}}
      \/ a = [Body(200) EXCEPT !.machine_name = "name"]
  BY DEF InquiryAnswers
<1> QED BY <1>1, <1>3, <1>4, <1>5

\* The inductive invariant.
ExchangeInv ==
    /\ Shape
    /\ answer \in [Callers -> Answer]
    /\ inquiry \in [Threads -> Inquiry]

LEMMA Unanswered == NoAnswer \in Answer /\ NoInquiry \in Inquiry
  BY StampsAssumption DEF NoAnswer, NoInquiry, Answer, Inquiry, AnswerBody, Blank, MaybeToken

LEMMA ExchangeInitType == ExchangeInit => ExchangeInv
  BY InitShape, Unanswered DEF ExchangeInit, ExchangeInv

\* A page in the server's place reads as an error.
LEMMA PageReads ==
    ASSUME NEW code \in 100 .. 599, NEW kind \in CallKinds
    PROVE  \E e \in Errors : Reading(kind, Page(code)) = Refused(e)
<1>1. Page(code).status = code /\ ~Page(code).json
  BY DEF Page, Blank
<1>2. StatusError(code) \in Errors
  BY DEF StatusError, Errors
<1>3. PostOk(Page(code)) \in Errors /\ PostOk(Page(code)) # "OK"
  BY <1>1, <1>2 DEF PostOk, Errors
<1>4. HttpDeactivate(Page(code)).error \in Errors
  BY <1>1, <1>2 DEF HttpDeactivate, DeactivateResult, Errors
<1> QED BY <1>3, <1>4 DEF Reading, HttpPost

\* To Sdk it is a call that is refused.
LEMMA InterceptRefuses ==
    ASSUME TypeOK, NEW p \in Callers, Intercept(p)
    PROVE  \E e \in Errors : Refusal(p, e)
<1>1. PICK code \in Pages : Answered(p, "page", Page(code))
  BY DEF Intercept
<1>2. call[p] \in Pending
  BY DEF Intercept, TypeOK
<1>3. PICK e \in Errors : Reading(call[p].kind, Page(code)) = Refused(e)
  BY <1>1, <1>2, PageReads, PagesAssumption DEF Pending
<1>4. Refusal(p, e)
  BY <1>1, <1>3 DEF Intercept, Answered, Refusal, Errors
<1> QED BY <1>4

LEMMA InterceptShape ==
    ASSUME Shape, NEW p \in Callers, Intercept(p)
    PROVE  Shape'
<1>0. TypeOK /\ Locals
  BY DEF Shape
<1>1. PICK e \in Errors : Refusal(p, e)
  BY <1>0, InterceptRefuses
<1>2. /\ call[p] # NoCall /\ call' = [call EXCEPT ![p].reply = Refused(e)]
      /\ UNCHANGED <<clock, server, cache, app, sdk, renewer, result, history>>
      /\ call[p] \in Pending
  BY <1>0, <1>1 DEF Refusal, local, TypeOK
<1>3. Refused(e) \in Reply
  BY DEF Refused, Reply, Errors
<1>4. call' \in [Callers -> Pending \cup {NoCall}]
  BY <1>0, <1>2, <1>3 DEF TypeOK, Pending, Addressed
<1>5. TypeOK'
  BY <1>0, <1>2, <1>4 DEF Intercept, TypeOK
<1>6. /\ call'[p].reply.error # "OK" /\ call'[p].kind = call[p].kind /\ call'[p] # NoCall
      /\ \A q \in Callers : q # p => call'[q] = call[q]
  BY <1>0, <1>1, <1>2, RefusedCall DEF Errors, Pending, NoCall
<1>7. Locals'
  BY <1>0, <1>2, <1>6 DEF Locals, Callers
<1> QED BY <1>5, <1>7 DEF Shape

\* A step is a step of Sdk, a page, or a machine call that Sdk does not see.
LEMMA ExchangeStep ==
    ASSUME Shape, ExchangeNext
    PROVE  [Next]_vars \/ \E p \in Callers : Intercept(p)
<1>1. ASSUME NEW p \in Callers, Respond(p) PROVE Next
  BY <1>1, RespondServes DEF Next, Environment
<1>2. ASSUME NEW t \in Threads, (\E kind \in InquiryKinds : Ask(t, kind)) \/ Told(t)
      PROVE  UNCHANGED vars
  BY <1>2 DEF Ask, Told
<1>3. CASE SdkStep
  BY <1>3 DEF SdkStep, Next, Environment
<1>4. ASSUME NEW h \in Handles, Crash(h) PROVE Next
  BY <1>4 DEF Next, Environment
<1> QED BY <1>1, <1>2, <1>3, <1>4 DEF ExchangeNext

\* client.c never turns an answer of the server into another outcome, for any
\* keys, faults, threads and timing: what the renewal thread and the API calls
\* decide by is what the server decided (client.c:112-184, 301-342).
THEOREM NetworkIsFaithful == ExchangeSpec => AnswersAreOutcomes
<1>1. Shape /\ [ExchangeNext]_exchangeVars
        => Shape' /\ [Next \/ \E p \in Callers : Intercept(p)]_vars
  <2> SUFFICES ASSUME Shape, [ExchangeNext]_exchangeVars
               PROVE  Shape' /\ [Next \/ \E p \in Callers : Intercept(p)]_vars
    OBVIOUS
  <2>1. CASE UNCHANGED exchangeVars
    BY <2>1, ShapeStep DEF exchangeVars
  <2>2. CASE ExchangeNext
    BY <2>2, ExchangeStep, ShapeStep, InterceptShape
  <2> QED BY <2>1, <2>2
<1>2. ExchangeInit => Shape
  BY InitShape DEF ExchangeInit
<1> QED BY <1>1, <1>2, PTL DEF ExchangeSpec, AnswersAreOutcomes

-----------------------------------------------------------------------------
\* Every outcome the answer of which reaches p leaves a proper answer behind.
LEMMA RespondType ==
    ASSUME Shape, NEW p \in Callers, Respond(p)
    PROVE  \E a \in AnswerBody :
             answer' = [answer EXCEPT ![p] = [from |-> "server", body |-> a]]
<1>1. PICK o \in Outcomes(server, call[p], clock) :
        \E a \in Answers(call[p], o.reply, clock) : Answered(p, "server", a)
  BY DEF Respond
<1>2. PICK a \in Answers(call[p], o.reply, clock) : Answered(p, "server", a)
  BY <1>1
<1>3. call[p] \in Pending /\ server \in ServerState /\ clock \in Nat
  BY DEF Respond, Shape, TypeOK
<1>4. /\ call[p].kind \in CallKinds /\ call[p].aid \in Aids \cup {NoAid}
      /\ call[p].key \in Keys /\ Addressed(call[p])
  BY <1>3 DEF Pending
<1>5. a \in AnswerBody
  BY <1>3, <1>4, OutcomesAreSayable, AnswersType
<1> QED BY <1>2, <1>5 DEF Answered

\* A machine call ends with a status of latte.h.
LEMMA ToldType ==
    ASSUME NEW kind, NEW a
    PROVE  InquiryStatus(InquiryError(kind, a)) \in Statuses
  BY DEF InquiryStatus, MapNetworkError, Statuses

\* A machine call asks with the credentials of a token.
LEMMA AskType ==
    ASSUME ExchangeInv, NEW t \in Threads, NEW kind \in InquiryKinds, Ask(t, kind)
    PROVE  inquiry' \in [Threads -> Inquiry]
<1>1. CASE cache = NoToken
  <2>1. [kind |-> kind, status |-> "NOT_ACTIVATED"] \in Inquiry
    BY DEF Inquiry, Statuses
  <2> QED BY <1>1, <2>1 DEF Ask, ExchangeInv
<1>2. CASE cache # NoToken
  <2>1. cache \in Token
    BY <1>2 DEF ExchangeInv, Shape, TypeOK, MaybeToken
  <2>2. [kind |-> kind, status |-> "asked", aid |-> cache.activation_id,
         key |-> cache.key] \in Inquiry
    BY <2>1 DEF Token, Inquiry
  <2> QED BY <1>2, <2>2 DEF Ask, ExchangeInv
<1> QED BY <1>1, <1>2

LEMMA ExchangeTypeStep == ExchangeInv /\ [ExchangeNext]_exchangeVars => ExchangeInv'
<1> SUFFICES ASSUME ExchangeInv, [ExchangeNext]_exchangeVars PROVE ExchangeInv'
  OBVIOUS
<1> USE DEF ExchangeInv
<1>0. Shape'
  <2>1. CASE UNCHANGED exchangeVars
    BY <2>1, ShapeStep DEF exchangeVars
  <2>2. CASE ExchangeNext
    BY <2>2, ExchangeStep, ShapeStep, InterceptShape
  <2> QED BY <2>1, <2>2
<1>1. ASSUME NEW p \in Callers, NEW from \in {"server", "page", "inquiry"},
             NEW a \in AnswerBody, answer' = [answer EXCEPT ![p] = [from |-> from, body |-> a]]
      PROVE  answer' \in [Callers -> Answer]
  <2>1. [from |-> from, body |-> a] \in Answer
    BY DEF Answer
  <2> QED BY <1>1, <2>1
<1>2. ASSUME NEW p \in Callers, Respond(p) PROVE ExchangeInv'
  <2>1. inquiry' = inquiry
    BY <1>2 DEF Respond
  <2> QED BY <1>0, <1>1, <1>2, <2>1, RespondType
<1>3. ASSUME NEW p \in Callers, Intercept(p) PROVE ExchangeInv'
  <2>1. PICK code \in Pages : Answered(p, "page", Page(code))
    BY <1>3 DEF Intercept
  <2>2. Page(code) \in AnswerBody
    BY PageType, PagesAssumption
  <2>3. inquiry' = inquiry
    BY <1>3 DEF Intercept
  <2> QED BY <1>0, <1>1, <2>1, <2>2, <2>3 DEF Answered
<1>4. ASSUME NEW t \in Threads, NEW kind \in InquiryKinds, Ask(t, kind) PROVE ExchangeInv'
  <2>1. answer' = answer
    BY <1>4 DEF Ask
  <2> QED BY <1>0, <1>4, <2>1, AskType
<1>5. ASSUME NEW t \in Threads, Told(t) PROVE ExchangeInv'
  <2>1. PICK a \in InquiryAnswers(server, inquiry[t])
                   \cup {Page(code) : code \in Pages \cup {0}} :
          /\ answer' = [answer EXCEPT ![t] = [from |-> "inquiry", body |-> a]]
          /\ inquiry' = [inquiry EXCEPT ![t] =
                [kind |-> inquiry[t].kind,
                 status |-> InquiryStatus(InquiryError(inquiry[t].kind, a))]]
    BY <1>5 DEF Told
  <2>2. a \in AnswerBody
    <3>1. CASE a \in InquiryAnswers(server, inquiry[t])
      BY <3>1, InquiryAnswersType
    <3>2. CASE a \in {Page(code) : code \in Pages \cup {0}}
      BY <3>2, PageType, PagesAssumption
    <3> QED BY <2>1, <3>1, <3>2
  <2>3. [kind |-> inquiry[t].kind,
         status |-> InquiryStatus(InquiryError(inquiry[t].kind, a))] \in Inquiry
    BY <1>5, ToldType DEF Told, Inquiring, Inquiry
  <2>4. t \in Callers
    BY DEF Callers
  <2> QED BY <1>0, <1>1, <2>1, <2>2, <2>3, <2>4
<1>6. ASSUME NEW threads, Settle(threads) PROVE ExchangeInv'
  BY <1>0, <1>6, Unanswered DEF Settle
<1>7. CASE UNCHANGED exchangeVars
  BY <1>0, <1>7 DEF exchangeVars
<1> QED BY <1>2, <1>3, <1>4, <1>5, <1>6, <1>7 DEF ExchangeNext

\* Every answer that can reach a caller is one client.c can look at, whoever
\* sent it, and every machine call ends with a status of latte.h (client.c:112-184,
\* 344-413; latte.c:594-629).
THEOREM ExchangeTypeCorrect == ExchangeSpec => []ExchangeTypeOK
<1>1. ExchangeSpec => []ExchangeInv
  BY ExchangeInitType, ExchangeTypeStep, PTL DEF ExchangeSpec
<1>2. ExchangeInv => ExchangeTypeOK
  BY DEF ExchangeInv, Shape, ExchangeTypeOK
<1> QED BY <1>1, <1>2, PTL

-----------------------------------------------------------------------------
(***************************************************************************)
(* Times.                                                                  *)
(***************************************************************************)

\* parse_time reads every timestamp as the instant it names.
LEMMA TimeRead == ASSUME NEW s \in Stamps PROVE ParseTime(s) = Instant(s)
<1>1. CASE s = NoStamp
  BY <1>1 DEF ParseTime, Instant, NoStamp
<1>2. CASE s # NoStamp
  <2>1. s \in TimeStamps
    BY <1>2, StampsAssumption
  <2>2. s.zone # Unreadable
    BY <2>1 DEF TimeStamps, UTC, Unreadable
  <2>3. DaysFromCivil(s.year, s.month, s.day) = DayNumber(s.year, s.month, s.day)
    BY <2>1, CivilDays DEF TimeStamps
  <2>4. DayNumber(s.year, s.month, s.day) \in Int
    BY <2>1 DEF TimeStamps, DayNumber, LeapsUpTo, DaysBeforeMonth
  <2>5. CASE s.zone = UTC
    BY <1>2, <2>1, <2>2, <2>3, <2>4, <2>5
       DEF TimeStamps, ParseTime, Instant, OffsetSeconds
  <2>6. CASE s.zone # UTC
    <3>1. s.zone.sign \in {-1, 1} /\ s.zone.hours \in Int /\ s.zone.minutes \in Int
      BY <2>1, <2>6 DEF TimeStamps
    <3>2. OffsetSeconds(s.zone)
            = s.zone.sign * (s.zone.hours * 3600 + s.zone.minutes * 60)
      BY <2>6, <3>1 DEF OffsetSeconds
    <3>3. OffsetSeconds(s.zone) \in Int
      BY <3>1, <3>2
    <3> HIDE DEF OffsetSeconds
    <3> QED BY <1>2, <2>1, <2>2, <2>3, <2>4, <2>6, <3>2, <3>3
            DEF TimeStamps, ParseTime, Instant
  <2> QED BY <2>5, <2>6
<1> QED BY <1>1, <1>2

\* The stamps of a list of machines are the server's.
LEMMA ListedStamps ==
    ASSUME NEW m \in Listings \cup {NotAList}, NEW i \in DOMAIN m.entries
    PROVE  /\ m.entries[i].activated_at \in Stamps
           /\ m.entries[i].last_seen_at \in Stamps
           /\ m.entries[i].seat_free_at \in Stamps
<1>1. m # NotAList
  BY DEF NotAList
<1>2. PICK t \in Stamps : m = [list |-> TRUE, entries |-> <<ThisOne(t), ReleasedOne(t)>>]
  BY <1>1 DEF Listings
<1>3. m.entries = <<ThisOne(t), ReleasedOne(t)>>
  BY <1>2
<1>4. \A x, y : DOMAIN <<x, y>> = {1, 2} /\ <<x, y>>[1] = x /\ <<x, y>>[2] = y
  OBVIOUS
<1>5. m.entries[i] = ThisOne(t) \/ m.entries[i] = ReleasedOne(t)
  BY <1>3, <1>4
<1>6. CASE m.entries[i] = ThisOne(t)
  <2>1. ThisOne(t).activated_at = t /\ ThisOne(t).last_seen_at = t
        /\ ThisOne(t).seat_free_at = NoStamp
    BY DEF ThisOne
  <2> QED BY <1>6, <2>1, StampsAssumption
<1>7. CASE m.entries[i] = ReleasedOne(t)
  <2>1. ReleasedOne(t).activated_at = t /\ ReleasedOne(t).last_seen_at = t
        /\ ReleasedOne(t).seat_free_at = t
    BY DEF ReleasedOne
  <2> QED BY <1>7, <2>1
<1> QED BY <1>5, <1>6, <1>7

\* The times of an answer, whoever sent it.
LEMMA TimesOfAnAnswer ==
    ASSUME NEW a \in AnswerBody
    PROVE  LET told == HttpDeactivate(a) IN
           /\ told.error = "DEACTIVATION_BLOCKED" => told.available_at = Instant(a.available_at)
           /\ told.error = "OK" => told.seat_free_at = Instant(a.seat_free_at)
           /\ \A i \in DOMAIN HttpMachines(a).machines :
               LET m == HttpMachines(a).machines[i]  entry == a.machines.entries[i] IN
               /\ m.activated_at = Instant(entry.activated_at)
               /\ m.last_seen_at = Instant(entry.last_seen_at)
               /\ m.seat_free_at = Instant(entry.seat_free_at)
<1>1. ParseTime(a.seat_free_at) = Instant(a.seat_free_at)
      /\ ParseTime(a.available_at) = Instant(a.available_at)
  BY TimeRead DEF AnswerBody
<1>2. \A e : /\ DeactivateResult(e, a).error = e
             /\ e = "OK" => DeactivateResult(e, a).seat_free_at = Instant(a.seat_free_at)
             /\ e = "DEACTIVATION_BLOCKED" =>
                    DeactivateResult(e, a).available_at = Instant(a.available_at)
  BY <1>1 DEF DeactivateResult
<1>3. LET told == HttpDeactivate(a) IN
      /\ told.error = "DEACTIVATION_BLOCKED" => told.available_at = Instant(a.available_at)
      /\ told.error = "OK" => told.seat_free_at = Instant(a.seat_free_at)
  BY <1>2 DEF HttpDeactivate
<1>4. ASSUME NEW i \in DOMAIN HttpMachines(a).machines
      PROVE  LET m == HttpMachines(a).machines[i]  entry == a.machines.entries[i] IN
             /\ m.activated_at = Instant(entry.activated_at)
             /\ m.last_seen_at = Instant(entry.last_seen_at)
             /\ m.seat_free_at = Instant(entry.seat_free_at)
  <2> DEFINE entries == a.machines.entries
  <2>1. HttpMachines(a).machines = [j \in DOMAIN entries |-> MachineOf(entries[j])]
    <3>1. CASE HttpMachines(a).machines = <<>>
      BY <1>4, <3>1
    <3>2. CASE HttpMachines(a).machines # <<>>
      BY <3>2 DEF HttpMachines
    <3> QED BY <3>1, <3>2
  <2>2. i \in DOMAIN entries
    BY <1>4, <2>1
  <2>3. HttpMachines(a).machines[i] = MachineOf(entries[i])
    BY <2>1, <2>2
  <2>4. /\ entries[i].activated_at \in Stamps
        /\ entries[i].last_seen_at \in Stamps
        /\ entries[i].seat_free_at \in Stamps
    BY <2>2, ListedStamps DEF AnswerBody
  <2>5. \A s \in Stamps : ParseTime(s) = Instant(s)
    BY TimeRead
  <2>6. LET m == MachineOf(entries[i]) IN
        /\ m.activated_at = ParseTime(entries[i].activated_at)
        /\ m.last_seen_at = ParseTime(entries[i].last_seen_at)
        /\ m.seat_free_at = ParseTime(entries[i].seat_free_at)
    BY DEF MachineOf
  <2> QED BY <2>3, <2>4, <2>5, <2>6
<1> QED BY <1>3, <1>4

\* For every timestamp the server can write, the times the application is told
\* are the instants it named: in every year, over leap days, east and west of
\* Greenwich (client.c:270-299, 327-340, 368-376).
THEOREM TimesAreInstants == ExchangeSpec => []TimesAreRight
<1>1. ExchangeTypeOK => TimesAreRight
  BY TimesOfAnAnswer DEF ExchangeTypeOK, TimesAreRight, Answer
<1> QED BY <1>1, ExchangeTypeCorrect, PTL
-----------------------------------------------------------------------------
(***************************************************************************)
(* Releases: only the server's own answer ends an activation.  A page is   *)
(* no more to Sdk's invariant OwnInv than a call that was refused.         *)
(***************************************************************************)
LEMMA InterceptOwn ==
    ASSUME OwnInv, NEW p \in Callers, Intercept(p)
    PROVE  OwnInv'
<1>1. Shape /\ TypeOK /\ LeaseInv
  BY DEF OwnInv, LeaseInv, Shape
<1>2. PICK e \in Errors : Refusal(p, e)
  BY <1>1, InterceptRefuses
<1>3. Moving /\ OwnFacts'
  BY <1>2, RefusalOwn
<1>4. LeaseInv'
  BY <1>1, <1>3, InterceptShape, MovingKeeps
<1> QED BY <1>3, <1>4 DEF OwnInv

LEMMA ExchangeOwnStep == OwnInv /\ [ExchangeNext]_exchangeVars => OwnInv'
<1> SUFFICES ASSUME OwnInv, [ExchangeNext]_exchangeVars PROVE OwnInv'
  OBVIOUS
<1>1. Shape
  BY DEF OwnInv, LeaseInv
<1>2. [Next]_vars \/ \E p \in Callers : Intercept(p)
  BY <1>1, ExchangeStep DEF exchangeVars
<1> QED BY <1>2, OwnStep, InterceptOwn

\* Whatever pages third parties put in the way, with any number of processes and
\* threads: when latte_deactivate goes on to empty the cache, the activation it
\* asked for has ended on the server (client.c:322-336, latte.c:577-584).
THEOREM OkIsReleased == ExchangeSpec => []OkMeansReleased
<1>1. ExchangeInit => OwnInv
  BY OwnInit DEF ExchangeInit
<1>2. OwnInv => OkMeansReleased
  BY DEF OwnInv, OwnFacts, ReleaserSound, OkMeansReleased
<1> QED BY <1>1, <1>2, ExchangeOwnStep, PTL DEF ExchangeSpec

\* No page of a third party, and no answer of the server that the client reads,
\* makes latte_check accept a token longer than its grace period after the end of
\* its activation: for any processes and threads (latte.c:547-567, 467-475).
THEOREM GraceBoundOverHttp == ExchangeSpec => AcceptedWithinGrace
<1>1. ExchangeInit => OwnInv
  BY OwnInit DEF ExchangeInit
<1>2. ASSUME OwnInv, [ExchangeNext]_exchangeVars PROVE [\A t \in Threads : AcceptsInGrace(t)]_vars
  <2>1. LeaseInv /\ Shape
    BY <1>2 DEF OwnInv, LeaseInv
  <2>2. CASE [Next]_vars
    BY <2>1, <2>2, AcceptStep
  <2>3. ASSUME NEW p \in Callers, Intercept(p) PROVE UNCHANGED app
    BY <2>1, <2>3, InterceptRefuses DEF Refusal, Shape, local
  <2>4. ASSUME UNCHANGED app PROVE \A t \in Threads : AcceptsInGrace(t)
    BY <2>4 DEF AcceptsInGrace
  <2> QED BY <1>2, <2>1, <2>2, <2>3, <2>4, ExchangeStep DEF exchangeVars
<1> QED BY <1>1, <1>2, ExchangeOwnStep, PTL DEF ExchangeSpec, AcceptedWithinGrace, AcceptsInGrace

\* Nor does a page start a second renewal of a handle, or make latte_check wait for
\* one (latte.c:158-180, 270-299).
THEOREM OneRenewalOverHttp == ExchangeSpec => [](OneRenewalAtATime /\ JoinNeverWaits)
<1>1. ExchangeInit => RenewalInv
  BY RenewalInit DEF ExchangeInit
<1>2. RenewalInv /\ [ExchangeNext]_exchangeVars => RenewalInv'
  <2> SUFFICES ASSUME RenewalInv, [ExchangeNext]_exchangeVars PROVE RenewalInv'
    OBVIOUS
  <2>1. Shape /\ TypeOK
    BY DEF RenewalInv, Shape
  <2>2. CASE [Next]_vars
    BY <2>2, RenewalStep
  <2>3. ASSUME NEW p \in Callers, Intercept(p) PROVE RenewalInv'
    <3>1. Shape' /\ UNCHANGED <<app, sdk, renewer>>
      BY <2>1, <2>3, InterceptShape, InterceptRefuses DEF Refusal, local
    <3> QED BY <3>1 DEF RenewalInv, FreeAlone, Baton, Starting, Busy, InFlight
  <2> QED BY <2>1, <2>2, <2>3, ExchangeStep DEF exchangeVars
<1>3. RenewalInv => OneRenewalAtATime /\ JoinNeverWaits
  BY BatonMeans DEF RenewalInv
<1> QED BY <1>1, <1>2, <1>3, PTL DEF ExchangeSpec

-----------------------------------------------------------------------------
(***************************************************************************)
(* Verdicts: what a renewal that was refused is accounted for by.          *)
(***************************************************************************)
Accounted(h, a) ==
    \/ server.died[a] # NotYet
    \/ LicenceEnded(clock)
    \/ TakenForAVerdict(answer[h])
    \/ answer[h].from = "server" /\ Succeeded(answer[h].body)

AccountInv ==
    /\ OwnInv
    /\ answer \in [Callers -> Answer]
    /\ \A h \in Handles, a \in Aids : Blames(h, a) => Accounted(h, a)

\* A server refuses the renewal of an activation of its own key because that, or
\* the licence, has ended; or it succeeds without a token.
LEMMA RefusalsAccounted ==
    ASSUME NEW s \in ServerState, NEW now \in Nat, NEW c, c.kind = "renew",
           Owned(s, c.aid, c.key), NEW o \in Outcomes(s, c, now),
           o.reply.error \in WipingErrors, NEW a \in Answers(c, o.reply, now)
    PROVE  o.server = s /\ (s.died[c.aid] # NotYet \/ LicenceEnded(now) \/ Succeeded(a))
<1>0. /\ \A e : Refused(e).error = e
      /\ \A t : Granted(t).error = "OK"
  BY DEF Refused, Granted
<1>1. o \in RenewOutcomes(s, c.aid, c.key, now)
  BY DEF Outcomes
<1>2. CASE o.reply.error = "INVALID_LICENSE"
  <2>1. a \in Incomplete(c.key, now)
    BY <1>2 DEF Answers
  <2>2. a.status = 200
    <3>1. CASE a = Body(200)
      BY <3>1 DEF Body, Blank
    <3>2. CASE a # Body(200)
      <4>1. PICK t \in Issued(1, c.key, now) : a \in Unchained(t)
        BY <2>1, <3>2 DEF Incomplete
      <4>2. PICK name \in ChainNames :
              a = [Body(200) EXCEPT !.token = t, !.chain = ChainNames \ {name}]
        BY <4>1 DEF Unchained
      <4> QED BY <4>2 DEF Body, Blank
    <3> QED BY <3>1, <3>2
  <2>3. o.server = s
    BY <1>0, <1>1, <1>2 DEF RenewOutcomes, Hiccups
  <2> QED BY <2>2, <2>3 DEF Succeeded
<1>3. CASE o.reply.error # "INVALID_LICENSE"
  <2>1. o \notin Hiccups(s)
    BY <1>0, <1>3 DEF Hiccups, WipingErrors
  <2>2. CASE s.active[c.key] = c.aid /\ ~LicenceEnded(now)
    BY <1>0, <1>1, <2>1, <2>2 DEF RenewOutcomes, WipingErrors
  <2>3. CASE ~(s.active[c.key] = c.aid /\ ~LicenceEnded(now))
    <3>1. o.server = s
      BY <1>1, <2>1, <2>3 DEF RenewOutcomes
    <3> QED BY <2>3, <3>1 DEF Owned
  <2> QED BY <2>2, <2>3
<1> QED BY <1>2, <1>3

\* A page that reads as a refusal is one the client takes for a verdict.
LEMMA PageIsAVerdict ==
    ASSUME NEW code \in 100 .. 599, Reading("renew", Page(code)).error \in WipingErrors
    PROVE  TakenForAVerdict([from |-> "page", body |-> Page(code)])
<1>1. Page(code).status = code /\ ~Page(code).json
  BY DEF Page, Blank
<1>2. PostOk(Page(code)) # "OK" /\ Reading("renew", Page(code)).error = PostOk(Page(code))
  BY <1>1 DEF PostOk, StatusError, Reading, HttpPost, Refused
<1>3. code \notin {200, 201} /\ StatusError(code) \in WipingErrors
  BY <1>1, <1>2 DEF PostOk, Succeeded, WipingErrors
<1>4. code \notin {401, 409, 429} \cup 500 .. 599
  BY <1>3 DEF StatusError, WipingErrors
<1> QED BY <1>1, <1>3, <1>4 DEF TakenForAVerdict, Succeeded

\* What accounts for a refusal stays, as long as the answer does.
LEMMA AccountedStays ==
    ASSUME Onward, NEW h \in Handles, NEW a \in Aids, Accounted(h, a), answer'[h] = answer[h]
    PROVE  Accounted(h, a)'
<1>1. LicenceEnded(clock) => LicenceEnded(clock')
  BY Constants DEF Onward, LicenceEnded
<1> QED BY <1>1 DEF Accounted, Onward, Kept

\* While h has a refusal to act upon, its answer is remembered.
LEMMA BlamesHeard ==
    ASSUME NEW h \in Handles, NEW a, Blames(h, a)'
    PROVE  Heard(h)'
<1>1. \A e \in WipingErrors : e # NoReply.error /\ e # Refused("NETWORK").error
  BY DEF WipingErrors, NoReply, Refused
<1>2. NoCall.kind = "none"
  BY DEF NoCall
<1> QED BY <1>1, <1>2 DEF Blames, Heard

LEMMA RespondAccounts ==
    ASSUME AccountInv, NEW p \in Callers, Respond(p), NEW h \in Handles, NEW a \in Aids,
           Blames(h, a)'
    PROVE  Accounted(h, a)'
<1> USE DEF AccountInv
<1>0. /\ Shape /\ TypeOK /\ h \in Callers /\ server \in ServerState /\ clock \in Nat
      /\ renewer[h] \in RenewerState /\ RenewerSound(h) /\ CallSound(h)
  BY DEF OwnInv, OwnFacts, LeaseInv, Shape, TypeOK, Callers
<1>1. Serve(p) /\ Onward
  BY <1>0, RespondServes, StepOnward DEF OwnInv, Next, Environment
<1>2. PICK o \in Outcomes(server, call[p], clock) :
        \E x \in Answers(call[p], o.reply, clock) :
          server' = o.server /\ Answered(p, "server", x)
  BY DEF Respond
<1>3. PICK x \in Answers(call[p], o.reply, clock) :
        server' = o.server /\ Answered(p, "server", x)
  BY <1>2
<1>4. CASE p = h
  <2>1. call[h] # NoCall /\ call[h].reply = NoReply /\ UNCHANGED <<clock, renewer>>
        /\ call[h] \in Pending
    BY <1>0, <1>4 DEF Respond, local, TypeOK
  <2>2. ~Blames(h, a)
    BY <2>1, <1>0 DEF Blames, NoReply, WipingErrors, RenewerSound
  <2>3. call[h].kind = "renew" /\ call[h].aid = a /\ call'[h].reply.error \in WipingErrors
    BY <1>1, <2>2, BlamesServed
  <2>4. /\ call'[h].reply = Reading(call[h].kind, x)
        /\ answer'[h] = [from |-> "server", body |-> x]
    BY <1>0, <1>3, <1>4, <2>1 DEF Answered, TypeOK, Pending
  <2>5. Reading(call[h].kind, x) = o.reply
    BY <1>0, <1>2, <1>3, <1>4, <2>1, OutcomesAreSayable, ReadingIsTheReply DEF Pending
  <2>6. Owned(server, call[h].aid, call[h].key)
    BY <1>0, <2>3 DEF CallSound
  <2>7. /\ server' = server
        /\ server.died[a] # NotYet \/ LicenceEnded(clock) \/ Succeeded(x)
    BY <1>0, <1>2, <1>3, <1>4, <2>3, <2>4, <2>5, <2>6, RefusalsAccounted
  <2> QED BY <2>1, <2>4, <2>7 DEF Accounted
<1>5. CASE p # h
  <2>1. Blames(h, a) /\ answer'[h] = answer[h]
    BY <1>0, <1>1, <1>3, <1>5, BlamesServed DEF Answered
  <2> QED BY <1>1, <2>1, AccountedStays
<1> QED BY <1>4, <1>5

LEMMA InterceptAccounts ==
    ASSUME AccountInv, NEW p \in Callers, Intercept(p), NEW h \in Handles, NEW a \in Aids,
           Blames(h, a)'
    PROVE  Accounted(h, a)'
<1> USE DEF AccountInv
<1>0. /\ Shape /\ TypeOK /\ h \in Callers /\ RenewerSound(h)
  BY DEF OwnInv, OwnFacts, LeaseInv, Shape, Callers
<1>1. UNCHANGED <<clock, server, renewer>>
  BY DEF Intercept, local
<1>2. Onward
  BY <1>0, <1>1, ServerAsItWas
<1>3. PICK code \in Pages : Answered(p, "page", Page(code))
  BY DEF Intercept
<1>4. CASE p = h
  <2>1. call[h] # NoCall /\ call[h] \in Pending
    BY <1>0, <1>4 DEF Intercept, TypeOK
  <2>2. /\ call'[h].reply = Reading(call[h].kind, Page(code)) /\ call'[h].kind = call[h].kind
        /\ answer'[h] = [from |-> "page", body |-> Page(code)]
    BY <1>0, <1>3, <1>4, <2>1 DEF Answered, TypeOK, Pending
  <2>3. renewer'[h].pc = "await"
    BY <1>0, <1>1, <2>1 DEF RenewerSound
  <2>4. call[h].kind = "renew" /\ Reading("renew", Page(code)).error \in WipingErrors
    BY <2>2, <2>3 DEF Blames
  <2> QED BY <2>2, <2>4, PageIsAVerdict, PagesAssumption DEF Accounted
<1>5. CASE p # h
  <2>1. call'[h] = call[h] /\ answer'[h] = answer[h]
    BY <1>0, <1>3, <1>5 DEF Answered, TypeOK
  <2>2. Blames(h, a)
    BY <1>1, <2>1 DEF Blames
  <2> QED BY <1>2, <2>1, <2>2, AccountedStays
<1> QED BY <1>4, <1>5

LEMMA AccountStep ==
    AccountInv /\ answer' \in [Callers -> Answer] /\ [ExchangeNext]_exchangeVars => AccountInv'
<1> SUFFICES ASSUME AccountInv, answer' \in [Callers -> Answer], [ExchangeNext]_exchangeVars,
                    NEW h \in Handles, NEW a \in Aids, Blames(h, a)'
             PROVE  Accounted(h, a)'
  BY ExchangeOwnStep DEF AccountInv
<1> USE DEF AccountInv
<1>0. /\ Shape /\ TypeOK /\ LeaseInv /\ h \in Callers
  BY DEF OwnInv, LeaseInv, Shape, Callers
\* A step that is not the server's.
<1>1. ASSUME Unserved, answer'[h] = answer[h] PROVE Accounted(h, a)'
  <2>1. Blames(h, a)
    BY <1>1, BlamesStep
  <2>2. Onward
    BY <1>0, <1>1, StepOnward DEF Unserved, Next, Environment
  <2> QED BY <1>1, <2>1, <2>2, AccountedStays
<1>2. ASSUME NEW threads, Settle(threads) PROVE answer'[h] = answer[h]
  <2>1. Heard(h)'
    BY BlamesHeard
  <2> QED BY <1>0, <1>2, <2>1 DEF Settle
<1>3. ASSUME NEW t \in Threads, (\E kind \in InquiryKinds : Ask(t, kind)) \/ Told(t)
      PROVE  Accounted(h, a)'
  <2>1. t # h /\ t \in Callers
    BY Constants DEF Callers
  <2>2. UNCHANGED vars /\ answer'[h] = answer[h]
    BY <1>0, <1>3, <2>1 DEF Ask, Told
  <2> QED BY <1>1, <2>2 DEF Unserved
<1>4. CASE SdkStep /\ Settle(Threads)
  BY <1>1, <1>2, <1>4 DEF SdkStep, Unserved
<1>5. ASSUME NEW g \in Handles, Crash(g) /\ Settle({t \in Threads : HandleOf[t] # g})
      PROVE  Accounted(h, a)'
  BY <1>1, <1>2, <1>5 DEF Unserved
<1>6. CASE UNCHANGED exchangeVars
  BY <1>1, <1>6 DEF exchangeVars, Unserved
<1> QED BY <1>3, <1>4, <1>5, <1>6, RespondAccounts, InterceptAccounts DEF ExchangeNext

-----------------------------------------------------------------------------
\* One caller's invariant takes a page as it takes any refusal.
LEMMA ExchangeSeatStep ==
    ASSUME OneCaller, SeatInv, [ExchangeNext]_exchangeVars
    PROVE  SeatInv'
<1>1. Shape /\ TypeOK
  BY DEF SeatInv, OwnInv, LeaseInv, Shape
<1>2. ASSUME NEW p \in Callers, Intercept(p) PROVE SeatInv'
  <2>1. PICK e \in Errors : Refusal(p, e)
    BY <1>1, <1>2, InterceptRefuses
  <2>2. SeatFacts'
    BY <2>1, RefusalSeat
  <2>3. RenewalWritesOnlyItsOwn'
    BY <2>1 DEF Refusal, local, SeatInv, RenewalWritesOnlyItsOwn, HoldsActivation
  <2> QED BY <1>2, <2>2, <2>3, InterceptOwn DEF SeatInv
<1> QED BY <1>1, <1>2, SeatStep, ExchangeStep DEF exchangeVars

\* Over its HTTP client, pages of third parties included, a process whose only
\* thread calls the SDK never brings a released activation back into the cache.
THEOREM ReleaseHoldsOverHttp ==
    ASSUME OneCaller
    PROVE  ExchangeSpec => []ReleaseIsFinal
<1>1. ExchangeInit => SeatInv
  BY SeatInit DEF ExchangeInit
<1>2. SeatInv /\ [ExchangeNext]_exchangeVars => SeatInv'
  BY ExchangeSeatStep
<1>3. SeatInv => ReleaseIsFinal
  BY DEF SeatInv, SeatFacts
<1> QED BY <1>1, <1>2, <1>3, PTL DEF ExchangeSpec

LosesToAVerdict ==
    cache # NoToken /\ cache' = NoToken =>
        \/ server.died[cache.activation_id] # NotYet
        \/ LicenceEnded(clock)
        \/ \E h \in Handles :
            /\ renewer[h].pc = "wipe"
            /\ \/ TakenForAVerdict(answer[h])
               \/ answer[h].from = "server" /\ Succeeded(answer[h].body)

\* For any pages, keys, faults and bounds: the licence of a process whose only
\* thread calls the SDK leaves its cache only after the server's verdict, a
\* success of the server that lacks its token, or a page that the client takes for
\* a verdict (client.c:112-123, latte.c:220-228).
THEOREM LossesAreAccountedFor ==
    ASSUME OneCaller
    PROVE  ExchangeSpec => LicenceLostOnlyToAVerdict
<1> DEFINE Inv == SeatInv /\ AccountInv /\ ExchangeInv
<1>1. ExchangeInit => Inv
  <2> SUFFICES ASSUME ExchangeInit PROVE Inv
    OBVIOUS
  <2>1. SeatInv /\ ExchangeInv /\ OwnInv
    BY SeatInit, ExchangeInitType DEF ExchangeInit, SeatInv
  <2>2. \A h \in Handles, a \in Aids : ~Blames(h, a)
    BY DEF ExchangeInit, Init, Blames, NoCall, NoRenewer, Callers
  <2> QED BY <2>1, <2>2 DEF AccountInv, ExchangeInv
<1>2. Inv /\ [ExchangeNext]_exchangeVars => Inv'
  BY ExchangeSeatStep, AccountStep, ExchangeTypeStep DEF ExchangeInv
<1>3. Inv /\ [ExchangeNext]_exchangeVars => [LosesToAVerdict]_exchangeVars
  <2> SUFFICES ASSUME Inv, [ExchangeNext]_exchangeVars, cache # NoToken, cache' = NoToken
               PROVE  LosesToAVerdict
    BY DEF LosesToAVerdict
  <2>1. Shape
    BY DEF ExchangeInv
  <2>2. [Next]_vars
    BY <2>1, ExchangeStep DEF exchangeVars, Intercept
  <2>3. CASE server.died[cache.activation_id] # NotYet
    BY <2>3 DEF LosesToAVerdict
  <2>4. ASSUME NEW h \in Handles, renewer[h].pc = "wipe",
               renewer[h].aid = cache.activation_id
        PROVE  LosesToAVerdict
    <3>1. Blames(h, cache.activation_id)
      BY <2>4 DEF Blames
    <3>2. Accounted(h, cache.activation_id)
      BY <2>1, <2>4, <3>1, BlamesOne DEF AccountInv
    <3> QED BY <2>4, <3>2 DEF Accounted, LosesToAVerdict
  <2> QED BY <2>2, <2>3, <2>4, EmptyingStep
<1> HIDE DEF Inv
<1> QED BY <1>1, <1>2, <1>3, PTL DEF ExchangeSpec, LicenceLostOnlyToAVerdict, LosesToAVerdict
=============================================================================
