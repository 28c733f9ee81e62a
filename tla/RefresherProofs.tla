---------------------------- MODULE RefresherProofs ----------------------------
(* Theorems about Refresher, for any number of faults, of calls and of     *)
(* messages that are told apart.                                           *)
EXTENDS Refresher, FiniteSetTheorems, TLAPS

-----------------------------------------------------------------------------
(* The record a callback works on.                                         *)

\* A user agent whose counters have no bound.
Agent ==
    [started   : BOOLEAN,
     timer     : BOOLEAN,
     target    : Expires,
     failures  : Nat,
     ioError   : BOOLEAN,
     tr        : Transaction,
     channel   : {"NONE", "CONNECTING", "READY", "ERROR"},
     learnt    : BOOLEAN,
     listening : BOOLEAN,
     password  : BOOLEAN,
     asked     : Expires,
     calls     : Nat,
     told      : {"nothing", "registered", "cleared", "failed", "refused",
                  "unsent"}]

\* ... and the record a callback makes of it.
Session ==
    [started   : BOOLEAN,
     timer     : BOOLEAN,
     target    : Expires,
     failures  : Nat,
     ioError   : BOOLEAN,
     tr        : Transaction,
     channel   : {"NONE", "CONNECTING", "READY", "ERROR"},
     learnt    : BOOLEAN,
     listening : BOOLEAN,
     password  : BOOLEAN,
     asked     : Expires,
     calls     : Nat,
     told      : {"nothing", "registered", "cleared", "failed", "refused",
                  "unsent"},
     out       : Nat,
     sent      : BOOLEAN]

\* A callback starts with the user agent as it is.
LEMMA BeginIs ==
    ASSUME ua \in Agent
    PROVE  /\ Begin \in Session
           /\ Begin.out = 0 /\ Begin.sent = FALSE
           /\ Begin.started = ua.started /\ Begin.timer = ua.timer
           /\ Begin.target = ua.target /\ Begin.failures = ua.failures
           /\ Begin.ioError = ua.ioError /\ Begin.tr = ua.tr
           /\ Begin.channel = ua.channel /\ Begin.learnt = ua.learnt
           /\ Begin.listening = ua.listening /\ Begin.password = ua.password
           /\ Begin.asked = ua.asked /\ Begin.calls = ua.calls
           /\ Begin.told = ua.told
<1>1. /\ Begin.out = 0 /\ Begin.sent = FALSE
      /\ Begin.started = ua.started /\ Begin.timer = ua.timer
      /\ Begin.target = ua.target /\ Begin.failures = ua.failures
      /\ Begin.ioError = ua.ioError /\ Begin.tr = ua.tr
      /\ Begin.channel = ua.channel /\ Begin.learnt = ua.learnt
      /\ Begin.listening = ua.listening /\ Begin.password = ua.password
      /\ Begin.asked = ua.asked /\ Begin.calls = ua.calls
      /\ Begin.told = ua.told
  BY DEF Begin, Agent
<1> DEFINE B == [started |-> ua.started, timer |-> ua.timer,
                 target |-> ua.target, failures |-> ua.failures,
                 ioError |-> ua.ioError, tr |-> ua.tr,
                 channel |-> ua.channel, learnt |-> ua.learnt,
                 listening |-> ua.listening, password |-> ua.password,
                 asked |-> ua.asked, calls |-> ua.calls, told |-> ua.told,
                 out |-> 0, sent |-> FALSE]
<1>2. B \in Session
  BY DEF Session, Agent
<1>3. DOMAIN ua = {"started", "timer", "target", "failures", "ioError", "tr",
                   "channel", "learnt", "listening", "password", "asked",
                   "calls", "told"}
  BY DEF Agent
<1>4. DOMAIN B = DOMAIN ua \cup {"out", "sent"}
  BY <1>3
<1>5. ASSUME NEW f \in DOMAIN B PROVE Begin[f] = B[f]
  <2>1. \/ f = "started" \/ f = "timer" \/ f = "target" \/ f = "failures"
        \/ f = "ioError" \/ f = "tr" \/ f = "channel" \/ f = "learnt"
        \/ f = "listening" \/ f = "password" \/ f = "asked" \/ f = "calls"
        \/ f = "told" \/ f = "out" \/ f = "sent"
    BY <1>5
  <2>2. CASE f = "sent"
    BY <1>1, <2>2
  <2> QED BY <1>1, <2>1, <2>2
<1>6. Begin = [f \in DOMAIN B |-> Begin[f]] /\ B = [f \in DOMAIN B |-> B[f]]
  BY <1>4 DEF Begin
<1>7. Begin = B
  BY <1>5, <1>6
<1> QED BY <1>1, <1>2, <1>7

\* ... and leaves it as the record it computes says.
LEMMA RunLeaves ==
    ASSUME ua \in Agent, NEW rs, NEW as, NEW d \in Session, Run(rs, as, d)
    PROVE  /\ ua' \in Agent
           /\ ua'.started = d.started /\ ua'.timer = d.timer
           /\ ua'.target = d.target /\ ua'.failures = d.failures
           /\ ua'.ioError = d.ioError /\ ua'.tr = d.tr
           /\ ua'.channel = d.channel /\ ua'.learnt = d.learnt
           /\ ua'.listening = d.listening /\ ua'.password = d.password
           /\ ua'.asked = d.asked /\ ua'.calls = d.calls
           /\ ua'.told = d.told
BY DEF Run, Session, Agent

\* What sending a REGISTER changes: the transaction, and the channel it takes.
LEMMA SendRegister ==
    ASSUME NEW d \in Session
    PROVE  LET u == send_register(d) IN
           /\ u \in Session
           /\ u.started = d.started /\ u.timer = d.timer
           /\ u.target = d.target /\ u.failures = d.failures
           /\ u.told = d.told /\ u.asked = d.asked /\ u.calls = d.calls
           /\ u.password = d.password /\ u.listening = d.listening
           /\ ~u.ioError /\ u.out = d.out + 1
           /\ u.tr.expires = d.target
           /\ CanSend(d) => Pending(u) /\ u.channel # "NONE"
<1>1. d.out + 1 \in Nat
  BY DEF Session
<1>2. send_register(d) \in Session
  <2>1. CASE d.channel = "READY"
    BY <1>1, <2>1, ZenonT(90) DEF send_register, Session, Transaction, Transient
  <2>2. CASE d.channel # "READY" /\ CanSend(d)
    BY <1>1, <2>2, ZenonT(90) DEF send_register, Session, Transaction, Transient
  <2>3. CASE ~CanSend(d)
    BY <1>1, <2>3 DEF send_register, CanSend, Session, Transaction, Transient
  <2> QED BY <2>1, <2>2, <2>3
<1> QED BY <1>2 DEF send_register, CanSend, Session, Pending, Transient

\* Nothing is sent when a password is missing, and nothing leaves when there
\* is neither a channel nor a listening point; else a REGISTER is pending.
RefreshLeaves(d, expires, needsPassword) ==
    LET u  == refresh_internal(d, expires, needsPassword)
        ok == Refreshes(d, needsPassword)
    IN  /\ u \in Session
        /\ u.target = NewTarget(d, expires)
        /\ u.failures = d.failures /\ u.told = d.told
        /\ u.asked = d.asked /\ u.calls = d.calls
        /\ ok => Pending(u)
        /\ u.started <=> d.started /\ ~(ok /\ expires = 0)
        /\ u.timer <=> d.timer /\ ~(ok /\ expires = 0)
        /\ \/ /\ needsPassword /\ ~d.password
              /\ u.out = d.out /\ u.tr = d.tr /\ u.ioError = d.ioError
           \/ /\ u.out = d.out + 1 /\ ~u.ioError /\ u.tr.expires = u.target
              /\ ok \/ ~Pending(u)

\* What belle_sip_refresher_refresh_internal leaves, sent or not.
LEMMA Refresh ==
    ASSUME NEW d \in Session, NEW expires \in Expires \cup {Reuse},
           NEW needsPassword \in BOOLEAN
    PROVE  RefreshLeaves(d, expires, needsPassword)
<1> USE DEF RefreshLeaves
<1> DEFINE t == [d EXCEPT !.target = NewTarget(d, expires)]
           s == send_register(t)
<1>1. NewTarget(d, expires) \in Expires
  BY DEF NewTarget, Session, Expires, Reuse
<1>2. /\ t \in Session /\ t.target = NewTarget(d, expires)
      /\ t.failures = d.failures /\ t.told = d.told /\ t.asked = d.asked
      /\ t.calls = d.calls /\ t.out = d.out /\ t.tr = d.tr
      /\ t.ioError = d.ioError /\ t.started = d.started /\ t.timer = d.timer
      /\ t.password = d.password /\ (CanSend(t) <=> CanSend(d))
  BY <1>1 DEF Session, CanSend
<1>3. /\ s \in Session /\ s.started = d.started /\ s.timer = d.timer
      /\ s.target = NewTarget(d, expires) /\ s.failures = d.failures
      /\ s.told = d.told /\ s.asked = d.asked /\ s.calls = d.calls
      /\ ~s.ioError /\ s.out = d.out + 1
      /\ s.tr.expires = NewTarget(d, expires)
      /\ CanSend(d) => Pending(s)
  BY <1>2, SendRegister, ZenonT(90)
<1>4. CanSend(d) \/ ~Pending(s)
  BY <1>2 DEF send_register, CanSend, Pending, Transient, Session
<1> HIDE DEF t, s
<1>5. CASE needsPassword /\ ~d.password
  BY <1>2, <1>5 DEF refresh_internal, Refreshes, t
<1>6. CASE Refreshes(d, needsPassword) /\ expires = 0
  BY <1>3, <1>6, ZenonT(90) DEF refresh_internal, Refreshes, t, s, Session,
                    belle_sip_refresher_stop, Pending
<1>7. CASE /\ ~(needsPassword /\ ~d.password)
           /\ ~(Refreshes(d, needsPassword) /\ expires = 0)
  BY <1>3, <1>4, <1>7 DEF refresh_internal, Refreshes, t, s, Session
<1> QED BY <1>5, <1>6, <1>7

-----------------------------------------------------------------------------
(* What every callback preserves of the record.                            *)

\* NeverForgotten, and why: an error is counted once, for a transaction that
\* ended.
Kept(d) ==
    /\ d.started /\ d.target > 0 =>
            d.timer \/ Pending(d) \/ d.told \in {"refused", "unsent"}
    /\ d.ioError => ~Pending(d)

\* The part of StaysUnregistered that is about the user agent.  What ends a
\* registration is sent by a refresher that was stopped for it, hence a 423
\* or a failure makes it send nothing more.
Unregistering(d) ==
    d.asked = 0 =>
        /\ d.target = 0
        /\ Pending(d) => d.tr.expires = 0
        /\ Pending(d) \/ d.told = "refused" => ~d.started

\* After the registrar confirmed, nothing is left that sends a REGISTER.
AtRest(d) == d.told = "cleared" => ~d.timer /\ ~d.started /\ ~Pending(d)

Good(d) == Kept(d) /\ Unregistering(d) /\ AtRest(d)

\* A callback that sent nothing left the request of the transaction alone.
Counts(d, u) ==
    \/ u.out = d.out /\ u.tr.expires = d.tr.expires
    \/ u.out > d.out

\* The same when it is the timer that asks: a failure arms the timer again.
LEMMA TimerRefresh ==
    ASSUME NEW d \in Session, Unregistering(d), d.told # "cleared"
    PROVE  LET u == timer_refresh(d) IN
           /\ u \in Session /\ Good(u) /\ Counts(d, u)
           /\ u.failures = d.failures /\ u.asked = d.asked
           /\ u.calls = d.calls /\ u.told = d.told
<1> DEFINE u == refresh_internal(d, d.target, FALSE)
           ok == Refreshes(d, FALSE)
<1>1. d.target \in Expires /\ d.out \in Nat /\ NewTarget(d, d.target) = d.target
  BY DEF Session, NewTarget
<1>2. /\ u \in Session /\ u.target = d.target
      /\ u.failures = d.failures /\ u.told = d.told
      /\ u.asked = d.asked /\ u.calls = d.calls
      /\ ok => Pending(u)
      /\ u.started <=> d.started /\ ~(ok /\ d.target = 0)
      /\ u.timer <=> d.timer /\ ~(ok /\ d.target = 0)
      /\ u.out = d.out + 1 /\ ~u.ioError /\ u.tr.expires = u.target
      /\ ok \/ ~Pending(u)
  <2>1. RefreshLeaves(d, d.target, FALSE)
    BY <1>1, Refresh
  <2> QED BY <1>1, <2>1 DEF RefreshLeaves
<1>3. /\ ok \/ timer_refresh(d) = [u EXCEPT !.timer = TRUE]
      /\ ~ok \/ timer_refresh(d) = u
  BY DEF timer_refresh, schedule_timer_at, belle_sip_refresher_refresh
<1> HIDE DEF u, ok
<1>4. CASE ok
  <2>1. Kept(u) /\ Unregistering(u) /\ AtRest(u) /\ Counts(d, u)
    BY <1>1, <1>2, <1>4 DEF Kept, Unregistering, AtRest, Counts
  <2> QED BY <1>2, <1>3, <1>4, <2>1 DEF Good
<1>5. CASE ~ok
  <2> DEFINE v == [u EXCEPT !.timer = TRUE]
  <2>1. /\ v \in Session /\ v.target = u.target /\ v.failures = u.failures
        /\ v.told = u.told /\ v.asked = u.asked /\ v.calls = u.calls
        /\ v.timer /\ v.ioError = u.ioError /\ v.tr = u.tr /\ v.out = u.out
        /\ v.started = u.started
    BY <1>2 DEF Session
  <2>2. ~Pending(v) /\ ~v.ioError
    BY <1>2, <1>5, <2>1 DEF Pending
  <2> HIDE DEF v
  <2>3. Kept(v) /\ Unregistering(v) /\ AtRest(v) /\ Counts(d, v)
    BY <1>1, <1>2, <2>1, <2>2 DEF Kept, Unregistering, AtRest, Counts
  <2> QED BY <1>2, <1>3, <1>5, <2>1, <2>3 DEF Good, v
<1> QED BY <1>4, <1>5

\* The record when a final response has ended the transaction, ...
Heard(d) ==
    /\ d \in Session
    /\ d.tr.state = "COMPLETED" /\ d.channel = "READY" /\ ~d.ioError
    /\ d.told # "cleared"
    /\ d.asked = 0 => d.target = 0 /\ d.tr.expires = 0 /\ ~d.started

\* ... and what the processing of the response makes of it.
HeardLeaves(d, code, u) ==
    /\ u \in Session /\ Good(u) /\ Counts(d, u)
    /\ u.asked = d.asked /\ u.calls = d.calls
    /\ u.failures <= d.failures + (IF code = 401 THEN 1 ELSE 0)
    /\ u.told = "cleared" => code = 200 /\ u.tr.expires = 0 /\ u.out = d.out

\* A 200 Ok sets the timer, or ends a registration given up.
LEMMA Success ==
    ASSUME NEW d, Heard(d) PROVE HeardLeaves(d, 200, response_success(d))
<1> USE DEF Heard
<1> DEFINE t == [d EXCEPT !.failures = 0, !.target = d.tr.expires]
           s == [t EXCEPT !.timer = FALSE, !.started = FALSE]
<1>1. /\ d.tr.expires \in Expires /\ d.out \in Nat /\ d.failures \in Nat
      /\ d.failures >= 0
  BY DEF Session, Transaction
<1>2. /\ t \in Session /\ t.target = d.tr.expires /\ t.failures = 0
      /\ t.started = d.started /\ t.timer = d.timer /\ t.ioError = d.ioError
      /\ t.tr = d.tr /\ t.told = d.told /\ t.asked = d.asked
      /\ t.calls = d.calls /\ t.out = d.out /\ t.channel = d.channel
  BY <1>1 DEF Session
<1>3. CASE d.tr.expires = 0
  <2>1. response_success(d) = [s EXCEPT !.told = "cleared"]
    BY <1>2, <1>3
       DEF response_success, belle_sip_refresher_stop, Tell, Session
  <2> DEFINE r == [s EXCEPT !.told = "cleared"]
  <2>2. /\ r \in Session /\ ~r.started /\ ~r.timer /\ r.target = 0
        /\ r.failures = 0 /\ r.ioError = d.ioError /\ r.tr = d.tr
        /\ r.asked = d.asked /\ r.calls = d.calls /\ r.out = d.out
        /\ r.told = "cleared"
    BY <1>2, <1>3, ZenonT(90) DEF Session
  <2>3. ~Pending(r)
    BY <2>2 DEF Pending, Transient
  <2> HIDE DEF r
  <2> QED
    BY <1>1, <1>3, <2>1, <2>2, <2>3
       DEF HeardLeaves, Good, Kept, Unregistering, AtRest, Counts, r
<1>4. CASE d.tr.expires # 0 /\ d.started /\ ~d.tr.contact
  <2> DEFINE r == refresh_internal(t, t.target, FALSE)
  <2>1. response_success(d) = r
    BY <1>2, <1>4 DEF response_success, belle_sip_refresher_refresh
  <2>2. RefreshLeaves(t, t.target, FALSE) /\ Refreshes(t, FALSE)
    BY <1>1, <1>2, Refresh DEF Refreshes, CanSend
  <2>3. /\ r \in Session /\ r.target = d.tr.expires /\ r.failures = 0
        /\ r.told = d.told /\ r.asked = d.asked /\ r.calls = d.calls
        /\ Pending(r) /\ r.out = d.out + 1 /\ ~r.ioError
    BY <1>2, <1>4, <2>2, ZenonT(90) DEF RefreshLeaves, NewTarget
  <2> HIDE DEF r
  <2> QED
    BY <1>1, <1>4, <2>1, <2>3
       DEF HeardLeaves, Good, Kept, Unregistering, AtRest, Counts
<1>5. CASE d.tr.expires # 0 /\ d.started /\ d.tr.contact
  <2> DEFINE r == [[t EXCEPT !.timer = TRUE] EXCEPT !.told = "registered"]
  <2>1. response_success(d) = r
    BY <1>2, <1>5 DEF response_success, schedule_timer_at, Tell
  <2>2. /\ r \in Session /\ r.timer /\ r.failures = 0 /\ ~r.ioError
        /\ r.asked = d.asked /\ r.calls = d.calls /\ r.out = d.out
        /\ r.told = "registered" /\ r.tr = d.tr
    BY <1>2 DEF Session
  <2> HIDE DEF r
  <2> QED
    BY <1>1, <1>5, <2>1, <2>2
       DEF HeardLeaves, Good, Kept, Unregistering, AtRest, Counts
<1>6. CASE d.tr.expires # 0 /\ ~d.started
  <2> DEFINE r == [t EXCEPT !.told = "registered"]
  <2>0. t.target > 0 /\ t.target # 0 /\ ~t.started
    BY <1>1, <1>2, <1>6 DEF Expires
  <2>1. response_success(d) = r
    BY <1>6, <2>0 DEF response_success, Tell
  <2>2. /\ r \in Session /\ ~r.started /\ r.failures = 0 /\ ~r.ioError
        /\ r.asked = d.asked /\ r.calls = d.calls /\ r.out = d.out
        /\ r.told = "registered" /\ r.tr = d.tr
    BY <1>2, <1>6 DEF Session
  <2> HIDE DEF r
  <2> QED
    BY <1>1, <1>6, <2>1, <2>2
       DEF HeardLeaves, Good, Kept, Unregistering, AtRest, Counts
<1> QED BY <1>3, <1>4, <1>5, <1>6

\* A 401 repeats the REGISTER with a password, once.
LEMMA Challenge ==
    ASSUME NEW d, Heard(d) PROVE HeardLeaves(d, 401, response_challenge(d))
<1> USE DEF Heard
<1> DEFINE t == [d EXCEPT !.failures = @ + 1]
           r == refresh_internal(t, t.target, TRUE)
<1>1. /\ d.target \in Expires /\ d.target \in Nat /\ d.out \in Nat
      /\ d.failures \in Nat /\ d.failures + 1 \in Nat
  BY DEF Session, Expires
<1>2. /\ t \in Session /\ t.target = d.target /\ t.failures = d.failures + 1
      /\ t.started = d.started /\ t.timer = d.timer /\ t.ioError = d.ioError
      /\ t.tr = d.tr /\ t.told = d.told /\ t.asked = d.asked
      /\ t.calls = d.calls /\ t.out = d.out /\ t.channel = d.channel
      /\ t.password = d.password
  BY <1>1 DEF Session
<1>3. CanSend(t) /\ ~Pending(t)
  BY <1>2 DEF CanSend, Pending, Transient
<1>4. RefreshLeaves(t, t.target, TRUE)
  BY <1>1, <1>2, Refresh
<1> DEFINE ok == t.password /\ CanSend(t)
<1>5. response_challenge(d) =
         CASE t.failures > 3 /\ t.target > 0 -> Tell(schedule_timer_at(t), "failed")
           [] t.failures > 3 /\ t.target = 0 -> Tell(t, "failed")
           [] t.failures <= 3 /\ ok -> r
           [] OTHER -> Tell(r, "refused")
  BY DEF response_challenge, Refreshes
<1>6. Refreshes(t, TRUE) <=> ok
  BY DEF Refreshes
<1>7. ~ok => r = t
  <2> SUFFICES ASSUME ~ok PROVE r = t
    OBVIOUS
  <2>1. r = [t EXCEPT !.target = t.target]
    BY <1>3 DEF refresh_internal, NewTarget, Refreshes
  <2> HIDE DEF t, r
  <2> QED BY <1>2, <2>1 DEF Session
<1>8. ok => /\ r \in Session /\ r.target = t.target /\ r.failures = t.failures
            /\ r.told = t.told /\ r.asked = t.asked /\ r.calls = t.calls
            /\ Pending(r) /\ r.out = t.out + 1 /\ ~r.ioError
            /\ r.tr.expires = t.target
            /\ r.started => t.started
  BY <1>4, <1>6 DEF RefreshLeaves, NewTarget
<1> HIDE DEF t, r, ok
<1>9. CASE t.failures > 3 /\ t.target > 0
  <2> DEFINE v == [[t EXCEPT !.timer = TRUE] EXCEPT !.told = "failed"]
  <2>1. response_challenge(d) = v
    BY <1>1, <1>2, <1>9, <1>5 DEF schedule_timer_at, Tell
  <2>2. /\ v \in Session /\ v.timer /\ v.failures = t.failures
        /\ v.ioError = t.ioError /\ v.asked = t.asked /\ v.calls = t.calls
        /\ v.out = t.out /\ v.told = "failed" /\ v.tr = t.tr
        /\ v.target = t.target /\ v.started = t.started
    BY <1>2 DEF Session
  <2> HIDE DEF v
  <2> QED
    BY <1>1, <1>2, <2>1, <2>2
       DEF HeardLeaves, Good, Kept, Unregistering, AtRest, Counts
<1>10. CASE t.failures > 3 /\ t.target = 0
  <2> DEFINE v == [t EXCEPT !.told = "failed"]
  <2>1. response_challenge(d) = v
    BY <1>1, <1>2, <1>10, <1>5 DEF Tell
  <2>2. /\ v \in Session /\ v.failures = t.failures
        /\ v.ioError = t.ioError /\ v.asked = t.asked /\ v.calls = t.calls
        /\ v.out = t.out /\ v.told = "failed" /\ v.tr = t.tr
        /\ v.target = 0 /\ v.started = t.started
    BY <1>2, <1>10 DEF Session
  <2> HIDE DEF v
  <2> QED
    BY <1>1, <1>2, <2>1, <2>2
       DEF HeardLeaves, Good, Kept, Unregistering, AtRest, Counts
<1>11. CASE t.failures <= 3 /\ ok
  <2>1. response_challenge(d) = r
    BY <1>1, <1>2, <1>11, <1>5
  <2>2. Kept(r) /\ Unregistering(r) /\ AtRest(r) /\ Counts(d, r)
    BY <1>1, <1>2, <1>11, <1>8 DEF Kept, Unregistering, AtRest, Counts
  <2> QED BY <1>1, <1>2, <1>11, <1>8, <2>1, <2>2 DEF HeardLeaves, Good
<1>12. CASE t.failures <= 3 /\ ~ok
  <2> DEFINE v == [t EXCEPT !.told = "refused"]
  <2>1. response_challenge(d) = v
    BY <1>1, <1>2, <1>12, <1>5, <1>7 DEF Tell
  <2>2. /\ v \in Session /\ v.failures = t.failures
        /\ v.ioError = t.ioError /\ v.asked = t.asked /\ v.calls = t.calls
        /\ v.out = t.out /\ v.told = "refused" /\ v.tr = t.tr
        /\ v.target = t.target /\ v.started = t.started
    BY <1>2 DEF Session
  <2> HIDE DEF v
  <2> QED
    BY <1>1, <1>2, <2>1, <2>2
       DEF HeardLeaves, Good, Kept, Unregistering, AtRest, Counts
<1>13. t.failures <= 3 \/ t.failures > 3
  BY <1>1, <1>2
<1>14. t.target = 0 \/ t.target > 0
  BY <1>1, <1>2 DEF Expires
<1> QED BY <1>9, <1>10, <1>11, <1>12, <1>13, <1>14

\* Any final answer leaves a refresher that is kept alive, if it is to be.
LEMMA Response ==
    ASSUME NEW d, Heard(d), NEW code \in Final
    PROVE  HeardLeaves(d, code, process_response_event(d, code))
<1> USE DEF Heard
<1>1. /\ d.target \in Nat /\ d.out \in Nat /\ d.failures \in Nat
      /\ d.tr.state \notin Transient
  BY DEF Session, Expires, Transient
<1>2. CASE code = 200
  BY <1>2, Success DEF process_response_event
<1>3. CASE code = 401
  BY <1>3, Challenge DEF process_response_event
<1>4. CASE code = 423
  <2>1. process_response_event(d, code) = response_too_brief(d)
    BY <1>4 DEF process_response_event
  <2>2. CASE d.started
    <3> DEFINE r == refresh_internal(d, Long, FALSE)
    <3>1. response_too_brief(d) = r
      BY <2>2 DEF response_too_brief, belle_sip_refresher_refresh
    <3>2. RefreshLeaves(d, Long, FALSE)
      <4>1. Long \in Expires \cup {Reuse}
        BY DEF Expires, Long
      <4> QED BY <4>1, Refresh
    <3>4. Refreshes(d, FALSE)
      BY DEF Refreshes, CanSend
    <3>3. /\ r \in Session /\ Pending(r) /\ r.failures = d.failures
          /\ r.told = d.told /\ r.asked = d.asked /\ r.calls = d.calls
          /\ r.out = d.out + 1 /\ ~r.ioError
      BY <3>2, <3>4 DEF RefreshLeaves
    <3> HIDE DEF r
    <3> QED
      BY <1>1, <1>4, <2>1, <2>2, <3>1, <3>3
         DEF HeardLeaves, Good, Kept, Unregistering, AtRest, Counts
  <2>3. CASE ~d.started
    <3> DEFINE v == [d EXCEPT !.told = "refused"]
    <3>1. response_too_brief(d) = v
      BY <2>3 DEF response_too_brief, Tell
    <3>2. /\ v \in Session /\ v.failures = d.failures /\ ~v.ioError
          /\ v.asked = d.asked /\ v.calls = d.calls /\ v.out = d.out
          /\ v.told = "refused" /\ v.tr = d.tr /\ v.target = d.target
          /\ ~v.started
      BY <2>3 DEF Session
    <3> HIDE DEF v
    <3> QED
      BY <1>1, <1>4, <2>1, <3>1, <3>2
         DEF HeardLeaves, Good, Kept, Unregistering, AtRest, Counts
  <2> QED BY <2>2, <2>3
<1>5. CASE code = 503
  <2> DEFINE w == IF d.target > 0 THEN [d EXCEPT !.timer = TRUE] ELSE d
             v == [w EXCEPT !.told = "failed"]
  <2>1. process_response_event(d, code) = v
    BY <1>5 DEF process_response_event, schedule_timer_at, Tell
  <2>2. /\ v \in Session /\ v.failures = d.failures /\ ~v.ioError
        /\ v.asked = d.asked /\ v.calls = d.calls /\ v.out = d.out
        /\ v.told = "failed" /\ v.tr = d.tr /\ v.target = d.target
        /\ v.started = d.started /\ (d.target > 0 => v.timer)
    BY DEF Session
  <2> HIDE DEF v
  <2> QED
    BY <1>1, <1>5, <2>1, <2>2
       DEF HeardLeaves, Good, Kept, Unregistering, AtRest, Counts
<1>6. CASE code = 403
  <2> DEFINE v == [d EXCEPT !.told = "refused"]
  <2>1. process_response_event(d, code) = v
    BY <1>6 DEF process_response_event, Tell
  <2>2. /\ v \in Session /\ v.failures = d.failures /\ ~v.ioError
        /\ v.asked = d.asked /\ v.calls = d.calls /\ v.out = d.out
        /\ v.told = "refused" /\ v.tr = d.tr /\ v.target = d.target
        /\ v.started = d.started
    BY DEF Session
  <2> HIDE DEF v
  <2> QED
    BY <1>1, <1>6, <2>1, <2>2
       DEF HeardLeaves, Good, Kept, Unregistering, AtRest, Counts
<1> QED BY <1>2, <1>3, <1>4, <1>5, <1>6 DEF Final

-----------------------------------------------------------------------------
(* Errors and timeouts.                                                    *)

\* What an error of a channel or of the transaction leaves alone.
Unsent(d, u) ==
    /\ u \in Session
    /\ u.started = d.started /\ u.target = d.target
    /\ u.failures = d.failures /\ u.asked = d.asked /\ u.calls = d.calls
    /\ u.out = d.out /\ u.tr.expires = d.tr.expires
    /\ Pending(u) => Pending(d)
    /\ u.told = "cleared" => d.told = "cleared"

\* A transaction that ends now is not missed.
KeptWithout(d) ==
    d.started /\ d.target > 0 => d.timer \/ d.told \in {"refused", "unsent"}

\* An io error of the provider arms the timer or tells the application.
LEMMA ProviderError ==
    ASSUME NEW d \in Session, Good(d)
    PROVE  LET u == process_io_error_of_provider(d) IN
           Good(u) /\ Unsent(d, u) /\ u.tr = d.tr
<1>1. CASE d.started /\ ~d.ioError /\ d.tr.state = "TERMINATED" /\ ChannelFailed(d)
  <2> DEFINE u == [[[d EXCEPT !.timer = TRUE] EXCEPT !.told = "failed"]
                    EXCEPT !.ioError = TRUE]
  <2>1. process_io_error_of_provider(d) = u
    BY <1>1 DEF process_io_error_of_provider, schedule_timer_at, Tell
  <2>2. /\ u \in Session /\ u.timer /\ u.told = "failed" /\ u.tr = d.tr
        /\ u.started = d.started /\ u.target = d.target /\ u.out = d.out
        /\ u.failures = d.failures /\ u.asked = d.asked /\ u.calls = d.calls
    BY DEF Session
  <2>3. ~Pending(u) /\ (Pending(u) <=> Pending(d))
    BY <1>1, <2>2 DEF Pending, Transient
  <2> HIDE DEF u
  <2> QED
    BY <2>1, <2>2, <2>3
       DEF Good, Kept, Unregistering, AtRest, Unsent
<1>2. CASE ~(d.started /\ ~d.ioError /\ d.tr.state = "TERMINATED" /\ ChannelFailed(d))
  <2>1. process_io_error_of_provider(d) = d
    BY <1>2 DEF process_io_error_of_provider
  <2> QED BY <2>1 DEF Unsent
<1> QED BY <1>1, <1>2

\* So does a timeout, which needs no transaction to go on.
LEMMA TimeoutTold ==
    ASSUME NEW d \in Session, Good(d)
    PROVE  LET u == process_timeout(d) IN
           Good(u) /\ KeptWithout(u) /\ Unsent(d, u) /\ u.tr = d.tr
<1> DEFINE w == IF d.started THEN [d EXCEPT !.timer = TRUE] ELSE d
           u == [w EXCEPT !.told = "failed"]
<1>1. process_timeout(d) = u
  BY DEF process_timeout, retry_later_if_started, schedule_timer_at, Tell
<1>2. /\ u \in Session /\ (d.started => u.timer) /\ u.told = "failed"
      /\ u.tr = d.tr /\ u.started = d.started /\ u.target = d.target
      /\ u.out = d.out /\ u.failures = d.failures /\ u.asked = d.asked
      /\ u.calls = d.calls /\ u.ioError = d.ioError
  BY DEF Session
<1>3. Pending(u) <=> Pending(d)
  BY <1>2 DEF Pending
<1> HIDE DEF u
<1> QED
  BY <1>1, <1>2, <1>3
     DEF Good, Kept, KeptWithout, Unregistering, AtRest, Unsent

\* So does an io error of the pending transaction.
LEMMA TransactionError ==
    ASSUME NEW d \in Session, Good(d), Pending(d)
    PROVE  LET u == process_io_error_of_transaction(d) IN
           Good(u) /\ KeptWithout(u) /\ Unsent(d, u) /\ u.tr = d.tr
<1> DEFINE ignored == \/ d.ioError
                      \/ ~d.started /\ d.tr.state \notin {"TRYING", "INIT"}
                      \/ d.target = 0 /\ d.tr.state \notin {"TRYING", "INIT"}
           w == IF d.started THEN [d EXCEPT !.timer = TRUE] ELSE d
           u == [w EXCEPT !.told = "failed"]
<1>1. CASE ignored
  <2>1. process_io_error_of_transaction(d) = d
    BY <1>1 DEF process_io_error_of_transaction
  <2>2. KeptWithout(d)
    BY <1>1 DEF Good, Kept, KeptWithout
  <2> QED BY <2>1, <2>2 DEF Unsent
<1>2. CASE ~ignored
  <2>1. process_io_error_of_transaction(d) = u
    BY <1>2 DEF process_io_error_of_transaction, retry_later_if_started,
                schedule_timer_at, Tell
  <2>2. /\ u \in Session /\ (d.started => u.timer) /\ u.told = "failed"
        /\ u.tr = d.tr /\ u.started = d.started /\ u.target = d.target
        /\ u.out = d.out /\ u.failures = d.failures /\ u.asked = d.asked
        /\ u.calls = d.calls /\ u.ioError = d.ioError
    BY DEF Session
  <2>3. Pending(u) <=> Pending(d)
    BY <2>2 DEF Pending
  <2> HIDE DEF u, w, ignored
  <2> QED
    BY <2>1, <2>2, <2>3
       DEF Good, Kept, KeptWithout, Unregistering, AtRest, Unsent
<1> QED BY <1>1, <1>2

\* However the three reports of a channel that is gone come together, the
\* transaction that used it ends and is not missed.
LEMMA ChannelClosed ==
    ASSUME NEW d \in Session, Good(d)
    PROVE  LET u == channel_closed(d) IN Good(u) /\ Unsent(d, u)
<1> DEFINE p == process_io_error_of_provider(d)
           t == IF p.tr.state \in Transient
                THEN process_io_error_of_transaction(p) ELSE p
           u == IF t.tr.timedOut THEN process_timeout(t) ELSE t
           v == [u EXCEPT !.tr.state = "TERMINATED", !.tr.channel = "gone"]
<1>1. Good(p) /\ Unsent(d, p)
  BY ProviderError
<1>2. Good(t) /\ KeptWithout(t) /\ Unsent(p, t)
  <2>1. CASE p.tr.state \in Transient
    BY <1>1, <2>1, TransactionError DEF Unsent, Pending
  <2>2. CASE p.tr.state \notin Transient
    BY <1>1, <2>2 DEF Unsent, Pending, Good, Kept, KeptWithout
  <2> QED BY <2>1, <2>2
<1>3. Good(u) /\ KeptWithout(u) /\ Unsent(t, u)
  <2>1. CASE t.tr.timedOut
    BY <1>2, <2>1, TimeoutTold DEF Unsent
  <2>2. CASE ~t.tr.timedOut
    BY <1>2, <2>2, SMTT(60) DEF Unsent
  <2> QED BY <2>1, <2>2
<1>4. Unsent(d, u)
  BY <1>1, <1>2, <1>3 DEF Unsent
<1>5. channel_closed(d) = IF u.tr.channel = "current" THEN v ELSE u
  BY DEF channel_closed
<1> HIDE DEF p, t, u
<1>6. u \in Session
  BY <1>4 DEF Unsent
<1>7. /\ v \in Session /\ v.started = u.started /\ v.target = u.target
      /\ v.failures = u.failures /\ v.asked = u.asked /\ v.calls = u.calls
      /\ v.out = u.out /\ v.tr.expires = u.tr.expires /\ v.told = u.told
      /\ v.timer = u.timer /\ v.ioError = u.ioError
      /\ v.tr.state = "TERMINATED"
  BY <1>6 DEF Session, Transaction
<1>8. ~Pending(v)
  BY <1>7 DEF Pending, Transient
<1> HIDE DEF v
<1>9. Good(v) /\ Unsent(d, v)
  BY <1>3, <1>4, <1>7, <1>8
     DEF Good, Kept, KeptWithout, Unregistering, AtRest, Unsent
<1> QED BY <1>3, <1>4, <1>5, <1>9

-----------------------------------------------------------------------------
(* The messages and the registrar.                                         *)

RequestTypes == [age : Ages, expires : Expires]
AnswerTypes  == [age : Ages, code : Final \cup {100}]

\* REGISTERs that are counted as older have their types still.
LEMMA OlderRequests ==
    ASSUME NEW n \in Nat, NEW ms, ms \subseteq RequestTypes
    PROVE  /\ Older(ms, n) \subseteq RequestTypes
           /\ \A m \in Older(ms, n) :
                \E k \in ms : m.expires = k.expires /\ m.age = k.age + n
<1> SUFFICES ASSUME NEW m \in Older(ms, n)
             PROVE  /\ m \in RequestTypes
                    /\ \E k \in ms : m.expires = k.expires /\ m.age = k.age + n
  OBVIOUS
<1>1. PICK k \in ms : k.age + n <= MaxAge /\ m = [k EXCEPT !.age = @ + n]
  BY DEF Older
<1>2. k.age \in Nat /\ k.expires \in Expires /\ k \in RequestTypes
  BY <1>1 DEF RequestTypes, Ages
<1>3. k.age + n \in Ages
  BY <1>1, <1>2, BoundsAssumption DEF Ages
<1> QED BY <1>1, <1>2, <1>3 DEF RequestTypes

\* Answers that are counted as older have their types still.
LEMMA OlderAnswers ==
    ASSUME NEW n \in Nat, NEW ms, ms \subseteq AnswerTypes
    PROVE  /\ Older(ms, n) \subseteq AnswerTypes
           /\ \A m \in Older(ms, n) :
                \E k \in ms : m.code = k.code /\ m.age = k.age + n
<1> SUFFICES ASSUME NEW m \in Older(ms, n)
             PROVE  /\ m \in AnswerTypes
                    /\ \E k \in ms : m.code = k.code /\ m.age = k.age + n
  OBVIOUS
<1>1. PICK k \in ms : k.age + n <= MaxAge /\ m = [k EXCEPT !.age = @ + n]
  BY DEF Older
<1>2. k.age \in Nat /\ k.code \in Final \cup {100} /\ k \in AnswerTypes
  BY <1>1 DEF AnswerTypes, Ages
<1>3. k.age + n \in Ages
  BY <1>1, <1>2, BoundsAssumption DEF Ages
<1> QED BY <1>1, <1>2, <1>3 DEF AnswerTypes

NetTypes ==
    /\ requests \subseteq RequestTypes
    /\ answers \subseteq AnswerTypes
    /\ registrar \in [binding : Expires, age : 0..MaxAge + 1]

\* What the registrar holds is what the last REGISTER asked once that has
\* been answered with 200, and the refresher says so.
Confirmed ==
    /\ \A m \in requests : m.age = 0 => m.expires = ua.tr.expires
    /\ \A m \in answers : m.code = 200 =>
            /\ registrar.age <= m.age
            /\ m.age = 0 /\ ua.tr.expires = 0 => registrar.binding = 0
    /\ ua.told = "cleared" => registrar.age = 0 /\ registrar.binding = 0

\* Each challenge that is counted, or that will be, is one of the faults.
Challenges(ms) == {m \in ms : m.code = 401}

Counted ==
    /\ faults \in 0..MaxFaults /\ IsFiniteSet(answers)
    /\ ua.failures + Cardinality(Challenges(answers)) <= faults

\* Growing older makes no challenges.
LEMMA OlderChallenges ==
    ASSUME NEW ms, IsFiniteSet(ms), NEW n
    PROVE  /\ IsFiniteSet(Older(ms, n))
           /\ Cardinality(Challenges(Older(ms, n))) <= Cardinality(Challenges(ms))
<1> DEFINE Aged(m) == [m EXCEPT !.age = @ + n]
           S == {m \in ms : m.age + n <= MaxAge}
           C == {m \in S : Aged(m).code = 401}
           D == {m \in Challenges(ms) : m.age + n <= MaxAge}
<1>1. IsFiniteSet(S) /\ IsFiniteSet(Challenges(ms))
  BY FS_Subset DEF Challenges
<1>2. Older(ms, n) = {Aged(m) : m \in S}
  BY DEF Older
<1>3. IsFiniteSet(Older(ms, n))
  <2> DEFINE f == [m \in S |-> Aged(m)]
  <2>1. f \in Surjection(S, Older(ms, n))
    BY <1>2 DEF Surjection
  <2> QED BY <1>1, <2>1, FS_Surjection
<1>5. \A m : Aged(m).code = 401 => m.code = 401
  OBVIOUS
<1> HIDE DEF Aged
<1>4. Challenges(Older(ms, n)) = {Aged(m) : m \in C}
  <2>1. ASSUME NEW x PROVE x \in Challenges(Older(ms, n)) <=> x \in {Aged(m) : m \in C}
    BY <1>2 DEF Challenges
  <2> HIDE DEF C
  <2> QED BY <2>1
<1>6. C \in SUBSET Challenges(ms)
  BY <1>5 DEF Challenges
<1>7. IsFiniteSet(C) /\ Cardinality(C) <= Cardinality(Challenges(ms))
  BY <1>1, <1>6, FS_Subset
<1>8. Cardinality(Challenges(Older(ms, n))) <= Cardinality(C)
  <2> DEFINE f == [m \in C |-> Aged(m)]
  <2>1. f \in Surjection(C, Challenges(Older(ms, n)))
    BY <1>4 DEF Surjection
  <2> QED BY <1>7, <2>1, FS_Surjection
<1>9. /\ IsFiniteSet(Challenges(Older(ms, n)))
      /\ Cardinality(Challenges(Older(ms, n))) \in Nat
      /\ Cardinality(C) \in Nat /\ Cardinality(Challenges(ms)) \in Nat
  BY <1>1, <1>3, <1>7, FS_Subset, FS_CardinalityType DEF Challenges
<1> QED BY <1>3, <1>7, <1>8, <1>9

\* Taking answers away makes no challenges, and one less if a 401 is taken.
LEMMA FewerChallenges ==
    ASSUME NEW ms, IsFiniteSet(ms), NEW as, as \subseteq ms
    PROVE  /\ IsFiniteSet(as) /\ Cardinality(Challenges(ms)) \in Nat
           /\ Cardinality(Challenges(as)) \in Nat
           /\ Cardinality(Challenges(as)) <= Cardinality(Challenges(ms))
           /\ (\E m \in ms \ as : m.code = 401) =>
                Cardinality(Challenges(as)) + 1 <= Cardinality(Challenges(ms))
<1>1. IsFiniteSet(as) /\ IsFiniteSet(Challenges(ms)) /\ IsFiniteSet(Challenges(as))
  BY FS_Subset DEF Challenges
<1>2. Challenges(as) \in SUBSET Challenges(ms)
  BY DEF Challenges
<1> DEFINE a == Cardinality(Challenges(as))
           b == Cardinality(Challenges(ms))
<1>3. /\ a \in Nat /\ b \in Nat /\ a <= b
      /\ a = b => Challenges(as) = Challenges(ms)
  BY <1>1, <1>2, FS_Subset, FS_CardinalityType
<1>4. (\E m \in ms \ as : m.code = 401) => Challenges(as) # Challenges(ms)
  BY DEF Challenges
<1> HIDE DEF a, b
<1>5. a # b => a + 1 <= b
  BY <1>3
<1> QED BY <1>1, <1>3, <1>4, <1>5 DEF a, b

Inv == /\ ua \in Agent /\ Good(ua) /\ ua.calls <= MaxAsked
       /\ NetTypes /\ Confirmed /\ Counted

\* What a callback that leaves the answers "as" must do for Inv.
Done(as, d) ==
    /\ d \in Session /\ Good(d) /\ d.calls <= MaxAsked
    /\ \/ d.out = 0 /\ d.tr.expires = ua.tr.expires
       \/ d.out > 0
    /\ d.told = "cleared" =>
            d.out = 0 /\ registrar.age = 0 /\ registrar.binding = 0
    /\ \/ d.failures <= ua.failures
       \/ /\ d.failures <= ua.failures + 1
          /\ \E m \in answers \ as : m.code = 401

\* A callback whose record is good at its end keeps the invariant.
LEMMA RunStep ==
    ASSUME Inv, NEW rs, NEW as, NEW d, rs \subseteq requests,
           as \subseteq answers, Done(as, d), Run(rs, as, d),
           faults' \in faults..MaxFaults
    PROVE  Inv'
<1> USE BoundsAssumption
<1>1. /\ ua' \in Agent
      /\ ua'.started = d.started /\ ua'.timer = d.timer
      /\ ua'.target = d.target /\ ua'.ioError = d.ioError /\ ua'.tr = d.tr
      /\ ua'.asked = d.asked /\ ua'.calls = d.calls /\ ua'.told = d.told
      /\ ua'.failures = d.failures
  <2>1. ua \in Agent /\ d \in Session
    BY DEF Inv, Done
  <2> QED BY <2>1, RunLeaves
<1>2. Good(ua') /\ ua'.calls <= MaxAsked
  BY <1>1 DEF Done, Good, Kept, Unregistering, AtRest, Pending
<1>3. /\ d.out \in Nat /\ d.tr.expires \in Expires /\ d.sent \in BOOLEAN
      /\ d.out = 0 \/ d.out > 0
  BY DEF Done, Session, Transaction
<1>4. /\ requests' = Older(rs, d.out) \cup
                        IF d.sent THEN {[age |-> 0, expires |-> d.tr.expires]}
                        ELSE {}
      /\ answers' = Older(as, d.out)
      /\ registrar' = [registrar EXCEPT
                            !.age = Least(@ + d.out, MaxAge + 1)]
  BY DEF Run
<1>5. registrar.binding \in Expires /\ registrar.age \in 0..MaxAge + 1
  BY DEF Inv, NetTypes
<1>6. /\ registrar'.binding = registrar.binding
      /\ registrar' \in [binding : Expires, age : 0..MaxAge + 1]
      /\ registrar'.age <= registrar.age + d.out
  BY <1>3, <1>4, <1>5 DEF Inv, NetTypes, Least
<1>7. /\ Older(rs, d.out) \subseteq RequestTypes
      /\ \A m \in Older(rs, d.out) :
            \E k \in rs : m.expires = k.expires /\ m.age = k.age + d.out
  BY <1>3, OlderRequests DEF Inv, NetTypes
<1>8. /\ answers' \subseteq AnswerTypes
      /\ \A m \in answers' :
            \E k \in as : m.code = k.code /\ m.age = k.age + d.out
  BY <1>3, <1>4, OlderAnswers, ZenonT(90) DEF Inv, NetTypes
<1>9. NetTypes'
  <2>1. [age |-> 0, expires |-> d.tr.expires] \in RequestTypes
    BY <1>3 DEF RequestTypes, Ages
  <2> QED BY <1>4, <1>6, <1>7, <1>8, <2>1 DEF NetTypes
<1>10. ASSUME NEW m \in requests', m.age = 0
       PROVE  m.expires = ua'.tr.expires
  <2>1. CASE m \in Older(rs, d.out)
    <3>1. PICK k \in rs : m.expires = k.expires /\ m.age = k.age + d.out
      BY <1>7, <2>1
    <3>2. k \in requests /\ k.age \in Nat
      BY <3>1 DEF Inv, NetTypes, RequestTypes, Ages
    <3>3. k.age = 0 /\ d.out = 0
      BY <1>3, <1>10, <3>1, <3>2
    <3> QED BY <1>1, <3>1, <3>2, <3>3 DEF Done, Inv, Confirmed
  <2>2. CASE m \notin Older(rs, d.out)
    BY <1>1, <1>4, <1>10, <2>2
  <2> QED BY <2>1, <2>2
<1>11. ASSUME NEW m \in answers', m.code = 200
       PROVE  /\ registrar'.age <= m.age
              /\ m.age = 0 /\ ua'.tr.expires = 0 => registrar'.binding = 0
  <2>1. PICK k \in as : m.code = k.code /\ m.age = k.age + d.out
    BY <1>8
  <2>2. k \in answers /\ k.code = 200 /\ k.age \in Nat
    <3>1. k \in AnswerTypes
      BY <2>1 DEF Inv, NetTypes
    <3>2. k.age \in Nat
      BY <3>1 DEF AnswerTypes, Ages
    <3> QED BY <1>11, <2>1, <3>2
  <2>3. registrar.age <= k.age
    BY <2>2 DEF Inv, Confirmed
  <2>4. registrar'.age <= m.age
    BY <1>3, <1>5, <1>6, <2>1, <2>2, <2>3 DEF NetTypes
  <2>5. ASSUME m.age = 0, ua'.tr.expires = 0 PROVE registrar'.binding = 0
    <3>1. k.age = 0 /\ d.out = 0
      BY <1>3, <2>1, <2>2, <2>5
    <3> QED BY <1>1, <1>6, <2>2, <2>5, <3>1 DEF Done, Inv, Confirmed
  <2> QED BY <2>4, <2>5
<1>12. ua'.told = "cleared" => registrar'.age = 0 /\ registrar'.binding = 0
  BY <1>1, <1>4, <1>6 DEF Done, Least, Inv, NetTypes
<1>13. Counted'
  <2>1. IsFiniteSet(answers) /\ faults \in 0..MaxFaults
    BY DEF Inv, Counted
  <2> DEFINE a == Cardinality(Challenges(answers))
             b == Cardinality(Challenges(as))
             c == Cardinality(Challenges(answers'))
             paid == \E m \in answers \ as : m.code = 401
  <2>2. /\ IsFiniteSet(as) /\ a \in Nat /\ b \in Nat /\ b <= a
        /\ paid => b + 1 <= a
    BY <2>1, FewerChallenges
  <2>3. IsFiniteSet(answers') /\ c <= b
    BY <1>4, <2>2, OlderChallenges
  <2>4. c \in Nat
    BY <2>3, FewerChallenges
  <2>5. ua.failures \in Nat /\ d.failures \in Nat
    BY DEF Inv, Agent, Done, Session
  <2>6. \/ d.failures <= ua.failures
        \/ d.failures <= ua.failures + 1 /\ paid
    BY Zenon DEF Done
  <2>7. ua.failures + a <= faults
    BY DEF Inv, Counted
  <2>8. faults' \in 0..MaxFaults /\ faults <= faults'
    BY <2>1
  <2> HIDE DEF a, b, c, paid
  <2>9. d.failures + c <= faults'
    BY <2>1, <2>2, <2>3, <2>4, <2>5, <2>6, <2>7, <2>8
  <2> QED BY <1>1, <2>3, <2>8, <2>9 DEF Counted, c
<1> QED
  BY <1>1, <1>2, <1>9, <1>10, <1>11, <1>12, <1>13 DEF Inv, Confirmed

-----------------------------------------------------------------------------
(* Each action.                                                            *)

\* A call of the application starts from a record d that differs from the
\* user agent in what the application asked or knows.
Asks(d, expires) ==
    /\ d \in Session /\ d.out = 0 /\ d.calls = ua.calls
    /\ d.failures = ua.failures
    /\ d.asked = 0 =>
            /\ NewTarget(d, expires) = 0
            /\ d.started => expires = 0

\* A call of the application whose record is good at its end keeps the invariant.
LEMMA CallStep ==
    ASSUME Inv, NEW expires \in Expires \cup {Reuse}, NEW d,
           Asks(d, expires), Call(expires, d)
    PROVE  Inv'
<1> USE BoundsAssumption
<1> DEFINE ok == Refreshes(d, FALSE)
           u == refresh_internal(d, expires, FALSE)
           v == [u EXCEPT !.calls = @ + 1,
                          !.told = IF CanSend(d) THEN "nothing" ELSE "unsent"]
<1>1. /\ d \in Session /\ d.out = 0 /\ d.calls \in Nat /\ ua.calls \in Nat
      /\ d.calls = ua.calls /\ d.failures = ua.failures /\ ua.failures \in Nat
  BY DEF Asks, Session, Inv, Agent
<1>2. /\ u \in Session /\ u.target = NewTarget(d, expires)
      /\ u.failures = d.failures /\ u.asked = d.asked /\ u.calls = d.calls
      /\ ok => Pending(u)
      /\ u.started <=> d.started /\ ~(ok /\ expires = 0)
      /\ u.out = d.out + 1 /\ ~u.ioError /\ u.tr.expires = u.target
      /\ ok \/ ~Pending(u)
  <2>1. RefreshLeaves(d, expires, FALSE)
    BY <1>1, Refresh
  <2> QED BY <2>1 DEF RefreshLeaves
<1>3. ok <=> CanSend(d)
  BY DEF Refreshes
<1>4. ua.calls < MaxAsked /\ Run(requests, answers, v) /\ faults' = faults
  BY DEF Call, belle_sip_refresher_refresh
<1> HIDE DEF u, ok
<1>5. u.calls + 1 \in Nat
  BY <1>1, <1>2
<1>6. /\ v \in Session /\ v.target = u.target /\ v.failures = u.failures
      /\ v.asked = u.asked /\ v.calls = u.calls + 1 /\ v.started = u.started
      /\ v.out = u.out /\ v.ioError = u.ioError /\ v.tr = u.tr
      /\ v.told = IF CanSend(d) THEN "nothing" ELSE "unsent"
  BY <1>2, <1>5 DEF Session
<1>7. Pending(v) <=> Pending(u)
  BY <1>6 DEF Pending
<1> HIDE DEF v
<1>8. d.asked = 0 => NewTarget(d, expires) = 0 /\ (d.started => expires = 0)
  BY DEF Asks
<1>9. v.told # "cleared" /\ v.told # "refused" /\ (ok \/ v.told = "unsent")
  BY <1>3, <1>6
<1>10. Kept(v) /\ AtRest(v)
  BY <1>2, <1>6, <1>7, <1>9 DEF Kept, AtRest
<1>11. Unregistering(v)
  BY <1>2, <1>6, <1>7, <1>8, <1>9 DEF Unregistering
<1>12. v.calls <= MaxAsked /\ v.out > 0 /\ v.failures <= ua.failures
  BY <1>1, <1>2, <1>4, <1>6
<1>13. Done(answers, v)
  BY <1>6, <1>9, <1>10, <1>11, <1>12 DEF Done, Good
<1>14. faults' \in faults..MaxFaults
  BY <1>4 DEF Inv, Counted
<1> QED BY <1>4, <1>13, <1>14, RunStep

\* The three calls of the application keep the invariant.
LEMMA CallsStep ==
    ASSUME Inv, sal_register_refresh \/ sal_unregister \/ sal_op_authenticate
    PROVE  Inv'
<1> DEFINE B == Begin
<1>1. /\ ua \in Agent /\ B \in Session /\ B.out = 0 /\ B.calls = ua.calls
      /\ B.failures = ua.failures /\ B.target = ua.target
      /\ B.asked = ua.asked /\ B.started = ua.started
  BY BeginIs DEF Inv
<1> HIDE DEF B
<1>2. CASE sal_register_refresh
  <2> DEFINE d == [B EXCEPT !.asked = Long]
  <2>1. /\ d \in Session /\ d.out = 0 /\ d.calls = ua.calls
        /\ d.failures = ua.failures /\ d.asked # 0
    BY <1>1 DEF Session, Long, Expires
  <2> HIDE DEF d
  <2>2. Asks(d, Long)
    BY <2>1 DEF Asks
  <2>3. Call(Long, d) /\ Long \in Expires \cup {Reuse}
    BY <1>2 DEF sal_register_refresh, d, B, Long, Expires
  <2> QED BY <2>2, <2>3, CallStep
<1>3. CASE sal_unregister
  <2> DEFINE d == [B EXCEPT !.asked = 0]
  <2>1. /\ d \in Session /\ d.out = 0 /\ d.calls = ua.calls
        /\ d.failures = ua.failures /\ NewTarget(d, 0) = 0
    BY <1>1 DEF Session, Expires, NewTarget, Reuse
  <2> HIDE DEF d
  <2>2. Asks(d, 0)
    BY <2>1 DEF Asks
  <2>3. Call(0, d) /\ 0 \in Expires \cup {Reuse}
    BY <1>3 DEF sal_unregister, d, B, Expires
  <2> QED BY <2>2, <2>3, CallStep
<1>4. CASE sal_op_authenticate
  <2> DEFINE d == [B EXCEPT !.password = TRUE]
  <2>1. ua.asked = 0 => ua.target = 0 /\ ~ua.started
    BY <1>4 DEF sal_op_authenticate, Inv, Good, Unregistering
  <2>2. /\ d \in Session /\ d.out = 0 /\ d.calls = ua.calls
        /\ d.failures = ua.failures /\ d.target = ua.target
        /\ d.asked = ua.asked /\ d.started = ua.started
        /\ NewTarget(d, Reuse) = ua.target
    BY <1>1 DEF Session, NewTarget
  <2>3. Call(Reuse, d) /\ Reuse \in Expires \cup {Reuse}
    BY <1>4 DEF sal_op_authenticate, d, B
  <2> HIDE DEF d
  <2>4. Asks(d, Reuse)
    BY <2>1, <2>2 DEF Asks
  <2> QED BY <2>3, <2>4, CallStep
<1> QED BY <1>2, <1>3, <1>4

\* The timer keeps the invariant.
LEMMA TimerStep ==
    ASSUME Inv, timer_cb PROVE Inv'
<1> USE BoundsAssumption
<1> DEFINE B == Begin
           d == [B EXCEPT !.timer = FALSE, !.failures = 0]
           u == timer_refresh(d)
<1>1. /\ ua \in Agent /\ B \in Session /\ B.out = 0 /\ B.calls = ua.calls
      /\ B.target = ua.target /\ B.asked = ua.asked /\ B.told = ua.told
      /\ B.started = ua.started /\ B.tr = ua.tr
  BY BeginIs DEF Inv
<1>2. ua.timer /\ Run(requests, answers, u) /\ faults' = faults
  BY DEF timer_cb
<1> HIDE DEF B
<1>3. /\ d \in Session /\ d.out = 0 /\ d.calls = ua.calls /\ d.tr = ua.tr
      /\ d.target = ua.target /\ d.asked = ua.asked /\ d.told = ua.told
      /\ d.started = ua.started /\ d.failures = 0
  BY <1>1 DEF Session
<1> HIDE DEF d
<1>4. d.told # "cleared" /\ Unregistering(d)
  <2>1. Pending(d) <=> Pending(ua)
    BY <1>3 DEF Pending
  <2> QED
    BY <1>2, <1>3, <2>1 DEF Inv, Good, AtRest, Unregistering
<1>5. /\ u \in Session /\ Good(u) /\ Counts(d, u) /\ u.failures = d.failures
      /\ u.calls = d.calls /\ u.told = d.told
  BY <1>3, <1>4, TimerRefresh
<1> HIDE DEF u
<1>6. ua.failures \in Nat /\ ua.calls <= MaxAsked
  BY <1>1 DEF Agent, Inv
<1>7. Done(answers, u)
  BY <1>3, <1>4, <1>5, <1>6 DEF Done, Counts
<1>8. faults' \in faults..MaxFaults
  BY <1>2 DEF Inv, Counted
<1> QED BY <1>2, <1>7, <1>8, RunStep

\* A callback that sends nothing and keeps the record good is enough.
LEMMA QuietStep ==
    ASSUME Inv, NEW rs, rs \subseteq requests, NEW as, as \subseteq answers,
           NEW d, Good(d), Unsent(Begin, d), Run(rs, as, d),
           faults' \in faults..MaxFaults
    PROVE  Inv'
<1> DEFINE B == Begin
<1>1. /\ ua \in Agent /\ B.out = 0 /\ B.calls = ua.calls
      /\ B.failures = ua.failures /\ B.tr = ua.tr /\ B.told = ua.told
  BY BeginIs DEF Inv
<1>2. ua.failures \in Nat /\ ua.calls <= MaxAsked
  BY <1>1 DEF Agent, Inv
<1>3. Unsent(B, d)
  OBVIOUS
<1> HIDE DEF B
<1>4. /\ d \in Session /\ d.out = 0 /\ d.tr.expires = ua.tr.expires
      /\ d.calls = ua.calls /\ d.failures = ua.failures
      /\ d.told = "cleared" => ua.told = "cleared"
  BY <1>1, <1>3 DEF Unsent
<1>5. ua.told = "cleared" => registrar.age = 0 /\ registrar.binding = 0
  BY DEF Inv, Confirmed
<1>6. d.failures <= ua.failures /\ d.calls <= MaxAsked
  BY <1>2, <1>4
<1>7. Done(as, d)
  BY <1>4, <1>5, <1>6 DEF Done
<1> QED BY <1>7, RunStep

\* ... and Begin is good.
LEMMA BeginGood ==
    ASSUME Inv PROVE Begin \in Session /\ Good(Begin) /\ Unsent(Begin, Begin)
<1> DEFINE B == Begin
<1>1. /\ B \in Session /\ B.started = ua.started /\ B.timer = ua.timer
      /\ B.target = ua.target /\ B.ioError = ua.ioError /\ B.tr = ua.tr
      /\ B.asked = ua.asked /\ B.told = ua.told
  BY BeginIs DEF Inv
<1> HIDE DEF B
<1>2. Good(ua) /\ (Pending(B) <=> Pending(ua))
  BY <1>1 DEF Inv, Pending
<1>3. Good(B) /\ Unsent(B, B)
  BY <1>1, <1>2 DEF Good, Kept, Unregistering, AtRest, Unsent
<1> QED BY <1>1, <1>3 DEF B

\* What does not touch what the application is told and asked is quiet.
LEMMA Inessential ==
    ASSUME NEW b \in Session, Good(b), NEW d \in Session,
           d.started = b.started, d.timer = b.timer, d.target = b.target,
           d.failures = b.failures, d.ioError = b.ioError,
           d.asked = b.asked, d.calls = b.calls, d.told = b.told,
           d.out = b.out, d.tr.expires = b.tr.expires,
           Pending(d) <=> Pending(b)
    PROVE  Good(d) /\ Unsent(b, d)
BY DEF Good, Kept, Unregistering, AtRest, Unsent

\* The events of channels and listening points keep the invariant.
LEMMA ChannelSteps ==
    ASSUME Inv, \/ ChannelReady \/ ChannelError \/ ChannelErrorNotified
                \/ OtherChannelFails \/ StopListening \/ ListenAgain
    PROVE  Inv'
<1> USE BoundsAssumption
<1> DEFINE B == Begin
<1>1. B \in Session /\ Good(B) /\ Unsent(B, B)
  BY BeginGood
<1>2. faults \in 0..MaxFaults
  BY DEF Inv, Counted
<1>3. ASSUME Fault \/ UNCHANGED faults PROVE faults' \in faults..MaxFaults
  BY <1>2, <1>3 DEF Fault
<1> HIDE DEF B
<1>4. ASSUME NEW d, Unsent(B, d), Good(d)
      PROVE  LET u == [d EXCEPT !.channel = "NONE"] IN Good(u) /\ Unsent(B, u)
  <2> DEFINE u == [d EXCEPT !.channel = "NONE"]
  <2>1. d \in Session
    BY <1>4 DEF Unsent
  <2>2. /\ u \in Session /\ u.started = d.started /\ u.timer = d.timer
        /\ u.target = d.target /\ u.failures = d.failures
        /\ u.ioError = d.ioError /\ u.asked = d.asked /\ u.calls = d.calls
        /\ u.told = d.told /\ u.out = d.out /\ u.tr = d.tr
    BY <2>1 DEF Session
  <2>3. Pending(u) <=> Pending(d)
    BY <2>2 DEF Pending
  <2> HIDE DEF u
  <2>4. Good(u) /\ Unsent(d, u)
    BY <1>4, <2>1, <2>2, <2>3, Inessential
  <2>5. Unsent(B, u)
    BY <1>4, <2>4 DEF Unsent
  <2> QED BY <2>4, <2>5 DEF u
<1>5. CASE ChannelReady
  <2> DEFINE s == [B EXCEPT !.channel = "READY", !.sent = TRUE,
                            !.tr.state = "TRYING", !.tr.contact = ua.learnt]
             d == IF ua.tr.state = "INIT" /\ ua.tr.channel = "current"
                  THEN s ELSE [B EXCEPT !.channel = "READY"]
  <2>1. Run(requests, answers, d) /\ faults' \in faults..MaxFaults
    BY <1>3, <1>5 DEF ChannelReady, B
  <2>2. ua.learnt \in BOOLEAN /\ B.tr = ua.tr
    BY BeginIs DEF B, Inv, Agent
  <2>3. CASE ua.tr.state = "INIT" /\ ua.tr.channel = "current"
    <3>1. s \in Session
      BY <1>1, <2>2 DEF Session, Transaction, Transient
    <3>2. /\ s.started = B.started /\ s.timer = B.timer
          /\ s.target = B.target /\ s.failures = B.failures
          /\ s.ioError = B.ioError /\ s.asked = B.asked /\ s.calls = B.calls
          /\ s.told = B.told /\ s.out = B.out /\ s.tr.expires = B.tr.expires
          /\ s.tr.state = "TRYING"
      BY <1>1, <2>2 DEF Session, Transaction
    <3>3. Pending(s) /\ Pending(B)
      BY <2>2, <2>3, <3>2 DEF Pending, Transient
    <3> HIDE DEF s
    <3>4. Good(s) /\ Unsent(B, s)
      BY <1>1, <3>1, <3>2, <3>3, Inessential
    <3> QED BY <2>1, <2>3, <3>4, QuietStep DEF B
  <2>4. CASE ~(ua.tr.state = "INIT" /\ ua.tr.channel = "current")
    <3> DEFINE e == [B EXCEPT !.channel = "READY"]
    <3>1. /\ e \in Session /\ e.started = B.started /\ e.timer = B.timer
          /\ e.target = B.target /\ e.failures = B.failures
          /\ e.ioError = B.ioError /\ e.asked = B.asked /\ e.calls = B.calls
          /\ e.told = B.told /\ e.out = B.out /\ e.tr = B.tr
      BY <1>1 DEF Session
    <3>2. Pending(e) <=> Pending(B)
      BY <3>1 DEF Pending
    <3>5. d = e
      BY <2>4
    <3> HIDE DEF e
    <3>3. Good(e) /\ Unsent(B, e)
      BY <1>1, <3>1, <3>2, Inessential
    <3> QED BY <2>1, <3>3, <3>5, QuietStep DEF B
  <2> QED BY <2>3, <2>4
<1>6. CASE ChannelError
  <2> DEFINE e == [B EXCEPT !.channel = "ERROR"]
  <2>1. PICK rs \in {requests, {}} : Run(rs, {}, e)
    BY <1>6 DEF ChannelError, B
  <2>2. faults' \in faults..MaxFaults
    BY <1>3, <1>6 DEF ChannelError
  <2>3. /\ e \in Session /\ e.started = B.started /\ e.timer = B.timer
        /\ e.target = B.target /\ e.failures = B.failures
        /\ e.ioError = B.ioError /\ e.asked = B.asked /\ e.calls = B.calls
        /\ e.told = B.told /\ e.out = B.out /\ e.tr = B.tr
    BY <1>1 DEF Session
  <2>4. Pending(e) <=> Pending(B)
    BY <2>3 DEF Pending
  <2> HIDE DEF e
  <2>5. Good(e) /\ Unsent(B, e)
    BY <1>1, <2>3, <2>4, Inessential
  <2>6. rs \subseteq requests /\ {} \subseteq answers
    BY <2>1
  <2> QED BY <2>1, <2>2, <2>5, <2>6, QuietStep DEF B
<1>7. CASE ChannelErrorNotified
  <2> DEFINE c == channel_closed(B)
             e == [c EXCEPT !.channel = "NONE"]
  <2>1. Run(requests, answers, e) /\ faults' \in faults..MaxFaults
    BY <1>3, <1>7 DEF ChannelErrorNotified, B
  <2>2. Good(c) /\ Unsent(B, c)
    BY <1>1, ChannelClosed
  <2> HIDE DEF c
  <2>3. Good(e) /\ Unsent(B, e)
    BY <1>4, <2>2
  <2> HIDE DEF e
  <2> QED BY <2>1, <2>3, QuietStep DEF B
<1>8. CASE OtherChannelFails
  <2> DEFINE e == process_io_error_of_provider(B)
  <2>1. Run(requests, answers, e) /\ faults' \in faults..MaxFaults
    BY <1>3, <1>8 DEF OtherChannelFails, B
  <2>2. Good(e) /\ Unsent(B, e)
    BY <1>1, ProviderError
  <2> HIDE DEF e
  <2> QED BY <2>1, <2>2, QuietStep DEF B
<1>9. CASE StopListening
  <2> DEFINE i == [B EXCEPT !.listening = FALSE]
             b == [B EXCEPT !.channel = "ERROR"]
             c == channel_closed(b)
             e == [c EXCEPT !.channel = "NONE", !.listening = FALSE]
  <2>1. /\ Run(requests, {}, IF ua.channel = "NONE" THEN i ELSE e)
        /\ faults' \in faults..MaxFaults /\ {} \subseteq answers
    BY <1>3, <1>9 DEF StopListening, B
  <2>2. Good(i) /\ Unsent(B, i)
    <3>1. /\ i \in Session /\ i.started = B.started /\ i.timer = B.timer
          /\ i.target = B.target /\ i.failures = B.failures
          /\ i.ioError = B.ioError /\ i.asked = B.asked /\ i.calls = B.calls
          /\ i.told = B.told /\ i.out = B.out /\ i.tr = B.tr
      BY <1>1 DEF Session
    <3>2. Pending(i) <=> Pending(B)
      BY <3>1 DEF Pending
    <3> HIDE DEF i
    <3> QED BY <1>1, <3>1, <3>2, Inessential
  <2>3. b \in Session /\ Good(b) /\ Unsent(B, b)
    <3>1. /\ b \in Session /\ b.started = B.started /\ b.timer = B.timer
          /\ b.target = B.target /\ b.failures = B.failures
          /\ b.ioError = B.ioError /\ b.asked = B.asked /\ b.calls = B.calls
          /\ b.told = B.told /\ b.out = B.out /\ b.tr = B.tr
      BY <1>1 DEF Session
    <3>2. Pending(b) <=> Pending(B)
      BY <3>1 DEF Pending
    <3> HIDE DEF b
    <3> QED BY <1>1, <3>1, <3>2, Inessential
  <2>4. Good(e) /\ Unsent(B, e)
    <3> HIDE DEF b
    <3>1. Good(c) /\ Unsent(b, c)
      BY <2>3, ChannelClosed
    <3> HIDE DEF c
    <3>2. c \in Session
      BY <3>1 DEF Unsent
    <3>3. /\ e \in Session /\ e.started = c.started /\ e.timer = c.timer
          /\ e.target = c.target /\ e.failures = c.failures
          /\ e.ioError = c.ioError /\ e.asked = c.asked /\ e.calls = c.calls
          /\ e.told = c.told /\ e.out = c.out /\ e.tr = c.tr
      BY <3>2 DEF Session
    <3>4. Pending(e) <=> Pending(c)
      BY <3>3 DEF Pending
    <3> HIDE DEF e
    <3>5. Good(e) /\ Unsent(c, e)
      BY <3>1, <3>2, <3>3, <3>4, Inessential
    <3> QED BY <2>3, <3>1, <3>5 DEF Unsent
  <2> HIDE DEF i, e
  <2> QED BY <2>1, <2>2, <2>4, QuietStep DEF B
<1>10. CASE ListenAgain
  <2> DEFINE e == [B EXCEPT !.listening = TRUE]
  <2>1. Run(requests, answers, e) /\ faults' \in faults..MaxFaults
    BY <1>3, <1>10 DEF ListenAgain, B
  <2>3. /\ e \in Session /\ e.started = B.started /\ e.timer = B.timer
        /\ e.target = B.target /\ e.failures = B.failures
        /\ e.ioError = B.ioError /\ e.asked = B.asked /\ e.calls = B.calls
        /\ e.told = B.told /\ e.out = B.out /\ e.tr = B.tr
    BY <1>1 DEF Session
  <2>4. Pending(e) <=> Pending(B)
    BY <2>3 DEF Pending
  <2> HIDE DEF e
  <2>5. Good(e) /\ Unsent(B, e)
    BY <1>1, <2>3, <2>4, Inessential
  <2> QED BY <2>1, <2>5, QuietStep DEF B
<1> QED BY <1>5, <1>6, <1>7, <1>8, <1>9, <1>10

\* A final response ends the transaction it is for.
LEMMA AnswerStep ==
    ASSUME Inv, NEW m \in answers, ua.channel = "READY", ReceiveAnswer(m)
    PROVE  Inv'
<1> USE BoundsAssumption
<1> DEFINE B == Begin
           d == [B EXCEPT !.learnt = TRUE]
           p == [d EXCEPT !.tr.state = "PROCEEDING"]
           c == [d EXCEPT !.tr.state = "COMPLETED"]
           early == m.age = 0 /\ m.code = 100 /\ d.tr.state = "TRYING"
           final == /\ m.age = 0 /\ m.code >= 200
                    /\ d.tr.state \in {"TRYING", "PROCEEDING"}
           u == CASE early -> process_response_event(p, 100)
                  [] final -> process_response_event(c, m.code)
                  [] OTHER -> d
<1>1. /\ B \in Session /\ Good(B) /\ Unsent(B, B)
      /\ ua.failures \in Nat /\ ua.calls <= MaxAsked
  BY BeginGood DEF Inv, Agent
<1>2. /\ B.out = 0 /\ B.tr = ua.tr /\ B.calls = ua.calls
      /\ B.failures = ua.failures /\ B.channel = ua.channel
  BY BeginIs DEF Inv
<1>3. Run(requests, answers \ {m}, u) /\ faults' = faults
  BY DEF ReceiveAnswer
<1>4. faults' \in faults..MaxFaults /\ answers \ {m} \subseteq answers
  BY <1>3 DEF Inv, Counted
<1>5. m.code >= 200 => m.code \in Final
  BY DEF Inv, NetTypes, AnswerTypes, Final
<1> HIDE DEF B
<1>6. /\ d \in Session /\ d.started = B.started /\ d.timer = B.timer
      /\ d.target = B.target /\ d.failures = B.failures
      /\ d.ioError = B.ioError /\ d.asked = B.asked /\ d.calls = B.calls
      /\ d.told = B.told /\ d.out = B.out /\ d.tr = B.tr
      /\ d.channel = B.channel
  BY <1>1 DEF Session
<1>7. Pending(d) <=> Pending(B)
  BY <1>6 DEF Pending
<1> HIDE DEF d
<1>8. Good(d) /\ Unsent(B, d)
  BY <1>1, <1>6, <1>7, Inessential
<1>9. CASE early
  <2>1. u = p
    BY <1>9 DEF process_response_event
  <2>2. /\ p \in Session /\ p.started = d.started /\ p.timer = d.timer
        /\ p.target = d.target /\ p.failures = d.failures
        /\ p.ioError = d.ioError /\ p.asked = d.asked /\ p.calls = d.calls
        /\ p.told = d.told /\ p.out = d.out
        /\ p.tr.expires = d.tr.expires /\ p.tr.state = "PROCEEDING"
    BY <1>6 DEF Session, Transaction, Transient
  <2>3. Pending(p) /\ Pending(d)
    BY <1>9, <2>2 DEF Pending, Transient
  <2> HIDE DEF p, u
  <2>4. Good(p) /\ Unsent(d, p)
    BY <1>6, <1>8, <2>2, <2>3, Inessential
  <2>5. Unsent(B, p)
    BY <1>8, <2>4 DEF Unsent
  <2> QED BY <1>3, <1>4, <2>1, <2>4, <2>5, QuietStep DEF B
<1>10. CASE final
  <2>1. u = process_response_event(c, m.code)
    BY <1>10
  <2>2. m.code \in Final
    BY <1>5, <1>10
  <2>3. /\ c \in Session /\ c.started = d.started /\ c.target = d.target
        /\ c.ioError = d.ioError /\ c.asked = d.asked /\ c.calls = d.calls
        /\ c.told = d.told /\ c.out = 0 /\ c.failures = ua.failures
        /\ c.tr.expires = ua.tr.expires /\ c.tr.state = "COMPLETED"
        /\ c.channel = "READY" /\ c.calls = ua.calls
    BY <1>2, <1>6 DEF Session, Transaction, Transient
  <2>4. Pending(d)
    BY <1>10 DEF Pending, Transient
  <2> HIDE DEF c, u
  <2>5. Heard(c)
    BY <1>2, <1>6, <1>8, <2>3, <2>4
       DEF Heard, Good, Kept, Unregistering, AtRest
  <2>6. HeardLeaves(c, m.code, u)
    BY <2>1, <2>2, <2>5, Response
  <2>7. /\ u \in Session /\ Good(u) /\ Counts(c, u) /\ u.calls = ua.calls
        /\ u.failures <= ua.failures + (IF m.code = 401 THEN 1 ELSE 0)
        /\ u.told = "cleared" =>
                m.code = 200 /\ u.tr.expires = 0 /\ u.out = 0
    BY <2>3, <2>6 DEF HeardLeaves
  <2>8. /\ u.failures \in Nat /\ u.out \in Nat
        /\ \/ u.out = 0 /\ u.tr.expires = ua.tr.expires
           \/ u.out > 0
    BY <2>3, <2>7 DEF Session, Counts
  <2>9. u.told = "cleared" =>
             u.out = 0 /\ registrar.age = 0 /\ registrar.binding = 0
    <3> SUFFICES ASSUME u.told = "cleared"
                 PROVE  u.out = 0 /\ registrar.age = 0 /\ registrar.binding = 0
      OBVIOUS
    <3>1. m.age = 0 /\ m.code = 200 /\ ua.tr.expires = 0
      BY <1>10, <2>7, <2>8
    <3>2. registrar.age <= 0 /\ registrar.binding = 0
      BY <3>1 DEF Inv, Confirmed
    <3>3. registrar.age \in Nat
      BY DEF Inv, NetTypes
    <3> QED BY <2>7, <3>2, <3>3
  <2>10. \/ u.failures <= ua.failures
         \/ /\ u.failures <= ua.failures + 1
            /\ \E k \in answers \ (answers \ {m}) : k.code = 401
    <3>1. CASE m.code = 401
      <4>1. m \in answers \ (answers \ {m})
        OBVIOUS
      <4> QED BY <2>7, <3>1, <4>1
    <3>2. CASE m.code # 401
      BY <1>1, <2>7, <2>8, <3>2
    <3> QED BY <3>1, <3>2
  <2>11. u.calls <= MaxAsked
    BY <1>1, <2>7
  <2>12. Done(answers \ {m}, u)
    BY <2>7, <2>8, <2>9, <2>10, <2>11 DEF Done
  <2> QED BY <1>3, <1>4, <2>12, RunStep
<1>11. CASE ~early /\ ~final
  <2>1. u = d
    BY <1>11
  <2> HIDE DEF u
  <2> QED BY <1>3, <1>4, <1>8, <2>1, QuietStep DEF B
<1> QED BY <1>9, <1>10, <1>11

\* Answers, timeouts and the end of the transaction keep the invariant.
LEMMA TransactionSteps ==
    ASSUME Inv, ReceiveAnswers \/ TransactionTerminated \/ Timeout
    PROVE  Inv'
<1> USE BoundsAssumption
<1> DEFINE B == Begin
<1>1. B \in Session /\ Good(B) /\ Unsent(B, B) /\ B.tr = ua.tr
  BY BeginGood, BeginIs DEF Inv
<1>2. faults \in 0..MaxFaults
  BY DEF Inv, Counted
<1> HIDE DEF B
<1>3. CASE ReceiveAnswers
  BY <1>3, AnswerStep DEF ReceiveAnswers
<1>4. CASE TransactionTerminated
  <2> DEFINE e == [B EXCEPT !.tr.state = "TERMINATED"]
  <2>1. /\ Run(requests, answers, e) /\ faults' \in faults..MaxFaults
        /\ ua.tr.state = "COMPLETED"
    BY <1>2, <1>4 DEF TransactionTerminated, B
  <2>2. /\ e \in Session /\ e.started = B.started /\ e.timer = B.timer
        /\ e.target = B.target /\ e.failures = B.failures
        /\ e.ioError = B.ioError /\ e.asked = B.asked /\ e.calls = B.calls
        /\ e.told = B.told /\ e.out = B.out /\ e.tr.expires = B.tr.expires
        /\ e.tr.state = "TERMINATED"
    BY <1>1 DEF Session, Transaction
  <2>3. ~Pending(e) /\ ~Pending(B)
    BY <1>1, <2>1, <2>2 DEF Pending, Transient
  <2> HIDE DEF e
  <2>4. Good(e) /\ Unsent(B, e)
    BY <1>1, <2>2, <2>3, Inessential
  <2> QED BY <2>1, <2>4, QuietStep DEF B
<1>5. CASE Timeout
  <2> DEFINE t == process_timeout(B)
             e == [t EXCEPT !.tr.state = "TERMINATED"]
             f == [B EXCEPT !.channel = "ERROR", !.tr.timedOut = TRUE]
  <2>1. /\ Run(requests, answers, e) \/ Run(requests, {}, f)
        /\ faults' \in faults..MaxFaults
    BY <1>2, <1>5 DEF Timeout, Fault, B
  <2>2. CASE Run(requests, answers, e)
    <3>1. Good(t) /\ KeptWithout(t) /\ Unsent(B, t)
      BY <1>1, TimeoutTold
    <3> HIDE DEF t
    <3>2. t \in Session
      BY <3>1 DEF Unsent
    <3>3. /\ e \in Session /\ e.started = t.started /\ e.timer = t.timer
          /\ e.target = t.target /\ e.failures = t.failures
          /\ e.ioError = t.ioError /\ e.asked = t.asked /\ e.calls = t.calls
          /\ e.told = t.told /\ e.out = t.out /\ e.tr.expires = t.tr.expires
          /\ e.tr.state = "TERMINATED"
      BY <3>2 DEF Session, Transaction
    <3>4. ~Pending(e)
      BY <3>3 DEF Pending, Transient
    <3> HIDE DEF e
    <3>5. Kept(e)
      BY <3>1, <3>3, <3>4 DEF Kept, KeptWithout
    <3>6. Unregistering(e) /\ AtRest(e)
      BY <3>1, <3>3, <3>4 DEF Good, Unregistering, AtRest
    <3>7. Unsent(B, e)
      BY <3>1, <3>3, <3>4 DEF Unsent
    <3>8. Good(e)
      BY <3>5, <3>6 DEF Good
    <3> QED BY <2>1, <2>2, <3>7, <3>8, QuietStep DEF B
  <2>3. CASE Run(requests, {}, f)
    <3>1. /\ f \in Session /\ f.started = B.started /\ f.timer = B.timer
          /\ f.target = B.target /\ f.failures = B.failures
          /\ f.ioError = B.ioError /\ f.asked = B.asked /\ f.calls = B.calls
          /\ f.told = B.told /\ f.out = B.out /\ f.tr.expires = B.tr.expires
          /\ f.tr.state = B.tr.state
      BY <1>1 DEF Session, Transaction
    <3>2. Pending(f) <=> Pending(B)
      BY <3>1 DEF Pending
    <3> HIDE DEF f
    <3>3. Good(f) /\ Unsent(B, f)
      BY <1>1, <3>1, <3>2, Inessential
    <3> QED BY <2>1, <2>3, <3>3, QuietStep DEF B
  <2> QED BY <2>1, <2>2, <2>3
<1> QED BY <1>3, <1>4, <1>5

\* The registrar.
LEMMA RegistrarSteps ==
    ASSUME Inv, ReceiveRegister \/ BindingExpires
    PROVE  Inv'
<1> USE BoundsAssumption
<1>1. /\ requests \subseteq RequestTypes /\ answers \subseteq AnswerTypes
      /\ registrar \in [binding : Expires, age : 0..MaxAge + 1]
      /\ faults \in 0..MaxFaults /\ IsFiniteSet(answers)
      /\ ua \in Agent /\ ua.failures \in Nat
  BY DEF Inv, NetTypes, Counted, Agent
<1>2. ASSUME UNCHANGED ua, requests' \subseteq requests,
             \A m \in answers' :
                /\ m \in AnswerTypes
                /\ m.code = 200 =>
                    /\ registrar'.age <= m.age
                    /\ m.age = 0 /\ ua.tr.expires = 0 => registrar'.binding = 0,
             registrar' \in [binding : Expires, age : 0..MaxAge + 1],
             ua.told = "cleared" =>
                registrar'.age = 0 /\ registrar'.binding = 0,
             Counted'
      PROVE  Inv'
  <2>1. ua' \in Agent /\ Good(ua') /\ ua'.calls <= MaxAsked
    BY <1>2 DEF Inv
  <2>2. NetTypes'
    BY <1>1, <1>2 DEF NetTypes
  <2>3. Confirmed'
    BY <1>2 DEF Confirmed, Inv
  <2> QED BY <1>2, <2>1, <2>2, <2>3 DEF Inv
<1>3. CASE BindingExpires
  <2>1. /\ UNCHANGED <<ua, requests, answers>>
        /\ registrar' = [registrar EXCEPT !.binding = 0]
        /\ faults' \in 0..MaxFaults /\ faults <= faults'
    BY <1>1, <1>3 DEF BindingExpires, Fault
  <2>2. /\ registrar' \in [binding : Expires, age : 0..MaxAge + 1]
        /\ registrar'.binding = 0 /\ registrar'.age = registrar.age
    BY <1>1, <2>1 DEF Expires
  <2>3. ASSUME NEW m \in answers'
        PROVE  /\ m \in AnswerTypes
               /\ m.code = 200 =>
                    /\ registrar'.age <= m.age
                    /\ m.age = 0 /\ ua.tr.expires = 0 => registrar'.binding = 0
    BY <1>1, <2>1, <2>2, <2>3 DEF Inv, Confirmed
  <2>4. ua.told = "cleared" => registrar'.age = 0 /\ registrar'.binding = 0
    BY <2>2 DEF Inv, Confirmed
  <2>5. Counted'
    <3>1. Cardinality(Challenges(answers)) \in Nat
      BY <1>1, FewerChallenges
    <3>2. ua.failures + Cardinality(Challenges(answers)) <= faults
      BY DEF Inv, Counted
    <3> QED BY <1>1, <2>1, <3>1, <3>2 DEF Counted
  <2> QED BY <1>2, <2>1, <2>2, <2>3, <2>4, <2>5
<1>4. ASSUME NEW m \in requests, requests' = requests \ {m}, UNCHANGED ua,
             m.age < registrar.age, Refuse(m)
      PROVE  Inv'
  <2> DEFINE no(c) == [age |-> m.age, code |-> c]
  <2>1. PICK code \in {401, 403, 423, 503} :
            /\ code = 423 <=> m.expires = Brief
            /\ answers' = answers \cup {no(code)}
    BY <1>4 DEF Refuse
  <2>2. m.age \in Ages /\ m.age \in Nat /\ m.age \in 0..MaxAge + 1
    BY <1>1 DEF RequestTypes, Ages
  <2>3. /\ registrar' \in [binding : Expires, age : 0..MaxAge + 1]
        /\ registrar'.age = m.age /\ registrar'.binding = registrar.binding
    BY <1>1, <1>4, <2>2 DEF Refuse
  <2>4. no(code) \in AnswerTypes /\ no(code).code # 200 /\ no(code).code = code
    BY <2>1, <2>2 DEF AnswerTypes, Final
  <2> HIDE DEF no
  <2>5. ASSUME NEW k \in answers'
        PROVE  /\ k \in AnswerTypes
               /\ k.code = 200 =>
                    /\ registrar'.age <= k.age
                    /\ k.age = 0 /\ ua.tr.expires = 0 => registrar'.binding = 0
    <3>1. CASE k = no(code)
      BY <2>4, <3>1
    <3>2. CASE k \in answers
      <4>1. k \in AnswerTypes /\ k.age \in Nat
        BY <1>1, <3>2 DEF AnswerTypes, Ages
      <4>2. k.code = 200 =>
              /\ registrar.age <= k.age
              /\ k.age = 0 /\ ua.tr.expires = 0 => registrar.binding = 0
        BY <3>2 DEF Inv, Confirmed
      <4>3. registrar.age \in Nat
        BY <1>1
      <4> QED BY <1>4, <2>2, <2>3, <4>1, <4>2, <4>3
    <3> QED BY <2>1, <3>1, <3>2
  <2>6. ua.told # "cleared"
    <3>1. registrar.age > 0
      BY <1>1, <1>4, <2>2
    <3> QED BY <3>1 DEF Inv, Confirmed
  <2>7. Counted'
    <3> DEFINE a == Cardinality(Challenges(answers))
               c == Cardinality(Challenges(answers'))
    <3>1. ua.failures + a <= faults /\ a \in Nat
      BY <1>1, FewerChallenges DEF Inv, Counted
    <3>2. IsFiniteSet(answers') /\ IsFiniteSet(Challenges(answers))
      BY <1>1, <2>1, FS_AddElement, FS_Subset DEF Challenges
    <3>3. c \in Nat
      BY <3>2, FewerChallenges
    <3>4. CASE code = 401
      <4>1. Challenges(answers') = Challenges(answers) \cup {no(code)}
        BY <2>1, <2>4, <3>4 DEF Challenges
      <4>2. c <= a + 1
        <5>1. c = IF no(code) \in Challenges(answers) THEN a ELSE a + 1
          BY <3>2, <4>1, FS_AddElement, ZenonT(90)
        <5> HIDE DEF a, c
        <5> QED BY <3>1, <5>1
      <4>3. faults' = faults + 1 /\ faults < MaxFaults
        BY <1>4, <2>1, <3>4 DEF Refuse, Fault
      <4> HIDE DEF a, c
      <4>4. ua.failures + c <= faults' /\ faults' \in 0..MaxFaults
        BY <1>1, <3>1, <3>3, <4>2, <4>3
      <4> QED BY <1>4, <3>2, <4>4 DEF Counted, c
    <3>5. CASE code # 401
      <4>1. Challenges(answers') = Challenges(answers)
        BY <2>1, <2>4, <3>5 DEF Challenges
      <4>2. faults <= faults' /\ faults' \in 0..MaxFaults
        BY <1>1, <1>4 DEF Refuse, Fault
      <4> QED BY <1>1, <1>4, <3>1, <3>2, <4>1, <4>2 DEF Counted
    <3> QED BY <3>4, <3>5
  <2> QED BY <1>2, <1>4, <2>3, <2>5, <2>6, <2>7
<1>5. ASSUME NEW m \in requests, requests' = requests \ {m}, UNCHANGED ua,
             m.age < registrar.age, Answer(m)
      PROVE  Inv'
  <2> DEFINE yes(c) == [age |-> m.age, code |-> c]
  <2>1. PICK early \in SUBSET {100} :
            answers' = answers \cup {yes(c) : c \in early \cup {200}}
    BY <1>5 DEF Answer
  <2>2. /\ m.age \in Ages /\ m.age \in Nat /\ m.age \in 0..MaxAge + 1
        /\ m.expires \in Expires
    BY <1>1 DEF RequestTypes, Ages
  <2>3. /\ registrar' \in [binding : Expires, age : 0..MaxAge + 1]
        /\ registrar'.age = m.age /\ registrar'.binding = m.expires
        /\ faults' = faults
    BY <1>5, <2>2 DEF Answer
  <2>4. /\ yes(100) \in AnswerTypes /\ yes(200) \in AnswerTypes
        /\ \A c : yes(c).code = c /\ yes(c).age = m.age
    BY <2>2 DEF AnswerTypes, Final
  <2>5. answers' = answers \cup {yes(200)}
            \/ answers' = answers \cup {yes(100)} \cup {yes(200)}
    <3>1. early = {} \/ early = {100}
      OBVIOUS
    <3> HIDE DEF yes
    <3> QED BY <2>1, <3>1
  <2> HIDE DEF yes
  <2>6. ASSUME NEW k \in answers'
        PROVE  /\ k \in AnswerTypes
               /\ k.code = 200 =>
                    /\ registrar'.age <= k.age
                    /\ k.age = 0 /\ ua.tr.expires = 0 => registrar'.binding = 0
    <3>1. CASE k \in {yes(100), yes(200)}
      <4>1. k \in AnswerTypes /\ k.age = m.age
        BY <2>4, <3>1
      <4>2. m.age = 0 /\ ua.tr.expires = 0 => m.expires = 0
        BY <1>5 DEF Inv, Confirmed
      <4> QED BY <2>2, <2>3, <4>1, <4>2
    <3>2. CASE k \in answers
      <4>1. k \in AnswerTypes /\ k.age \in Nat
        BY <1>1, <3>2 DEF AnswerTypes, Ages
      <4>2. k.code = 200 => registrar.age <= k.age
        BY <3>2 DEF Inv, Confirmed
      <4>3. registrar.age \in Nat
        BY <1>1
      <4>4. k.code = 200 => m.age < k.age
        BY <1>5, <2>2, <4>1, <4>2, <4>3
      <4> QED BY <2>2, <2>3, <4>1, <4>4
    <3> QED BY <2>5, <3>1, <3>2
  <2>7. ua.told # "cleared"
    <3>1. registrar.age > 0
      BY <1>1, <1>5, <2>2
    <3> QED BY <3>1 DEF Inv, Confirmed
  <2>8. Counted'
    <3>1. Challenges(answers') = Challenges(answers)
      BY <2>4, <2>5 DEF Challenges
    <3>2. IsFiniteSet(answers')
      <4>1. /\ IsFiniteSet(answers \cup {yes(100)})
            /\ IsFiniteSet(answers \cup {yes(200)})
        BY <1>1, FS_AddElement
      <4>2. IsFiniteSet(answers \cup {yes(100)} \cup {yes(200)})
        BY <4>1, FS_AddElement
      <4> QED BY <2>5, <4>1, <4>2
    <3>3. ua.failures + Cardinality(Challenges(answers)) <= faults
      BY DEF Inv, Counted
    <3> QED BY <1>1, <1>5, <2>3, <3>1, <3>2, <3>3 DEF Counted
  <2> QED BY <1>2, <1>5, <2>3, <2>6, <2>7, <2>8
<1>6. CASE ReceiveRegister
  <2>1. PICK m \in requests :
          /\ requests' = requests \ {m} /\ UNCHANGED ua
          /\ \/ m.age >= registrar.age /\ UNCHANGED <<registrar, answers, faults>>
             \/ m.age < registrar.age /\ (Refuse(m) \/ Answer(m))
    <3>1. PICK m \in requests :
          /\ requests' = requests \ {m} /\ UNCHANGED ua
          /\ CASE m.age >= registrar.age -> UNCHANGED <<registrar, answers, faults>>
               [] m.age < registrar.age -> \/ Refuse(m)
                                           \/ m.expires # Brief /\ Answer(m)
      BY <1>6 DEF ReceiveRegister
    <3>2. m.age \in Nat /\ registrar.age \in Nat
      BY <1>1 DEF RequestTypes, Ages
    <3>3. CASE m.age >= registrar.age
      <4>1. ~(m.age < registrar.age)
        BY <3>2, <3>3
      <4> QED BY <3>1, <3>3, <4>1
    <3>4. CASE m.age < registrar.age
      <4>1. ~(m.age >= registrar.age)
        BY <3>2, <3>4
      <4> QED BY <3>1, <3>4, <4>1
    <3> QED BY <3>2, <3>3, <3>4
  <2>2. CASE m.age >= registrar.age /\ UNCHANGED <<registrar, answers, faults>>
    <3>1. Counted'
      BY <2>1, <2>2 DEF Inv, Counted
    <3> QED BY <1>1, <1>2, <2>1, <2>2, <3>1 DEF Inv, Confirmed
  <2>3. CASE m.age < registrar.age /\ Refuse(m)
    BY <1>4, <2>1, <2>3
  <2>4. CASE m.age < registrar.age /\ Answer(m)
    BY <1>5, <2>1, <2>4
  <2> QED BY <2>1, <2>2, <2>3, <2>4
<1> QED BY <1>3, <1>6

-----------------------------------------------------------------------------
(* The theorems.                                                           *)

\* The invariant holds before the first REGISTER.
LEMMA Initially == Init => Inv
<1> SUFFICES ASSUME Init PROVE Inv
  OBVIOUS
<1> USE BoundsAssumption
<1>1. PICK e \in {Brief, Long}, known \in BOOLEAN :
        ua = [started |-> TRUE, timer |-> FALSE, target |-> e, failures |-> 0,
              ioError |-> FALSE,
              tr |-> [state |-> "INIT", expires |-> e, contact |-> FALSE,
                      channel |-> "current", timedOut |-> FALSE],
              channel |-> "CONNECTING", learnt |-> FALSE, listening |-> TRUE,
              password |-> known, asked |-> e, calls |-> 0, told |-> "nothing"]
  BY DEF Init
<1>2. e \in Expires /\ e # 0
  BY DEF Brief, Long, Expires
<1>3. ua \in Agent
  BY <1>1, <1>2 DEF Agent, Transaction, Transient
<1>4. Good(ua)
  BY <1>1, <1>2 DEF Good, Kept, Unregistering, AtRest, Pending, Transient
<1>5. ua.calls <= MaxAsked /\ ua.told = "nothing" /\ ua.failures = 0
  BY <1>1
<1>6. NetTypes /\ Confirmed
  BY <1>5 DEF Init, NetTypes, Confirmed, Expires
<1>7. Counted
  <2>1. Challenges(answers) = {} /\ answers = {} /\ faults = 0
    BY DEF Init, Challenges
  <2> QED BY <1>5, <2>1, FS_EmptySet DEF Counted
<1> QED BY <1>3, <1>4, <1>5, <1>6, <1>7 DEF Inv

\* Every step keeps the invariant.
LEMMA Step == Inv /\ [Next]_vars => Inv'
<1> SUFFICES ASSUME Inv, [Next]_vars PROVE Inv'
  OBVIOUS
<1>1. CASE sal_register_refresh \/ sal_unregister \/ sal_op_authenticate
  BY <1>1, CallsStep
<1>2. CASE timer_cb
  BY <1>2, TimerStep
<1>3. CASE \/ ChannelReady \/ ChannelError \/ ChannelErrorNotified
           \/ OtherChannelFails \/ StopListening \/ ListenAgain
  BY <1>3, ChannelSteps
<1>4. CASE ReceiveAnswers \/ TransactionTerminated \/ Timeout
  BY <1>4, TransactionSteps
<1>5. CASE ReceiveRegister \/ BindingExpires
  BY <1>5, RegistrarSteps
<1>6. CASE UNCHANGED vars
  BY <1>6 DEF vars, Inv, NetTypes, Confirmed, Counted
<1> QED BY <1>1, <1>2, <1>3, <1>4, <1>5, <1>6 DEF Next

\* The inductive invariant holds.
LEMMA Always == Spec => []Inv
<1> QED BY Initially, Step, PTL DEF Spec

\* A refresher that is to keep a registration has a timer or a pending
\* transaction, or has said why not: no order of errors, timeouts, responses
\* and calls makes refresher.c lose both.
THEOREM KeptAlive == Spec => []NeverForgotten
<1>1. Inv => NeverForgotten
  BY DEF Inv, Good, Kept, NeverForgotten
<1> QED BY <1>1, Always, PTL

\* After sal_unregister nothing registers again, and a registration that is
\* reported as cleared is cleared at the registrar.
THEOREM GoneForGood == Spec => []StaysUnregistered
<1>1. Inv => StaysUnregistered
  BY DEF Inv, Good, Unregistering, Confirmed, StaysUnregistered
<1> QED BY <1>1, Always, PTL

\* Every value keeps its type; in particular auth_failures and the challenges
\* under way together are never more than the refusals there were.
THEOREM TypeCorrect == Spec => []TypeOK
<1>1. Inv => TypeOK
  <2> SUFFICES ASSUME Inv PROVE TypeOK
    OBVIOUS
  <2> USE BoundsAssumption
  <2>1. /\ ua \in Agent /\ faults \in 0..MaxFaults /\ ua.failures \in Nat
        /\ ua.calls \in Nat /\ ua.calls <= MaxAsked
    BY DEF Inv, Counted, Agent
  <2>2. ua.failures \in 0..MaxFaults /\ ua.calls \in 0..MaxAsked
    <3>1. Cardinality(Challenges(answers)) \in Nat
      BY FewerChallenges DEF Inv, Counted
    <3>2. ua.failures + Cardinality(Challenges(answers)) <= faults
      BY DEF Inv, Counted
    <3> QED BY <2>1, <3>1, <3>2
  <2>3. ua \in UserAgent
    BY <2>1, <2>2 DEF Agent, UserAgent
  <2> QED
    BY <2>1, <2>3 DEF Inv, NetTypes, RequestTypes, AnswerTypes, TypeOK
<1> QED BY <1>1, Always, PTL
=============================================================================
