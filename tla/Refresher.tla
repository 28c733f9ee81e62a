----------------------------- MODULE Refresher -----------------------------
(***************************************************************************)
(* A registration kept alive: belle-sip's refresher.c over the client      *)
(* transactions and the channel it uses, the proxy configuration of        *)
(* linphone that asks for it and the registrar that holds the binding.     *)
(*                                                                         *)
(* One action is one callback of the main loop or one call of the          *)
(* application; what it calls is applied to the record of the user agent,  *)
(* which also collects the REGISTERs that are sent.  The delays of the     *)
(* timer (90% of the expiry, 500 ms, 2 s, retry_after) only say when it    *)
(* rings, so timer_cb may run whenever the timer is armed.                 *)
(*                                                                         *)
(* CSeqs are counted back from the REGISTER the refresher sent last: a     *)
(* message has the age of its request.                                     *)
(***************************************************************************)
EXTENDS Naturals, FiniteSets

CONSTANTS
    MaxFaults,      \* bound: refusals, timeouts, failures and expirations
    MaxAsked,       \* bound: calls of the application
    MaxAge          \* bound: an older message never arrives

ASSUME BoundsAssumption == /\ MaxFaults \in Nat /\ MaxAsked \in Nat
                           /\ MaxAge \in Nat \ {0}

VARIABLES
    ua,         \* the refresher, its transaction and channel: see UserAgent
    requests,   \* REGISTERs under way
    answers,    \* responses under way
    registrar,  \* its binding and the age of the last REGISTER it took
    faults      \* how much went wrong so far

vars == <<ua, requests, answers, registrar, faults>>

\* Expires values: none, one the registrar finds too brief, and a good one.
Expires == 0..2
Brief   == 1
Long    == 2

Ages      == 0..MaxAge
Final     == {200, 401, 403, 423, 503}
Transient == {"INIT", "TRYING", "PROCEEDING"}

Transaction ==
    [state    : Transient \cup {"COMPLETED", "TERMINATED"},
     expires  : Expires,
     contact  : BOOLEAN,    \* its Contact is the address the channel learnt
     channel  : {"none", "current", "gone"},    \* the one it uses
     timedOut : BOOLEAN]    \* its timeout is handed to the channel

UserAgent ==
    [started   : BOOLEAN,   \* refresher->state
     timer     : BOOLEAN,   \* refresher->timer is in the main loop
     target    : Expires,   \* target_expires
     failures  : 0..MaxFaults, \* auth_failures
     ioError   : BOOLEAN,   \* on_io_error
     tr        : Transaction,
     channel   : {"NONE", "CONNECTING", "READY", "ERROR"},  \* to the registrar
     learnt    : BOOLEAN,   \* the channel learnt its public address
     listening : BOOLEAN,   \* there is a listening point to make one from
     password  : BOOLEAN,   \* the application has the password
     asked     : Expires,   \* what the application asked last
     calls     : 0..MaxAsked,
     told      : {"nothing", "registered", "cleared", "failed", "refused",
                  "unsent"}]    \* the last report since then; "unsent": the
                                \* call itself returned -1

TypeOK ==
    /\ ua \in UserAgent
    /\ requests \subseteq [age : Ages, expires : Expires]
    /\ answers \subseteq [age : Ages, code : Final \cup {100}]
    /\ registrar \in [binding : Expires, age : 0..MaxAge + 1]
    /\ faults \in 0..MaxFaults

\* sal_register has sent the first REGISTER, which waits for its channel, and
\* the refresher has taken over its transaction.
Init ==
    /\ \E e \in {Brief, Long}, known \in BOOLEAN :
        ua = [started |-> TRUE, timer |-> FALSE, target |-> e, failures |-> 0,
              ioError |-> FALSE,
              tr |-> [state |-> "INIT", expires |-> e, contact |-> FALSE,
                      channel |-> "current", timedOut |-> FALSE],
              channel |-> "CONNECTING", learnt |-> FALSE, listening |-> TRUE,
              password |-> known, asked |-> e, calls |-> 0, told |-> "nothing"]
    /\ requests = {} /\ answers = {}
    /\ registrar = [binding |-> 0, age |-> MaxAge + 1]
    /\ faults = 0

Pending(d) == d.tr.state \in Transient

-----------------------------------------------------------------------------
(* The functions of refresher.c, each giving the record after it.  In the  *)
(* course of a callback the record has a field "out", the number of new    *)
(* REGISTERs, and "sent", whether the last of them left.                   *)

schedule_timer_at(d) == [d EXCEPT !.timer = TRUE]

belle_sip_refresher_stop(d) == [d EXCEPT !.timer = FALSE, !.started = FALSE]

Tell(d, report) == [d EXCEPT !.told = report]

\* belle_sip_client_transaction_send_request_to for a new transaction.
CanSend(d) == d.listening \/ d.channel # "NONE"

send_register(d) ==
    LET new(state) == [state |-> state, expires |-> d.target,
                       contact |-> d.learnt, channel |-> "current",
                       timedOut |-> FALSE]
        u == [d EXCEPT !.out = @ + 1, !.ioError = FALSE]
    IN  CASE d.channel = "READY" -> [u EXCEPT !.tr = new("TRYING"), !.sent = TRUE]
          [] d.channel # "READY" /\ CanSend(d) ->
                [u EXCEPT !.tr = new("INIT"), !.sent = FALSE,
                          !.channel = IF @ = "NONE" THEN "CONNECTING" ELSE @,
                          !.learnt  = @ /\ d.channel # "NONE"]
          [] OTHER -> [u EXCEPT !.tr = [new("TERMINATED") EXCEPT !.channel = "none"],
                                !.sent = FALSE]

\* Whether refresh_internal returns 0.
Refreshes(d, needsPassword) == (needsPassword => d.password) /\ CanSend(d)

\* BELLE_SIP_REFRESHER_REUSE_EXPIRES, which is -1.
Reuse == 3

\* Mutant: that value is taken for a target.
NewTarget_any(d, expires) == expires

NewTarget(d, expires) == IF expires = Reuse THEN d.target ELSE expires

refresh_internal(d, expires, needsPassword) ==
    LET t == [d EXCEPT !.target = NewTarget(d, expires)]
        u == send_register(t)
    IN  CASE needsPassword /\ ~d.password -> t
          [] Refreshes(d, needsPassword) /\ expires = 0 -> belle_sip_refresher_stop(u)
          [] OTHER -> u

belle_sip_refresher_refresh(d, expires) == refresh_internal(d, expires, FALSE)

retry_later_if_started(d) == IF d.started THEN schedule_timer_at(d) ELSE d

\* process_io_error, told by the transaction: those of a refresher that was
\* stopped, or that is ending its registration, matter before a response only.
process_io_error_of_transaction(d) ==
    IF \/ d.ioError
       \/ ~d.started /\ d.tr.state \notin {"TRYING", "INIT"}
       \/ d.target = 0 /\ d.tr.state \notin {"TRYING", "INIT"}
    THEN d
    ELSE Tell(retry_later_if_started(d), "failed")

\* process_io_error, told by the provider when any channel fails.
ChannelFailed(d) == \/ d.tr.channel = "gone"
                    \/ d.tr.channel = "current" /\ d.channel = "ERROR"

process_io_error_of_provider(d) ==
    IF d.started /\ ~d.ioError /\ d.tr.state = "TERMINATED" /\ ChannelFailed(d)
    THEN [Tell(schedule_timer_at(d), "failed") EXCEPT !.ioError = TRUE]
    ELSE d

\* Mutant: the timeout is reported and that is all.
process_timeout_reported(d) == Tell(d, "failed")

process_timeout(d) == Tell(retry_later_if_started(d), "failed")

\* 200: the target becomes what the request asked.
response_success(d) ==
    LET t == [d EXCEPT !.failures = 0, !.target = d.tr.expires]
        u == IF t.target = 0 THEN belle_sip_refresher_stop(t) ELSE t
    IN  CASE u.started /\ ~d.tr.contact -> belle_sip_refresher_refresh(u, u.target)
          [] u.started /\ d.tr.contact  -> Tell(schedule_timer_at(u), "registered")
          [] OTHER -> Tell(u, IF u.target > 0 THEN "registered" ELSE "cleared")

\* 401 and 407.
response_challenge(d) ==
    LET t == [d EXCEPT !.failures = @ + 1] IN
    CASE t.failures > 3 /\ t.target > 0 -> Tell(schedule_timer_at(t), "failed")
      [] t.failures > 3 /\ t.target = 0 -> Tell(t, "failed")
      [] t.failures <= 3 /\ Refreshes(t, TRUE) -> refresh_internal(t, t.target, TRUE)
      [] OTHER -> Tell(refresh_internal(t, t.target, TRUE), "refused")

\* 423, whose Min-Expires is Long.
response_too_brief(d) ==
    IF d.started THEN belle_sip_refresher_refresh(d, Long) ELSE Tell(d, "refused")

process_response_event(d, code) ==
    CASE code = 100 -> d
      [] code = 200 -> response_success(d)
      [] code = 401 -> response_challenge(d)
      [] code = 423 -> response_too_brief(d)
      [] code = 503 -> Tell(IF d.target > 0 THEN schedule_timer_at(d) ELSE d, "failed")
      [] code = 403 -> Tell(d, "refused")

-----------------------------------------------------------------------------
Begin == [f \in DOMAIN ua \cup {"out", "sent"} |->
            CASE f = "out" -> 0 [] f = "sent" -> FALSE [] OTHER -> ua[f]]

Older(ms, n) == {[m EXCEPT !.age = @ + n] : m \in {m \in ms : m.age + n <= MaxAge}}

Least(m, n) == IF m < n THEN m ELSE n

\* A callback leaves the record d; the messages under way when it started
\* are "rs" and "as".
Run(rs, as, d) == \E r \in {d} :
    /\ ua' = [f \in DOMAIN ua |-> r[f]]
    /\ requests' = Older(rs, r.out) \cup IF r.sent THEN {[age |-> 0, expires |-> r.tr.expires]}
                                         ELSE {}
    /\ answers' = Older(as, r.out)
    /\ registrar' = [registrar EXCEPT !.age = Least(@ + r.out, MaxAge + 1)]

Fault == faults < MaxFaults /\ faults' = faults + 1

-----------------------------------------------------------------------------
(* The application.                                                        *)

Call(expires, d) ==
    /\ ua.calls < MaxAsked
    /\ LET u == belle_sip_refresher_refresh(d, expires)
       IN  Run(requests, answers, [u EXCEPT !.calls = @ + 1,
                    !.told = IF CanSend(d) THEN "nothing" ELSE "unsent"])
    /\ UNCHANGED faults

sal_register_refresh == Call(Long, [Begin EXCEPT !.asked = Long])

sal_unregister == Call(0, [Begin EXCEPT !.asked = 0])

\* The application finds the password that a report asked for.
sal_op_authenticate ==
    /\ ua.told = "refused" /\ ~ua.password
    /\ Call(Reuse, [Begin EXCEPT !.password = TRUE])

-----------------------------------------------------------------------------
(* The main loop.                                                          *)

\* Mutant: a refresh that cannot be sent is given up.
timer_refresh_once(d) == belle_sip_refresher_refresh(d, d.target)

timer_refresh(d) ==
    LET u == belle_sip_refresher_refresh(d, d.target)
    IN  IF Refreshes(d, FALSE) THEN u ELSE schedule_timer_at(u)

timer_cb ==
    /\ ua.timer
    /\ Run(requests, answers,
           timer_refresh([Begin EXCEPT !.timer = FALSE, !.failures = 0]))
    /\ UNCHANGED faults

\* Transactions that wait for the channel send their request.
ChannelReady ==
    /\ ua.channel = "CONNECTING"
    /\ Run(requests, answers,
           IF ua.tr.state = "INIT" /\ ua.tr.channel = "current"
           THEN [Begin EXCEPT !.channel = "READY", !.sent = TRUE,
                              !.tr.state = "TRYING", !.tr.contact = ua.learnt]
           ELSE [Begin EXCEPT !.channel = "READY"])
    /\ UNCHANGED faults

\* What is under way on it is lost, or was received.
ChannelError ==
    /\ ua.channel \in {"CONNECTING", "READY"}
    /\ Fault
    /\ \E rs \in {requests, {}} : Run(rs, {}, [Begin EXCEPT !.channel = "ERROR"])

\* The provider is told first, then the transaction.
channel_closed(d) ==
    LET p == process_io_error_of_provider(d)
        t == IF p.tr.state \in Transient THEN process_io_error_of_transaction(p) ELSE p
        u == IF t.tr.timedOut THEN process_timeout(t) ELSE t
    IN  IF u.tr.channel = "current"
        THEN [u EXCEPT !.tr.state = "TERMINATED", !.tr.channel = "gone"]
        ELSE u

ChannelErrorNotified ==
    /\ ua.channel = "ERROR"
    /\ Run(requests, answers, [channel_closed(Begin) EXCEPT !.channel = "NONE"])
    /\ UNCHANGED faults

\* The channel of another peer fails.
OtherChannelFails ==
    /\ Fault
    /\ Run(requests, answers, process_io_error_of_provider(Begin))

\* The application changes its ports: listening points and channels go, and
\* come back.
StopListening ==
    /\ ua.listening /\ Fault
    /\ Run(requests, {}, IF ua.channel = "NONE" THEN [Begin EXCEPT !.listening = FALSE]
                         ELSE [channel_closed([Begin EXCEPT !.channel = "ERROR"])
                                EXCEPT !.channel = "NONE", !.listening = FALSE])

ListenAgain ==
    /\ ~ua.listening
    /\ Run(requests, answers, [Begin EXCEPT !.listening = TRUE])
    /\ UNCHANGED faults

\* Mutant: whose transaction the response is for is not looked at.
ReceiveAnswer_any(m) ==
    /\ Run(requests, answers \ {m},
           process_response_event([Begin EXCEPT !.learnt = TRUE], m.code))
    /\ UNCHANGED faults

ReceiveAnswer(m) ==
    /\ Run(requests, answers \ {m},
           LET d == [Begin EXCEPT !.learnt = TRUE] IN
           CASE m.age = 0 /\ m.code = 100 /\ d.tr.state = "TRYING" ->
                    process_response_event([d EXCEPT !.tr.state = "PROCEEDING"], 100)
             [] m.age = 0 /\ m.code >= 200 /\ d.tr.state \in {"TRYING", "PROCEEDING"} ->
                    process_response_event([d EXCEPT !.tr.state = "COMPLETED"], m.code)
             [] OTHER -> d)
    /\ UNCHANGED faults

ReceiveAnswers == \E m \in answers : ua.channel = "READY" /\ ReceiveAnswer(m)

\* Timer K, or at once over a reliable transport.
TransactionTerminated ==
    /\ ua.tr.state = "COMPLETED"
    /\ Run(requests, answers, [Begin EXCEPT !.tr.state = "TERMINATED"])
    /\ UNCHANGED faults

\* Timer F.  A channel that was silent for a minute is blamed and fails.
Timeout ==
    /\ ua.tr.state \in {"TRYING", "PROCEEDING"} /\ ua.channel = "READY"
    /\ Fault
    /\ LET d == Begin IN
       \/ Run(requests, answers, [process_timeout(d) EXCEPT !.tr.state = "TERMINATED"])
       \/ Run(requests, {}, [d EXCEPT !.channel = "ERROR", !.tr.timedOut = TRUE])

-----------------------------------------------------------------------------
(* The registrar takes REGISTERs in the order of their CSeq.               *)

Answer(m) ==
    /\ registrar' = [binding |-> m.expires, age |-> m.age]
    /\ \E early \in SUBSET {100} :
        answers' = answers \cup {[age |-> m.age, code |-> c] : c \in early \cup {200}}
    /\ UNCHANGED faults

Refuse(m) ==
    /\ registrar' = [registrar EXCEPT !.age = m.age]
    /\ \E code \in {401, 403, 423, 503} :
        /\ code = 423 <=> m.expires = Brief
        /\ answers' = answers \cup {[age |-> m.age, code |-> code]}
    /\ IF m.expires = Brief THEN UNCHANGED faults ELSE Fault

ReceiveRegister == \E m \in requests :
    /\ requests' = requests \ {m}
    /\ CASE m.age >= registrar.age -> UNCHANGED <<registrar, answers, faults>>
         [] m.age < registrar.age -> Refuse(m) \/ (m.expires # Brief /\ Answer(m))
    /\ UNCHANGED ua

BindingExpires ==
    /\ registrar.binding > 0 /\ Fault
    /\ registrar' = [registrar EXCEPT !.binding = 0]
    /\ UNCHANGED <<ua, requests, answers>>

-----------------------------------------------------------------------------
Next ==
    \/ sal_register_refresh \/ sal_unregister \/ sal_op_authenticate
    \/ timer_cb
    \/ ChannelReady \/ ChannelError \/ ChannelErrorNotified \/ OtherChannelFails
    \/ StopListening \/ ListenAgain
    \/ ReceiveAnswers \/ TransactionTerminated \/ Timeout
    \/ ReceiveRegister \/ BindingExpires

Spec == Init /\ [][Next]_vars

\* The main loop runs, the registrar answers; nothing has to fail.
Fairness ==
    /\ WF_vars(timer_cb) /\ WF_vars(ChannelReady) /\ WF_vars(ChannelErrorNotified)
    /\ WF_vars(ListenAgain) /\ WF_vars(ReceiveAnswers) /\ WF_vars(ReceiveRegister)

FairSpec == Spec /\ Fairness

-----------------------------------------------------------------------------
(* Properties.                                                             *)

\* A refresher that is to keep a registration has a timer or a transaction
\* that will say more, whatever failed and in which order, unless the last
\* word of the application or to it was a refusal: it is never forgotten.
NeverForgotten ==
    ua.started /\ ua.target > 0 =>
        ua.timer \/ Pending(ua) \/ ua.told \in {"refused", "unsent"}

\* After the application unregistered no challenge, retry or late response
\* registers it again, and what it is told is what the registrar holds.
StaysUnregistered ==
    ua.asked = 0 => /\ ua.target = 0
                    /\ Pending(ua) => ua.tr.expires = 0
                    /\ ua.told = "cleared" => registrar.binding = 0

\* Failures pass: a registration that is asked for and not refused is there
\* again, the registrar having dropped it included.
RegistrationReturns ==
    ua.started /\ ua.asked > 0 ~>
        \/ registrar.binding > 0
        \/ ua.asked = 0 \/ ua.told \in {"refused", "unsent"}
=============================================================================
