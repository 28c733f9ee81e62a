------------------------ MODULE NonInviteTransaction ------------------------
(***************************************************************************)
(* A non-INVITE transaction of belle-sip: the client transaction (nict.c), *)
(* the server transactions its request creates (nist.c), the code they     *)
(* share (transaction.c), and what channel.c does when the channel of the  *)
(* client fails: it tries the other addresses of its peer while it is not  *)
(* ready, and otherwise notifies the error from the main loop, later.  A   *)
(* REGISTER that times out blames a channel that has long been silent.     *)
(*                                                                         *)
(* As in InviteTransaction an action is one callback of the main loop or   *)
(* one call of the application, and timers have no duration.               *)
(***************************************************************************)
EXTENDS Naturals, FiniteSets

CONSTANTS
    Settings,       \* the settings under study, of which Init takes one
    Punctual,       \* TRUE: no request survives the 64*T1 of J
    Provisional,    \* the 1xx codes
    Final,          \* the codes from 200 on
    MaxAlternates,  \* addresses of the peer besides the first
    MaxOffers,      \* bound: server transactions created for this request
    MaxNotices      \* bound: deferred notifications before one more error

\* reliable: the transport is TCP or TLS, else UDP; register: the method is
\* REGISTER.
ASSUME SettingsAssumption ==
    Settings \subseteq [reliable : BOOLEAN, register : BOOLEAN]
ASSUME PunctualAssumption == Punctual \in BOOLEAN
ASSUME CodesAssumption ==
    Provisional \subseteq 100..199 /\ Final \subseteq 200..699
ASSUME BoundsAssumption ==
    MaxAlternates \in Nat /\ MaxOffers \in Nat /\ MaxNotices \in Nat

VARIABLES
    setting,        \* one of Settings, which no step changes
    chan,           \* channel of the client: belle_sip_channel_t.state
    alternates,     \* addresses after current_peer in the peer's list
    notices,        \* deferred error notifications the main loop holds
    registered,     \* the client transaction is in the provider's list
    nict,           \* client: base.state
    nictTimers,     \* client: timers among E, F and K that are armed
    timedOut,       \* client: base.timed_out
    outcome,        \* what the sender's listener was told last
    reports,        \* how many final reports it was given
    nist,           \* latest server transaction: base.state, "NONE" before
    nistTimers,     \* server: {"J"} when J is armed
    lastResponse,   \* server: base.last_response, 0 before the first
    offers,         \* requests the receiving listener was offered as new
    given,          \* final codes the receiving listener has given
    c2s,            \* the request, while a copy of it is under way
    s2c             \* responses under way

channel == <<chan, alternates, notices>>
client  == <<registered, nict, nictTimers, timedOut, outcome, reports>>
server  == <<nist, nistTimers, lastResponse, offers, given>>
vars    == <<setting, chan, alternates, notices,
             registered, nict, nictTimers, timedOut, outcome, reports,
             nist, nistTimers, lastResponse, offers, given, c2s, s2c>>

Reliable == setting.reliable
Register == setting.register

Responses == Provisional \cup Final

\* What the sender's listener hears besides a final code.
NotHeard == 0
TimedOut == 1   \* process_timeout
IoError  == 2   \* process_io_error
NotSent  == 3   \* belle_sip_client_transaction_send_request returned -1
GaveUp   == {TimedOut, IoError, NotSent}

Waiting == {"TRYING", "PROCEEDING"}

\* Channels on the way to READY.  STALLED is CONNECTING with a source that
\* the main loop no longer serves (see handle_error).
Preparing == {"INIT", "RES_IN_PROGRESS", "CONNECTING", "STALLED"}

TypeOK ==
    /\ setting \in Settings
    /\ chan \in {"NONE", "READY", "ERROR", "DISCONNECTED"} \cup Preparing
    /\ alternates \in 0..MaxAlternates
    /\ notices \in 0..(MaxNotices + 2)
    /\ registered \in BOOLEAN
    /\ nict \in {"INIT", "COMPLETED", "TERMINATED"} \cup Waiting
    /\ nictTimers \in SUBSET {"E", "F", "K"}
    /\ timedOut \in BOOLEAN
    /\ outcome \in {NotHeard} \cup GaveUp \cup Final
    /\ reports \in 0..(MaxNotices + 4)
    /\ nist \in {"NONE", "COMPLETED", "TERMINATED"} \cup Waiting
    /\ nistTimers \in SUBSET {"J"}
    /\ lastResponse \in {0} \cup Responses
    /\ offers \in 0..MaxOffers
    /\ given \in SUBSET Final
    /\ c2s \in SUBSET {"REQUEST"}
    /\ s2c \in SUBSET Responses

Init ==
    /\ setting \in Settings
    /\ chan \in {"NONE", "INIT", "RES_IN_PROGRESS", "READY"}
    /\ alternates = MaxAlternates /\ notices = 0
    /\ registered = FALSE
    /\ nict = "INIT" /\ nictTimers = {} /\ timedOut = FALSE
    /\ outcome = NotHeard /\ reports = 0
    /\ nist = "NONE" /\ nistTimers = {} /\ lastResponse = 0
    /\ offers = 0 /\ given = {}
    /\ c2s = {} /\ s2c = {}

-----------------------------------------------------------------------------
(* The network.  UDP loses, repeats and reorders; TCP delivers each side's *)
(* messages once and in the order sent, that is, responses by rising code. *)

ResponseDeliverable(code) ==
    code \in s2c /\ (Reliable => \A other \in s2c : code <= other)

AfterDelivery(net, m) == {net \ {m}} \cup (IF Reliable THEN {} ELSE {net})

LoseRequest ==
    /\ ~Reliable /\ c2s # {}
    /\ c2s' = {}
    /\ UNCHANGED <<channel, client, server, s2c>>

LoseResponse(code) ==
    /\ ~Reliable /\ code \in s2c
    /\ s2c' = s2c \ {code}
    /\ UNCHANGED <<channel, client, server, c2s>>

-----------------------------------------------------------------------------
(* The client transaction.                                                 *)

nict_send_request ==
    /\ nict' = "TRYING"
    /\ nictTimers' = IF Reliable THEN {"F"} ELSE {"E", "F"}
    /\ c2s' = {"REQUEST"}

nict_terminate ==
    /\ nict' = "TERMINATED"
    /\ nictTimers' = {}

SendRequestNoChannel ==
    /\ nict = "INIT" /\ ~registered /\ chan = "NONE"
    /\ registered' = TRUE
    /\ nict_terminate
    /\ outcome' = NotSent /\ reports' = 1
    /\ UNCHANGED <<channel, timedOut, server, c2s, s2c>>

\* A closed channel has left its listening point and is replaced; one whose
\* error is yet to be notified is still found.  (A peer given by its address
\* is resolved at once: ChannelResolved follows.)
SendRequestWaiting ==
    /\ nict = "INIT" /\ ~registered
    /\ chan \in Preparing \cup {"ERROR", "DISCONNECTED"}
    /\ registered' = TRUE
    /\ chan' = IF chan \in {"INIT", "DISCONNECTED"}
               THEN "RES_IN_PROGRESS" ELSE chan
    /\ IF chan = "DISCONNECTED"
       THEN alternates' = MaxAlternates /\ notices' = 0
       ELSE UNCHANGED <<alternates, notices>>
    /\ UNCHANGED <<nict, nictTimers, timedOut, outcome, reports,
                   server, c2s, s2c>>

SendRequestReady ==
    /\ nict = "INIT" /\ ~registered /\ chan = "READY"
    /\ registered' = TRUE
    /\ UNCHANGED channel
    /\ nict_send_request
    /\ UNCHANGED <<timedOut, outcome, reports, server, s2c>>

SendRequest == SendRequestNoChannel \/ SendRequestWaiting \/ SendRequestReady

nict_on_response_early(code) ==
    /\ nict = "TRYING" /\ code < 200
    /\ nict' = "PROCEEDING"
    /\ UNCHANGED <<nictTimers, outcome, reports>>

\* Mutant: the state is not looked at.
nict_set_completed_again(code) ==
    /\ nict \in Waiting \cup {"COMPLETED"} /\ code >= 200
    /\ IF Reliable
       THEN nict_terminate
       ELSE nict' = "COMPLETED" /\ nictTimers' = nictTimers \cup {"K"}
    /\ outcome' = code
    /\ reports' = reports + 1

nict_set_completed(code) ==
    /\ nict \in Waiting /\ code >= 200
    /\ IF Reliable
       THEN nict_terminate
       ELSE nict' = "COMPLETED" /\ nictTimers' = nictTimers \cup {"K"}
    /\ outcome' = code
    /\ reports' = reports + 1

\* A 1xx in PROCEEDING is not reported; other states ignore responses.
nict_on_response_ignored(code) ==
    /\ nict \in {"COMPLETED", "TERMINATED"}
        \/ (nict = "PROCEEDING" /\ code < 200)
    /\ UNCHANGED <<nict, nictTimers, outcome, reports>>

\* A connection is not read from once it failed; UDP still is.
ReceiveResponse(code) ==
    /\ ResponseDeliverable(code)
    /\ Reliable => chan = "READY"
    /\ s2c' \in AfterDelivery(s2c, code)
    /\ \/ nict_on_response_early(code)
       \/ nict_set_completed(code)
       \/ nict_on_response_ignored(code)
    /\ UNCHANGED <<channel, registered, timedOut, server, c2s>>

\* The timer goes on while the request waits and stops itself after that.
\* What it gives to a channel that is not ready is left to its next turn.
nict_on_timer_E ==
    /\ "E" \in nictTimers
    /\ IF nict \in Waiting
       THEN /\ c2s' = IF chan = "READY" THEN {"REQUEST"} ELSE c2s
            /\ UNCHANGED nictTimers
       ELSE nictTimers' = nictTimers \ {"E"} /\ UNCHANGED c2s
    /\ UNCHANGED <<channel, registered, nict, timedOut, outcome, reports,
                   server, s2c>>

nict_on_timer_K ==
    /\ "K" \in nictTimers
    /\ nict_terminate
    /\ UNCHANGED <<channel, registered, timedOut, outcome, reports,
                   server, c2s, s2c>>

-----------------------------------------------------------------------------
(* The channel of the client.                                              *)

ConnectionLost ==
    IF Reliable THEN s2c' = {} /\ c2s' \in SUBSET c2s
    ELSE UNCHANGED <<c2s, s2c>>

\* on_channel_state_changed with READY: a request that waited is sent.  Here
\* and below, armed is what the step leaves of the timers of another one.
channel_ready_notified(armed) ==
    /\ chan' = "READY"
    /\ IF registered /\ nict = "INIT"
       THEN nict_send_request
       ELSE nictTimers' = armed /\ UNCHANGED <<nict, c2s>>

give_up ==
    /\ chan' = "ERROR"
    /\ notices' = notices + 1

\* belle_sip_channel_connect with left addresses after the current one.  UDP
\* is ready at once; TCP waits in state connecting, unless connect() fails:
\* then handle_error tries the next address, to the last.
connect(left, connecting, armed) ==
    IF ~Reliable
    THEN /\ alternates' = left
         /\ channel_ready_notified(armed)
         /\ UNCHANGED notices
    ELSE /\ \/ chan' = connecting /\ alternates' \in 0..left /\ UNCHANGED notices
            \/ give_up /\ alternates' = 0
         /\ nictTimers' = armed /\ UNCHANGED nict
         /\ c2s' \in SUBSET c2s

\* belle_sip_channel_handle_error: the next address while not READY, which
\* an earlier error that is yet to be notified also means.  The source of a
\* TCP channel that was waiting for its connection is marked cancelled when
\* it leaves the main loop, and stays so when it is added again for the next
\* address: nobody sees that connection succeed or fail.
handle_error(armed) ==
    IF chan # "READY" /\ alternates > 0
    THEN /\ connect(alternates - 1, "STALLED", armed)
         /\ IF Reliable THEN s2c' = {} ELSE UNCHANGED s2c
    ELSE /\ give_up
         /\ nictTimers' = armed
         /\ UNCHANGED <<alternates, nict, c2s, s2c>>

\* channel_res_done.
ChannelResolved ==
    /\ chan = "RES_IN_PROGRESS"
    /\ connect(alternates, "CONNECTING", nictTimers)
    /\ UNCHANGED <<registered, timedOut, outcome, reports, server, s2c>>

ResolutionFails ==
    /\ chan = "RES_IN_PROGRESS"
    /\ give_up
    /\ UNCHANGED <<alternates, client, server, c2s, s2c>>

ConnectionMade ==
    /\ chan = "CONNECTING"
    /\ channel_ready_notified(nictTimers)
    /\ UNCHANGED <<alternates, notices, registered, timedOut, outcome,
                   reports, server, s2c>>

ConnectionFails ==
    /\ chan = "CONNECTING"
    /\ handle_error(nictTimers)
    /\ UNCHANGED <<registered, timedOut, outcome, reports, server>>

\* Sending or receiving fails.  A UDP channel is still read from, since the
\* socket is that of the listening point, until its error is notified.
ChannelFails ==
    /\ chan = "READY" \/ (~Reliable /\ chan = "ERROR")
    /\ notices < MaxNotices
    /\ handle_error(nictTimers)
    /\ UNCHANGED <<registered, timedOut, outcome, reports, server>>

\* on_channel_state_changed with ERROR or DISCONNECTED: the error is told
\* first, then the timeout that was held back.
channel_error_notified ==
    /\ chan' = "DISCONNECTED"
    /\ IF registered
       THEN LET told == nict \in {"INIT"} \cup Waiting IN
            /\ outcome' = IF timedOut THEN TimedOut
                          ELSE IF told THEN IoError ELSE outcome
            /\ reports' = reports + (IF told THEN 1 ELSE 0)
                                  + (IF timedOut THEN 1 ELSE 0)
            /\ nict_terminate
       ELSE UNCHANGED <<outcome, reports, nict, nictTimers>>
    /\ ConnectionLost

\* The deferred notification passes on the state of the moment: listeners
\* only act on it when that still is ERROR (or DISCONNECTED), be it again.
DeferredNotice ==
    /\ notices > 0
    /\ notices' = notices - 1
    /\ IF chan \in {"ERROR", "DISCONNECTED"}
       THEN channel_error_notified
       ELSE UNCHANGED <<chan, outcome, reports, nict, nictTimers, c2s, s2c>>
    /\ UNCHANGED <<alternates, registered, timedOut, server>>

\* The peer, the inactivity timer that every channel has from the start, or
\* belle_sip_provider_clean_channels closes: notified at once.
ChannelDisconnected ==
    /\ chan \in Preparing \cup {"READY", "ERROR"}
    /\ channel_error_notified
    /\ UNCHANGED <<alternates, notices, registered, timedOut, server>>

\* F ends the transaction, except that of a REGISTER on a channel that has
\* been silent for a minute, hence had no provisional answer either: then
\* the error of the channel is to end it.
notify_timeout_to_channel ==
    /\ Register /\ nict = "TRYING"
    /\ timedOut' = TRUE
    /\ handle_error(nictTimers \ {"F"})
    /\ UNCHANGED <<outcome, reports>>

notify_timeout_to_listener ==
    /\ nict_terminate
    /\ outcome' = TimedOut
    /\ reports' = reports + 1
    /\ UNCHANGED <<channel, timedOut, c2s, s2c>>

\* Mutants: F does not look at the state; F only cleans up.
nict_on_timer_F_blind ==
    /\ "F" \in nictTimers
    /\ notify_timeout_to_listener
    /\ UNCHANGED <<registered, server>>

nict_on_timer_F_idle ==
    /\ "F" \in nictTimers
    /\ nictTimers' = nictTimers \ {"F"}
    /\ UNCHANGED <<channel, nict, timedOut, outcome, reports, c2s, s2c>>
    /\ UNCHANGED <<registered, server>>

nict_on_timer_F ==
    /\ "F" \in nictTimers
    /\ IF nict \in Waiting
       THEN notify_timeout_to_channel \/ notify_timeout_to_listener
       ELSE /\ nictTimers' = nictTimers \ {"F"}
            /\ UNCHANGED <<channel, nict, timedOut, outcome, reports, c2s, s2c>>
    /\ UNCHANGED <<registered, server>>

-----------------------------------------------------------------------------
(* The server transactions.                                                *)

\* Mutant: a request that has its answer is not matched any more.
MatchedUntilAnswered == nist \in Waiting

Matched == nist \notin {"NONE", "TERMINATED"}

\* Mutant: a request is answerable, hence repeatable, before any response.
nist_new_proceeding ==
    /\ ~Matched
    /\ offers < MaxOffers
    /\ offers' = offers + 1
    /\ nist' = "PROCEEDING"
    /\ nistTimers' = {}
    /\ lastResponse' = 0
    /\ UNCHANGED s2c

nist_new ==
    /\ ~Matched
    /\ offers < MaxOffers
    /\ offers' = offers + 1
    /\ nist' = "TRYING"
    /\ nistTimers' = {}
    /\ lastResponse' = 0
    /\ UNCHANGED s2c

nist_on_request_retransmission ==
    /\ Matched
    /\ s2c' = IF nist \in {"PROCEEDING", "COMPLETED"}
              THEN s2c \cup {lastResponse} ELSE s2c
    /\ UNCHANGED <<nist, nistTimers, lastResponse, offers>>

ReceiveRequest ==
    /\ c2s # {}
    /\ c2s' \in AfterDelivery(c2s, "REQUEST")
    /\ nist_new \/ nist_on_request_retransmission
    /\ UNCHANGED <<channel, client, given>>

\* A response over a connection that is lost goes nowhere.
Reaches(code) == IF Reliable /\ chan # "READY" THEN {} ELSE {code}

nist_send_provisional(code) ==
    /\ code < 200
    /\ nist' = "PROCEEDING"
    /\ UNCHANGED <<nistTimers, given>>

nist_set_completed(code) ==
    /\ code >= 200
    /\ nist' = "COMPLETED"
    /\ nistTimers' = {"J"}
    /\ given' = given \cup {code}

\* A response after the final one is refused.
Respond(code) ==
    /\ nist \in Waiting
    /\ nist_send_provisional(code) \/ nist_set_completed(code)
    /\ lastResponse' = code
    /\ s2c' = s2c \cup Reaches(code)
    /\ UNCHANGED <<channel, client, offers, c2s>>

\* J is 64*T1 on UDP, which outlasts the client's 64*T1 and the request when
\* clocks and network are punctual, and 0 on a reliable transport.
nist_on_timer_J ==
    /\ "J" \in nistTimers
    /\ Punctual /\ ~Reliable => nict \notin Waiting /\ c2s = {}
    /\ nist' = "TERMINATED"
    /\ nistTimers' = {}
    /\ UNCHANGED <<channel, client, lastResponse, offers, given, c2s, s2c>>

-----------------------------------------------------------------------------
Step ==
    \/ SendRequest
    \/ \E code \in Responses :
            ReceiveResponse(code) \/ Respond(code) \/ LoseResponse(code)
    \/ nict_on_timer_E \/ nict_on_timer_F \/ nict_on_timer_K
    \/ ChannelResolved \/ ResolutionFails \/ ConnectionMade \/ ConnectionFails
    \/ ChannelFails \/ ChannelDisconnected \/ DeferredNotice
    \/ ReceiveRequest \/ nist_on_timer_J \/ LoseRequest

SameSetting == UNCHANGED setting

Next == Step /\ SameSetting

Spec == Init /\ [][Next]_vars

(* The main loop fires every armed timer and deferred call, names are      *)
(* resolved and connections made or refused, and UDP keeps no request for  *)
(* ever.  A stalled channel neither sends nor receives, so that its        *)
(* inactivity timer closes it at last.                                     *)
StalledChannelExpires == chan = "STALLED" /\ ChannelDisconnected

Fairness ==
    /\ WF_vars(SendRequest /\ SameSetting)
    /\ WF_vars(DeferredNotice /\ SameSetting)
    /\ WF_vars((ChannelResolved \/ ResolutionFails) /\ SameSetting)
    /\ WF_vars((ConnectionMade \/ ConnectionFails) /\ SameSetting)
    /\ WF_vars(StalledChannelExpires /\ SameSetting)
    /\ WF_vars(nict_on_timer_F /\ SameSetting)
    /\ WF_vars(nict_on_timer_K /\ SameSetting)
    /\ \A code \in Responses : WF_vars(ReceiveResponse(code) /\ SameSetting)
    /\ WF_vars(ReceiveRequest /\ SameSetting)
    /\ WF_vars(LoseRequest /\ SameSetting)
    /\ WF_vars((\E code \in Final : Respond(code)) /\ SameSetting)
    /\ WF_vars(nist_on_timer_J /\ SameSetting)

FairSpec == Spec /\ Fairness

-----------------------------------------------------------------------------
(* Properties.                                                             *)

\* The sender's listener is given one final report per request; only when a
\* REGISTER blamed its channel does it hear of it twice (the channel's error
\* and the timeout, or a late answer and the timeout).
OneReport == reports > 1 => timedOut

\* However often a request is repeated, the receiving listener is offered it
\* once and its transaction has one final answer.
OfferedOnce == Punctual /\ ~Reliable => offers <= 1 /\ Cardinality(given) <= 1

Abstract == INSTANCE Exchange
                WITH Repeatable <- {}, Once <- Final,
                     Failures <- GaveUp, Unheard <- NotHeard

\* What the sender's listener hears is one answer that was given, or one
\* local report, and it is never changed into something else.
ImplementsExchange == Abstract!Spec

\* Every request that is sent ends, for all losses and channel failures, and
\* a server transaction ends once its listener answers, whatever is lost.
TransactionsEnd ==
    /\ registered ~> nict = "TERMINATED"
    /\ nist \in Waiting ~> nist = "TERMINATED"
=============================================================================
