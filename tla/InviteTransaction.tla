-------------------------- MODULE InviteTransaction --------------------------
(***************************************************************************)
(* The INVITE transaction of belle-sip: a client transaction (ict.c), the  *)
(* server transactions its INVITE creates (ist.c), the code both share     *)
(* (transaction.c), the provider's matching of messages to transactions    *)
(* (provider.c), the users of both sides and the network between them.     *)
(*                                                                         *)
(* belle-sip runs on one thread: an action is one callback of its main     *)
(* loop (a message received, a timer fired, a channel event) or one call   *)
(* of the application, and runs to its end.  Timers have no duration here: *)
(* an armed timer may fire at any time, except as Punctual says.           *)
(***************************************************************************)
EXTENDS Naturals, FiniteSets

CONSTANTS
    Reliable,       \* TRUE: the transport is TCP or TLS, FALSE: UDP
    Punctual,       \* TRUE: no INVITE survives the timers H, I and L
    Provisional,    \* the 1xx codes the callee's user sends (100 excluded)
    Success,        \* the 2xx codes
    Failure,        \* the codes from 300 on
    MaxOffers       \* bound: server transactions created for this INVITE

ASSUME BooleanAssumption == Reliable \in BOOLEAN /\ Punctual \in BOOLEAN
ASSUME CodesAssumption ==
    /\ Provisional \subseteq 101..199
    /\ Success \subseteq 200..299
    /\ Failure \subseteq 300..699
ASSUME OffersAssumption == MaxOffers \in Nat

VARIABLES
    chan,           \* channel of the client: belle_sip_channel_t.state
    registered,     \* the client transaction is in the provider's list
    ict,            \* client: base.state
    ictTimers,      \* client: timers among A, B, D and M that are armed
    outcome,        \* what the caller's listener was told last
    ist,            \* latest server transaction: base.state, "NONE" before
    istTimers,      \* server: timers among G, H, I and L that are armed
    lastResponse,   \* server: base.last_response, 0 before the first
    offers,         \* INVITEs the callee's listener was offered as new
    given,          \* final codes the callee's listener has given
    c2s,            \* requests under way: "INVITE", "ACK"
    s2c             \* responses under way

client == <<chan, registered, ict, ictTimers, outcome>>
server == <<ist, istTimers, lastResponse, offers, given>>
vars   == <<chan, registered, ict, ictTimers, outcome,
            ist, istTimers, lastResponse, offers, given, c2s, s2c>>

Final     == Success \cup Failure
Responses == {100} \cup Provisional \cup Final

\* What the caller's listener hears besides a final code.
NotHeard == 0
TimedOut == 1   \* process_timeout
IoError  == 2   \* process_io_error
NotSent  == 3   \* belle_sip_client_transaction_send_request returned -1
GaveUp   == {TimedOut, IoError, NotSent}

ChannelStates == {"NONE", "INIT", "PENDING", "READY", "DOWN"}
IctStates == {"INIT", "CALLING", "PROCEEDING", "COMPLETED", "ACCEPTED",
              "TERMINATED"}
IstStates == {"NONE", "PROCEEDING", "COMPLETED", "CONFIRMED", "ACCEPTED",
              "TERMINATED"}

TypeOK ==
    /\ chan \in ChannelStates
    /\ registered \in BOOLEAN
    /\ ict \in IctStates
    /\ ictTimers \in SUBSET {"A", "B", "D", "M"}
    /\ outcome \in {NotHeard} \cup GaveUp \cup Final
    /\ ist \in IstStates
    /\ istTimers \in SUBSET {"G", "H", "I", "L"}
    /\ lastResponse \in {0} \cup Responses
    /\ offers \in Nat
    /\ given \in SUBSET Final
    /\ c2s \in SUBSET {"INVITE", "ACK"}
    /\ s2c \in SUBSET Responses

(* "PENDING" stands for the states between INIT and READY (resolving,      *)
(* connecting, retrying another address: see NonInviteTransaction), which  *)
(* end at the latest by the inactivity timer every channel has; "DOWN" for *)
(* ERROR and DISCONNECTED, and "NONE" for belle_sip_provider_get_channel   *)
(* returning NULL.                                                         *)
Init ==
    /\ chan \in {"NONE", "INIT", "PENDING", "READY"}
    /\ registered = FALSE
    /\ ict = "INIT" /\ ictTimers = {} /\ outcome = NotHeard
    /\ ist = "NONE" /\ istTimers = {} /\ lastResponse = 0
    /\ offers = 0 /\ given = {}
    /\ c2s = {} /\ s2c = {}

-----------------------------------------------------------------------------
(* The network.  UDP loses, repeats and reorders; TCP does none of it.     *)
(* Each side sends in the order INVITE, ACK and 100, 1xx, final: the first *)
(* sent of the messages under way is the first in that order.              *)

RequestDeliverable(m) ==
    m \in c2s /\ (Reliable /\ m = "ACK" => "INVITE" \notin c2s)

ResponseDeliverable(code) ==
    code \in s2c /\ (Reliable => \A other \in s2c : code <= other)

\* What a delivery may leave under way: on UDP a copy may still arrive.
AfterDelivery(net, m) == {net \ {m}} \cup (IF Reliable THEN {} ELSE {net})

LoseRequest(m) ==
    /\ ~Reliable /\ m \in c2s
    /\ c2s' = c2s \ {m}
    /\ UNCHANGED <<client, server, s2c>>

LoseResponse(code) ==
    /\ ~Reliable /\ code \in s2c
    /\ s2c' = s2c \ {code}
    /\ UNCHANGED <<client, server, c2s>>

-----------------------------------------------------------------------------
(* The client transaction.                                                 *)

ict_send_request ==
    /\ ict' = "CALLING"
    /\ ictTimers' = IF Reliable THEN {"B"} ELSE {"A", "B"}
    /\ c2s' = c2s \cup {"INVITE"}

ict_terminate ==
    /\ ict' = "TERMINATED"
    /\ ictTimers' = {}

SendRequestNoChannel ==
    /\ ict = "INIT" /\ ~registered
    /\ chan = "NONE"
    /\ registered' = TRUE
    /\ ict_terminate
    /\ outcome' = NotSent
    /\ UNCHANGED <<chan, server, c2s, s2c>>

\* A channel that is down has left its listening point: a new one is made.
SendRequestWaiting ==
    /\ ict = "INIT" /\ ~registered
    /\ chan \in {"INIT", "PENDING", "DOWN"}
    /\ registered' = TRUE
    /\ chan' = "PENDING"
    /\ UNCHANGED <<ict, ictTimers, outcome, server, c2s, s2c>>

SendRequestReady ==
    /\ ict = "INIT" /\ ~registered
    /\ chan = "READY"
    /\ registered' = TRUE
    /\ ict_send_request
    /\ UNCHANGED <<chan, outcome, server, s2c>>

SendRequest == SendRequestNoChannel \/ SendRequestWaiting \/ SendRequestReady

ChannelReady ==
    /\ chan = "PENDING"
    /\ chan' = "READY"
    /\ IF registered /\ ict = "INIT"
       THEN ict_send_request
       ELSE UNCHANGED <<ict, ictTimers, c2s>>
    /\ UNCHANGED <<registered, outcome, server, s2c>>

\* A channel with no listener is only forgotten; the transaction reports
\* the error to its listener unless it is over for it.  Requests under way
\* may be lost with the connection.
ChannelDown ==
    /\ chan \in {"PENDING", "READY"}
    /\ chan' = "DOWN"
    /\ IF registered
       THEN /\ outcome' = IF ict \in {"INIT", "CALLING", "PROCEEDING"}
                          THEN IoError ELSE outcome
            /\ ict_terminate
       ELSE UNCHANGED <<outcome, ict, ictTimers>>
    /\ c2s' \in SUBSET c2s
    /\ UNCHANGED <<registered, server, s2c>>

\* A final response is acknowledged by the transaction (failure) or by the
\* dialog (success); D and M keep it to answer repeated responses.
ict_on_response_early(code) ==
    /\ ict \in {"CALLING", "PROCEEDING"}
    /\ code < 200
    /\ ict' = "PROCEEDING"
    /\ UNCHANGED <<ictTimers, outcome, c2s>>

\* Mutants: M is not armed; the transaction acknowledges a 2xx itself.
ict_on_response_success_untimed(code) ==
    /\ ict \in {"CALLING", "PROCEEDING"}
    /\ code \in Success
    /\ ict' = "ACCEPTED"
    /\ outcome' = code
    /\ UNCHANGED <<ictTimers, c2s>>

ict_on_response_success_acked(code) ==
    /\ ict \in {"CALLING", "PROCEEDING"}
    /\ code \in Success
    /\ ict' = "ACCEPTED"
    /\ ictTimers' = ictTimers \cup {"M"}
    /\ outcome' = code
    /\ c2s' = c2s \cup {"ACK"}

ict_on_response_success(code) ==
    /\ ict \in {"CALLING", "PROCEEDING"}
    /\ code \in Success
    /\ ict' = "ACCEPTED"
    /\ ictTimers' = ictTimers \cup {"M"}
    /\ outcome' = code
    /\ UNCHANGED c2s

ict_on_response_failure(code) ==
    /\ ict \in {"CALLING", "PROCEEDING"}
    /\ code \in Failure
    /\ ict' = "COMPLETED"
    /\ ictTimers' = ictTimers \cup {"D"}
    /\ outcome' = code
    /\ c2s' = c2s \cup {"ACK"}

\* After the final response: a 2xx is passed on again, a failure gets the
\* same ACK again, anything else and any response to a terminated
\* transaction is ignored.
ict_on_response_late(code) ==
    /\ ict \in {"ACCEPTED", "COMPLETED", "TERMINATED"}
    /\ outcome' = IF ict = "ACCEPTED" /\ code \in Success
                  THEN code ELSE outcome
    /\ c2s' = IF ict = "COMPLETED" /\ code \in Failure
              THEN c2s \cup {"ACK"} ELSE c2s
    /\ UNCHANGED <<ict, ictTimers>>

ReceiveResponse(code) ==
    /\ ResponseDeliverable(code)
    /\ s2c' \in AfterDelivery(s2c, code)
    /\ \/ ict_on_response_early(code)
       \/ ict_on_response_success(code)
       \/ ict_on_response_failure(code)
       \/ ict_on_response_late(code)
    /\ UNCHANGED <<chan, registered, server>>

ict_on_timer_A ==
    /\ "A" \in ictTimers /\ ict = "CALLING"
    /\ c2s' = c2s \cup {"INVITE"}
    /\ UNCHANGED <<client, server, s2c>>

\* Mutant: B does not look at the state.
ict_on_timer_B_blind ==
    /\ "B" \in ictTimers
    /\ ict_terminate /\ outcome' = TimedOut
    /\ UNCHANGED <<chan, registered, server, c2s, s2c>>

ict_on_timer_B ==
    /\ "B" \in ictTimers
    /\ IF ict = "CALLING"
       THEN ict_terminate /\ outcome' = TimedOut
       ELSE ictTimers' = ictTimers \ {"B"} /\ UNCHANGED <<ict, outcome>>
    /\ UNCHANGED <<chan, registered, server, c2s, s2c>>

ict_on_timer_D ==
    /\ "D" \in ictTimers /\ ict = "COMPLETED"
    /\ ict_terminate
    /\ UNCHANGED <<chan, registered, outcome, server, c2s, s2c>>

ict_on_timer_M ==
    /\ "M" \in ictTimers /\ ict = "ACCEPTED"
    /\ ict_terminate
    /\ UNCHANGED <<chan, registered, outcome, server, c2s, s2c>>

-----------------------------------------------------------------------------
(* The server transactions.  A terminated one has left the provider's list *)
(* and matches nothing any more.                                           *)

\* Mutant: a CONFIRMED transaction does not match a repeated INVITE.
MatchedUnlessConfirmed == ist \notin {"NONE", "CONFIRMED", "TERMINATED"}

Matched == ist \notin {"NONE", "TERMINATED"}

ist_terminate ==
    /\ ist' = "TERMINATED"
    /\ istTimers' = {}

\* Mutant: no 100 is sent, so there is no response to repeat.
ist_new_untried ==
    /\ ~Matched
    /\ offers < MaxOffers
    /\ offers' = offers + 1
    /\ ist' = "PROCEEDING"
    /\ istTimers' = {}
    /\ lastResponse' = 0
    /\ UNCHANGED s2c

\* An INVITE that matches no transaction is new to the callee's listener,
\* which creates a server transaction for it.
ist_new ==
    /\ ~Matched
    /\ offers < MaxOffers
    /\ offers' = offers + 1
    /\ ist' = "PROCEEDING"
    /\ istTimers' = {}
    /\ lastResponse' = 100
    /\ s2c' = s2c \cup {100}

ist_on_request_retransmission ==
    /\ Matched
    /\ s2c' = IF ist \in {"PROCEEDING", "COMPLETED"}
              THEN s2c \cup {lastResponse} ELSE s2c
    /\ UNCHANGED <<ist, istTimers, lastResponse, offers>>

ReceiveInvite ==
    /\ RequestDeliverable("INVITE")
    /\ c2s' \in AfterDelivery(c2s, "INVITE")
    /\ ist_new \/ ist_on_request_retransmission
    /\ UNCHANGED <<client, given>>

\* Mutant: H is cancelled with G, I is not armed.
ist_process_ack_untimed ==
    IF ist = "COMPLETED"
    THEN IF Reliable
         THEN ist_terminate
         ELSE ist' = "CONFIRMED" /\ istTimers' = {}
    ELSE UNCHANGED <<ist, istTimers>>

ist_process_ack ==
    IF ist = "COMPLETED"
    THEN IF Reliable
         THEN ist_terminate
         ELSE /\ ist' = "CONFIRMED"
              /\ istTimers' = (istTimers \ {"G"}) \cup {"I"}
    ELSE UNCHANGED <<ist, istTimers>>

ReceiveAck ==
    /\ RequestDeliverable("ACK")
    /\ c2s' \in AfterDelivery(c2s, "ACK")
    /\ ist_process_ack
    /\ UNCHANGED <<client, lastResponse, offers, given, s2c>>

ist_send_provisional(code) ==
    /\ ist = "PROCEEDING" /\ code \in Provisional
    /\ s2c' = s2c \cup {code}
    /\ lastResponse' = code
    /\ UNCHANGED <<ist, istTimers, given>>

ist_send_success(code) ==
    /\ ist = "PROCEEDING" /\ code \in Success
    /\ s2c' = s2c \cup {code}
    /\ lastResponse' = code
    /\ ist' = "ACCEPTED"
    /\ istTimers' = {"L"}
    /\ given' = given \cup {code}

\* Mutant: a refusal is sent after a 2xx.
ist_send_failure_late(code) ==
    /\ ist \in {"PROCEEDING", "ACCEPTED"} /\ code \in Failure
    /\ s2c' = s2c \cup {code}
    /\ lastResponse' = code
    /\ ist' = "COMPLETED"
    /\ istTimers' = IF Reliable THEN {"H"} ELSE {"G", "H"}
    /\ given' = given \cup {code}

ist_send_failure(code) ==
    /\ ist = "PROCEEDING" /\ code \in Failure
    /\ s2c' = s2c \cup {code}
    /\ lastResponse' = code
    /\ ist' = "COMPLETED"
    /\ istTimers' = IF Reliable THEN {"H"} ELSE {"G", "H"}
    /\ given' = given \cup {code}

\* A 2xx given again once accepted only becomes the last response: nothing
\* puts it on the channel.
ist_send_again(code) ==
    /\ ist = "ACCEPTED" /\ code \in Success
    /\ lastResponse' = code
    /\ given' = given \cup {code}
    /\ UNCHANGED <<ist, istTimers, s2c>>

Respond(code) ==
    /\ \/ ist_send_provisional(code)
       \/ ist_send_success(code)
       \/ ist_send_failure(code)
       \/ ist_send_again(code)
    /\ UNCHANGED <<client, offers, c2s>>

\* When clocks and network are punctual, the 64*T1 of H and L end after the
\* client's own 64*T1 and after the last copy of the INVITE, and the T4 of I
\* is what SIP takes for the longest life of a message.
TimerDue == Punctual => ict # "CALLING" /\ "INVITE" \notin c2s

ist_on_timer_G ==
    /\ "G" \in istTimers /\ ist = "COMPLETED"
    /\ s2c' = s2c \cup {lastResponse}
    /\ UNCHANGED <<client, server, c2s>>

ist_on_timer_H ==
    /\ "H" \in istTimers /\ TimerDue
    /\ IF ist = "COMPLETED"
       THEN ist_terminate
       ELSE istTimers' = istTimers \ {"H"} /\ UNCHANGED ist
    /\ UNCHANGED <<client, lastResponse, offers, given, c2s, s2c>>

ist_on_timer_I ==
    /\ "I" \in istTimers /\ TimerDue
    /\ ist_terminate
    /\ UNCHANGED <<client, lastResponse, offers, given, c2s, s2c>>

ist_on_timer_L ==
    /\ "L" \in istTimers /\ TimerDue
    /\ ist_terminate
    /\ UNCHANGED <<client, lastResponse, offers, given, c2s, s2c>>

-----------------------------------------------------------------------------
Next ==
    \/ SendRequest \/ ChannelReady \/ ChannelDown
    \/ \E code \in Responses : ReceiveResponse(code) \/ Respond(code)
    \/ ict_on_timer_A \/ ict_on_timer_B \/ ict_on_timer_D \/ ict_on_timer_M
    \/ ReceiveInvite \/ ReceiveAck
    \/ ist_on_timer_G \/ ist_on_timer_H \/ ist_on_timer_I \/ ist_on_timer_L
    \/ \E m \in {"INVITE", "ACK"} : LoseRequest(m)
    \/ \E code \in Responses : LoseResponse(code)

Spec == Init /\ [][Next]_vars

(* The main loop fires every timer that is armed and reads every socket    *)
(* that is readable; the application sends its INVITE and the callee's     *)
(* user ends up answering; UDP does not keep an INVITE under way for ever. *)
Fairness ==
    /\ WF_vars(SendRequest) /\ WF_vars(ChannelReady)
    /\ \A code \in Responses : WF_vars(ReceiveResponse(code))
    /\ WF_vars(\E code \in Final : Respond(code))
    /\ WF_vars(ReceiveInvite) /\ WF_vars(ReceiveAck)
    /\ WF_vars(LoseRequest("INVITE"))
    /\ WF_vars(ict_on_timer_B)
    /\ WF_vars(ict_on_timer_D) /\ WF_vars(ict_on_timer_M)
    /\ WF_vars(ist_on_timer_H)
    /\ WF_vars(ist_on_timer_I) /\ WF_vars(ist_on_timer_L)

FairSpec == Spec /\ Fairness

-----------------------------------------------------------------------------
(* Properties.                                                             *)

\* A transaction that waits for its peer holds the timer that ends the wait
\* (B, D, M; H, I, L) and one that is over holds none: nothing is left in
\* the provider's lists for ever and no timer fires on a dead transaction.
EveryWaitIsTimed ==
    /\ ict = "CALLING" => "B" \in ictTimers
    /\ ict = "COMPLETED" => "D" \in ictTimers
    /\ ict = "ACCEPTED" => "M" \in ictTimers
    /\ ict \in {"INIT", "TERMINATED"} => ictTimers = {}
    /\ ist = "COMPLETED" => "H" \in istTimers
    /\ ist = "CONFIRMED" => "I" \in istTimers
    /\ ist = "ACCEPTED" => "L" \in istTimers
    /\ ist \in {"NONE", "PROCEEDING", "TERMINATED"} => istTimers = {}

\* A server transaction is CONFIRMED, and an ACK of the client transaction
\* is under way, only if the caller's listener was told of a refusal the
\* callee's listener gave.
AckMeansRefused ==
    ist = "CONFIRMED" \/ "ACK" \in c2s => outcome \in Failure \cap given

\* The callee's listener never gives two final answers of which one is a
\* refusal, however requests are repeated and answers given again.
NoMixedVerdict ==
    Punctual => (given \cap Failure # {} => Cardinality(given) = 1)

\* However often the INVITE is sent or repeated by the network, it is
\* offered to the callee's listener as a new call once only.
OfferedOnce == Punctual => offers <= 1

Abstract == INSTANCE Exchange
                WITH Repeatable <- Success, Once <- Failure,
                     Failures <- GaveUp, Unheard <- NotHeard

\* The transactions implement Exchange: what the caller's listener is
\* told is one verdict the callee gave or one local report, and it is never
\* changed into something else, for all losses, repetitions and timers.
ImplementsExchange == Abstract!Spec

\* For all losses and channel failures the caller is told something unless
\* it still waits for its callee, which the code does without limit, and no
\* transaction stays in a state that only a lost message would leave.
LossIsSurvived ==
    /\ registered ~> outcome # NotHeard \/ ict = "PROCEEDING"
    /\ ict \in {"CALLING", "COMPLETED", "ACCEPTED"}
            ~> ict \in {"PROCEEDING", "TERMINATED"}
    /\ ist \in {"PROCEEDING", "COMPLETED", "CONFIRMED", "ACCEPTED"}
            ~> ist = "TERMINATED"
=============================================================================
