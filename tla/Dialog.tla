------------------------------- MODULE Dialog -------------------------------
(***************************************************************************)
(* The dialog of a call at its two ends: belle-sip's dialog.c with what    *)
(* transaction.c and provider.c do around it, and the user it has in       *)
(* linphone, the call operation of sal_op_call.c.  "A" sent the INVITE     *)
(* that made the dialog and "B" is being rung by it.                       *)
(*                                                                         *)
(* One action is one callback of an end's main loop or one call of its     *)
(* application; what the callback calls is applied to the record of the    *)
(* end, which also collects the messages that are sent.  Transactions are  *)
(* what InviteTransaction and NonInviteTransaction show of them: a request *)
(* reaches the other end once or is lost, its final response too.          *)
(***************************************************************************)
EXTENDS Naturals, Sequences, FiniteSets, SequencesExt

CONSTANTS
    Settings,       \* the settings under study, of which Init takes one
    MaxQueued       \* bound: requests waiting in an end's queue

Side == {"A", "B"}

\* The transport and what the two applications do.
ASSUME SettingsAssumption == \A c \in Settings : c \in
    [ordered   : BOOLEAN,       \* one TCP connection, else UDP
     infoSenders : SUBSET Side, \* ends that send INFO (DTMF)
     updaters  : SUBSET Side,   \* ends that send re-INVITEs
     deferrers : SUBSET Side,   \* ends that answer a re-INVITE later
     patient   : SUBSET Side,   \* ends that wait for the end of a re-INVITE
                                \* before they ask for another
     leavers   : SUBSET Side,   \* ends whose user hangs up
     requests  : Nat,           \* bound: requests an end asks for
     copies    : Nat]           \* bound: retransmissions of the 200 Ok
ASSUME QueueAssumption == MaxQueued \in Nat

VARIABLES
    setting,    \* one of Settings, which no step changes
    end,    \* what each end keeps: a record, see TypeOK
    net     \* the messages under way to each end

vars == <<setting, end, net>>

Ordered     == setting.ordered
InfoSenders == setting.infoSenders
Updaters    == setting.updaters
Deferrers   == setting.deferrers
Patient     == setting.patient
Leavers     == setting.leavers
MaxRequests == setting.requests
MaxCopies   == setting.copies

Peer(s) == CHOOSE p \in Side : p # s

\* last_transaction is a server transaction: it has been answered, or it is
\* the INVITE that rings B, whose dialog gets no request meanwhile.
Settled == 0

Request(method, cseq) == [method |-> method, cseq |-> cseq, code |-> 0]
Response(method, cseq, code) == [method |-> method, cseq |-> cseq, code |-> code]

IsRequest(m) == m.code = 0

Requests  == {"INVITE", "INFO", "BYE"}
Codes     == {100, 200, 481, 491, 500, 603}
Transient == {"TRYING", "PROCEEDING"}       \* TRYING is CALLING for an INVITE

Message == [method : Requests \cup {"ACK"}, cseq : Nat, code : {0} \cup Codes]

End ==
    [state      : {"EARLY", "CONFIRMED", "TERMINATED"},
     previous   : {"EARLY", "CONFIRMED"},   \* previous_state, once deleted
     needsAck   : BOOLEAN,
     localCseq  : Nat,
     remoteCseq : Nat,
     outInvite  : Nat,       \* CSeq of last_out_invite, 0: none
     outAck     : Nat,       \* CSeq of last_out_ack, 0: none
     retrans    : BOOLEAN,          \* the timers of the 200 Ok are armed
     copies     : 0..MaxCopies,     \* retransmissions of the 200 Ok
     queued     : Nat,              \* length of queued_ct
     last       : Nat,       \* CSeq of last_transaction, or Settled
     clients    : SUBSET [method : Requests, cseq : Nat,
                          state : Transient \cup {"ACCEPTED"}],
     offered    : Nat,       \* INVITE of pending_server_trans to answer
     op         : {"ALIVE", "TERMINATING", "TERMINATED"},   \* SalOp.state
     deferred   : 0..2,             \* callbacks of a deleted dialog to come
     byeSent    : BOOLEAN,          \* it ever sent a BYE
     asked      : 0..MaxRequests,   \* requests of its application
     misplaced  : BOOLEAN]          \* a re-INVITE rang it as a new call

TypeOK ==
    /\ setting \in Settings
    /\ end \in [Side -> End]
    /\ net \in [Side -> IF Ordered THEN Seq(Message) ELSE SUBSET Message]

\* The INVITE, of CSeq 1, was answered 180; local_cseq is set by the 2xx.
RingingEnd ==
    [state |-> "EARLY", previous |-> "EARLY", needsAck |-> FALSE, localCseq |-> 0, remoteCseq |-> 0,
     outInvite |-> 0, outAck |-> 0, retrans |-> FALSE, copies |-> 0, queued |-> 0,
     last |-> Settled, clients |-> {}, offered |-> 0, op |-> "ALIVE",
     deferred |-> 0, byeSent |-> FALSE, asked |-> 0, misplaced |-> FALSE]

Init ==
    /\ setting \in Settings
    /\ end = [s \in Side |->
                IF s = "A"
                THEN [RingingEnd EXCEPT !.last = 1, !.clients =
                        {[method |-> "INVITE", cseq |-> 1, state |-> "PROCEEDING"]}]
                ELSE [RingingEnd EXCEPT !.remoteCseq = 1, !.offered = 1]]
    /\ net = [s \in Side |-> IF Ordered THEN <<>> ELSE {}]

-----------------------------------------------------------------------------
(* The functions of dialog.c, each giving the record of the end after it.  *)
(* In the course of a callback the record has a field "out": what is sent. *)

Put(d, m) == [d EXCEPT !.out = Append(@, m)]

belle_sip_dialog_request_pending(d) ==
    d.needsAck \/ \E t \in d.clients : t.cseq = d.last /\ t.state \in Transient

\* A request with the next CSeq, its client transaction and, as it is sent,
\* the dialog's update with a transaction that has no response yet.
send_request(d, method) ==
    LET c == d.localCseq + 1 IN
    Put([d EXCEPT !.localCseq = c,
                  !.last = c,
                  !.clients = @ \cup {[method |-> method, cseq |-> c,
                                       state |-> "TRYING"]},
                  !.byeSent = @ \/ method = "BYE"],
        Request(method, c))

belle_sip_dialog_process_queue_unchecked(d) ==
    IF ~belle_sip_dialog_request_pending(d)
    THEN send_request([d EXCEPT !.queued = @ - 1], "INFO")
    ELSE d

belle_sip_dialog_process_queue(d) ==
    IF d.queued > 0 /\ ~belle_sip_dialog_request_pending(d)
    THEN send_request([d EXCEPT !.queued = @ - 1], "INFO")
    ELSE d

\* belle_sip_dialog_create_queued_request and sending it.
send_queued_request(d) ==
    IF belle_sip_dialog_request_pending(d)
    THEN [d EXCEPT !.queued = @ + 1]
    ELSE send_request(d, "INFO")

belle_sip_dialog_delete(d) ==
    [d EXCEPT !.state = "TERMINATED", !.previous = d.state,
              !.retrans = FALSE, !.queued = 0, !.deferred = 2]

\* belle_sip_dialog_update once a BYE has its final response, whatever it is.
ByeAnswered(d) == belle_sip_dialog_delete([d EXCEPT !.needsAck = FALSE])

\* On the final response to the first INVITE, or on any other response to an
\* INVITE of an early dialog.
belle_sip_dialog_establish_refused(d, cseq, code, isServer) ==
    IF code < 200 \/ (code >= 300 /\ ~isServer) THEN d
    ELSE IF code >= 300 THEN belle_sip_dialog_delete(d)
    ELSE IF isServer
         THEN [d EXCEPT !.state = "CONFIRMED", !.needsAck = TRUE,
                        !.remoteCseq = cseq, !.retrans = TRUE]
         ELSE [d EXCEPT !.state = "CONFIRMED", !.needsAck = TRUE,
                        !.localCseq = cseq, !.outInvite = cseq]

belle_sip_dialog_establish(d, cseq, code, isServer) ==
    IF code < 200 THEN d
    ELSE IF code >= 300 THEN belle_sip_dialog_delete(d)
    ELSE IF isServer
         THEN [d EXCEPT !.state = "CONFIRMED", !.needsAck = TRUE,
                        !.remoteCseq = cseq, !.retrans = TRUE]
         ELSE [d EXCEPT !.state = "CONFIRMED", !.needsAck = TRUE,
                        !.localCseq = cseq, !.outInvite = cseq]

\* handle_200Ok: the 2xx is acknowledged already.
IsRetransmission(d, m) ==
    d.state = "CONFIRMED" /\ m.method = "INVITE" /\ m.code \in 200..299
        /\ d.outAck = m.cseq

\* belle_sip_dialog_update(as_uas=TRUE) as the response m is sent.
update_as_uas(s, d, m) ==
    LET u == [d EXCEPT !.last = Settled, !.remoteCseq = m.cseq] IN
    CASE d.state = "EARLY" /\ m.method = "INVITE" ->
            belle_sip_dialog_process_queue(
                belle_sip_dialog_establish(u, m.cseq, m.code, s = "B"))
      [] d.state = "CONFIRMED" /\ m.method = "BYE" ->
            ByeAnswered(u)
      [] d.state = "CONFIRMED" /\ m.method = "INVITE" ->
            belle_sip_dialog_process_queue([u EXCEPT !.needsAck = m.code < 300])
      [] OTHER -> belle_sip_dialog_process_queue(u)

\* belle_sip_dialog_update(as_uas=FALSE) as the response m is received.
update_as_uac(s, d, m) ==
    LET u == [d EXCEPT !.last = m.cseq] IN
    CASE d.state = "EARLY" /\ m.method = "INVITE" ->
            belle_sip_dialog_process_queue(
                belle_sip_dialog_establish(u, m.cseq, m.code, s = "B"))
      [] d.state = "CONFIRMED" /\ m.method = "BYE" ->
            ByeAnswered(u)
      [] IsRetransmission(d, m) ->
            Put([u EXCEPT !.outInvite = m.cseq], Request("ACK", m.cseq))
      [] d.state = "CONFIRMED" /\ m.method = "INVITE" /\ m.code \in 200..299
            /\ ~IsRetransmission(d, m) ->
            [u EXCEPT !.outInvite = m.cseq, !.needsAck = TRUE]
      [] d.state = "CONFIRMED" /\ m.method = "INVITE" /\ m.code >= 300 ->
            belle_sip_dialog_process_queue([u EXCEPT !.needsAck = FALSE])
      [] OTHER -> belle_sip_dialog_process_queue(u)

belle_sip_dialog_check_ack_sent_never(d, m) == d

belle_sip_dialog_check_ack_sent(d, m) ==
    IF m.method = "INVITE" /\ d.needsAck THEN send_request(d, "BYE") ELSE d

-----------------------------------------------------------------------------
(* The callbacks of sal_op_call.c.                                         *)

\* An ACK is made for the INVITE whose CSeq is the dialog's latest.
ack_response_still_needed(d) ==
    IF d.outInvite # d.localCseq THEN d
    ELSE IF ~d.needsAck THEN d
    ELSE Put([d EXCEPT !.outAck = d.localCseq], Request("ACK", d.localCseq))

ack_response(d) ==
    IF d.outInvite # d.localCseq THEN d
    ELSE IF ~d.needsAck THEN d
    ELSE belle_sip_dialog_process_queue(
            Put([d EXCEPT !.needsAck = FALSE, !.outAck = d.localCseq],
                Request("ACK", d.localCseq)))

call_process_response(d, m) ==
    CASE d.state = "CONFIRMED" /\ d.op = "TERMINATING" -> send_request(d, "BYE")
      [] d.state = "CONFIRMED" /\ d.op = "ALIVE"
            /\ m.method = "INVITE" /\ m.code \in 200..299 -> ack_response(d)
      [] OTHER -> d

respond(s, d, m, code) ==
    LET r == Response(m.method, m.cseq, code) IN update_as_uas(s, Put(d, r), r)

\* ist_new answers an INVITE 100 before anything looks at its dialog.
Trying(d, m) ==
    IF m.method = "INVITE" THEN Put(d, Response("INVITE", m.cseq, 100)) ELSE d

process_request_event(s, d, m) ==
    IF d.state = "EARLY" THEN respond(s, Trying(d, m), m, 500)
    ELSE CASE m.method = "INVITE" /\ s \in Deferrers ->
                 [Trying(d, m) EXCEPT !.offered = m.cseq]
           [] m.method = "INVITE" /\ s \notin Deferrers ->
                 respond(s, Trying(d, m), m, 200)
           [] m.method = "INFO" -> respond(s, d, m, 200)
           [] m.method = "BYE" -> [respond(s, d, m, 200) EXCEPT !.op = "TERMINATING"]

-----------------------------------------------------------------------------
(* Callbacks and calls.                                                    *)

\* The network: in order and without loss over TCP, as a set over UDP.
Enqueue(inbox, ms) == IF Ordered THEN inbox \o ms ELSE inbox \cup ToSet(ms)

Deliverable(s) == IF ~Ordered THEN net[s]
                  ELSE IF net[s] = <<>> THEN {} ELSE {Head(net[s])}

UnderWay(s) == IF Ordered THEN ToSet(net[s]) ELSE net[s]

Without(s, m) == IF Ordered THEN Tail(net[s]) ELSE net[s] \ {m}

\* Side s runs to its end a callback that leaves it the record d, its inbox
\* being the queue that is left.
Run(s, inbox, d) == \E r \in {d} :
    /\ end' = [end EXCEPT ![s] = [f \in DOMAIN @ |-> r[f]]]
    /\ net' = [net EXCEPT ![s] = inbox, ![Peer(s)] = Enqueue(@, r.out)]
    /\ UNCHANGED setting

Begin(s) == [f \in DOMAIN end[s] \cup {"out"} |->
                IF f = "out" THEN <<>> ELSE end[s][f]]

\* A request to a dialog that is not in the provider's list: a BYE or INFO is
\* refused, an INVITE is the first of a new call.
no_dialog(d, m) ==
    IF m.method = "INVITE"
    THEN [Trying(d, m) EXCEPT !.misplaced = TRUE]
    ELSE Put(d, Response(m.method, m.cseq, 481))

dispatch_request_always(s, d, m) ==
    IF d.state = "TERMINATED" THEN no_dialog(d, m)
    ELSE process_request_event(s, d, m)

dispatch_request(s, d, m) ==
    IF d.state = "TERMINATED" THEN no_dialog(d, m)
    ELSE IF belle_sip_dialog_request_pending(d) /\ m.method # "BYE"
         THEN respond(s, Trying(d, m), m, 491)
         ELSE process_request_event(s, d, m)

ReceiveRequest(s) == \E m \in Deliverable(s) :
    /\ IsRequest(m) /\ m.method # "ACK"
    /\ Run(s, Without(s, m), dispatch_request(s, Begin(s), m))

belle_sip_dialog_handle_ack_armed(d, m) ==
    IF d.state # "TERMINATED" /\ d.needsAck /\ m.cseq = d.remoteCseq
    THEN belle_sip_dialog_process_queue([d EXCEPT !.needsAck = FALSE])
    ELSE d

belle_sip_dialog_handle_ack_stalled(d, m) ==
    IF d.state # "TERMINATED" /\ d.needsAck /\ m.cseq = d.remoteCseq
    THEN [d EXCEPT !.needsAck = FALSE, !.retrans = FALSE]
    ELSE d

belle_sip_dialog_handle_ack(d, m) ==
    IF d.state # "TERMINATED" /\ d.needsAck /\ m.cseq = d.remoteCseq
    THEN belle_sip_dialog_process_queue(
            [d EXCEPT !.needsAck = FALSE, !.retrans = FALSE])
    ELSE d

ReceiveAck(s) == \E m \in Deliverable(s) :
    /\ m.method = "ACK"
    /\ Run(s, Without(s, m), belle_sip_dialog_handle_ack(Begin(s), m))

\* on_response of the client transaction t: what is left of it, and whether
\* it passes the response on.
Progress(t, m) ==
    IF m.code < 200 THEN {[t EXCEPT !.state = "PROCEEDING"]}
    ELSE IF m.method = "INVITE" /\ m.code < 300
         THEN {[t EXCEPT !.state = "ACCEPTED"]}
         ELSE {}

notify_response(s, d, m) ==
    LET u == update_as_uac(s, d, m) IN
    IF IsRetransmission(d, m) THEN u
    ELSE belle_sip_dialog_check_ack_sent(call_process_response(u, m), m)

Notified(t, m) == t.state \in Transient \/ m.code \in 200..299

ReceiveResponse(s) == \E m \in Deliverable(s) :
    LET d == Begin(s)
        ts == {t \in d.clients : t.cseq = m.cseq /\ t.method = m.method
                                    /\ Notified(t, m)}
    IN  /\ ~IsRequest(m)
        /\ Run(s, Without(s, m),
               IF ts = {} THEN d
               ELSE LET t == CHOOSE t \in ts : TRUE IN
                    notify_response(s,
                        [d EXCEPT !.clients = (@ \ {t}) \cup Progress(t, m)], m))

\* A request or its response is lost and its transaction times out: a dialog
\* is not told.
Timeout(s) == \E t \in end[s].clients :
    /\ ~Ordered /\ t.state = "TRYING"
    /\ Run(s, net[s], [Begin(s) EXCEPT !.clients = @ \ {t}])

dialog_on_200Ok_timer(s) ==
    /\ end[s].retrans
    /\ end[s].copies < MaxCopies
    /\ Run(s, net[s], Put([Begin(s) EXCEPT !.copies = @ + 1],
                          Response("INVITE", 1, 200)))

\* 64*T1 are longer than what TCP takes to bring the 200 and its ACK.
dialog_on_200Ok_end(s) ==
    /\ end[s].retrans /\ ~Ordered
    /\ Run(s, net[s], send_request([Begin(s) EXCEPT !.retrans = FALSE,
                                        !.state = "CONFIRMED"], "BYE"))

\* The user takes the call, or the application the re-INVITE it deferred.
sal_call_accept(s) ==
    /\ end[s].offered # 0 /\ end[s].op = "ALIVE"
    /\ LET m == Request("INVITE", end[s].offered) IN
       Run(s, net[s], respond(s, [Begin(s) EXCEPT !.offered = 0], m, 200))

\* The user refuses the call: sal_call_terminate on an incoming early dialog.
sal_call_decline(s) ==
    /\ end[s].offered # 0 /\ end[s].op = "ALIVE" /\ end[s].state = "EARLY"
    /\ LET m == Request("INVITE", end[s].offered) IN
       Run(s, net[s], [respond(s, [Begin(s) EXCEPT !.offered = 0], m, 603)
                          EXCEPT !.op = "TERMINATED"])

\* The application updates the call and sends digits while it runs.
sal_call_update(s) ==
    /\ s \in Updaters
    /\ end[s].op = "ALIVE" /\ end[s].state = "CONFIRMED"
    /\ ~\E t \in end[s].clients : t.cseq = end[s].last /\ t.state \in Transient
    /\ s \in Patient => ~\E t \in end[s].clients :
                            t.method = "INVITE" /\ t.state \in Transient
    /\ end[s].asked < MaxRequests
    /\ Run(s, net[s], send_request([Begin(s) EXCEPT !.asked = @ + 1], "INVITE"))

sal_call_send_dtmf(s) ==
    /\ s \in InfoSenders
    /\ end[s].op = "ALIVE" /\ end[s].state # "EARLY"
    /\ end[s].queued < MaxQueued /\ end[s].asked < MaxRequests
    /\ Run(s, net[s], send_queued_request([Begin(s) EXCEPT !.asked = @ + 1]))

sal_call_terminate_deletes(s) ==
    /\ s \in Leavers
    /\ end[s].op = "ALIVE" /\ end[s].state = "CONFIRMED"
    /\ Run(s, net[s], [belle_sip_dialog_delete(send_request(Begin(s), "BYE"))
                          EXCEPT !.op = "TERMINATING"])

sal_call_terminate(s) ==
    /\ s \in Leavers
    /\ end[s].op = "ALIVE" /\ end[s].state = "CONFIRMED"
    /\ Run(s, net[s], [send_request(Begin(s), "BYE") EXCEPT !.op = "TERMINATING"])

\* notify_dialog_terminated, then call_set_released_and_unref, both from the
\* main loop, later.
process_dialog_terminated(s) ==
    /\ end[s].deferred = 2
    /\ Run(s, net[s], [Begin(s) EXCEPT !.deferred = 1,
            !.op = IF @ = "ALIVE" /\ end[s].previous = "CONFIRMED"
                   THEN "TERMINATING" ELSE @])

call_set_released(s) ==
    /\ end[s].deferred = 1
    /\ Run(s, net[s], [Begin(s) EXCEPT !.deferred = 0, !.op = "TERMINATED"])
-----------------------------------------------------------------------------

Next == \E s \in Side :
    \/ ReceiveRequest(s) \/ ReceiveAck(s) \/ ReceiveResponse(s)
    \/ Timeout(s)
    \/ dialog_on_200Ok_timer(s) \/ dialog_on_200Ok_end(s)
    \/ sal_call_accept(s) \/ sal_call_decline(s)
    \/ sal_call_update(s) \/ sal_call_send_dtmf(s) \/ sal_call_terminate(s)
    \/ process_dialog_terminated(s) \/ call_set_released(s)

Spec == Init /\ [][Next]_vars

\* The main loop reads its sockets and runs what was put off; the peers'
\* applications answer what they are offered.
Fairness == \A s \in Side :
    /\ WF_vars(Ordered /\ (ReceiveRequest(s) \/ ReceiveAck(s)
                            \/ ReceiveResponse(s)))
    /\ WF_vars(Timeout(s) \/ dialog_on_200Ok_end(s))
    /\ WF_vars(sal_call_accept(s))
    /\ WF_vars(process_dialog_terminated(s) \/ call_set_released(s))

FairSpec == Spec /\ Fairness

-----------------------------------------------------------------------------
(* Properties.                                                             *)

\* Only a confirmed dialog waits for an ACK or retransmits a 200 Ok, whose
\* timers would otherwise run on a dialog that the provider has forgotten; and
\* over TCP the ACK that stops them is one that belle_sip_dialog_handle_ack
\* will take, so that the call lasts past 64*T1.
TimersWaitForAck == \A s \in Side :
    /\ end[s].needsAck => end[s].state = "CONFIRMED"
    /\ end[s].retrans  => /\ end[s].state = "CONFIRMED"
                          /\ Ordered => end[s].needsAck /\ end[s].remoteCseq = 1

\* A 2xx to an INVITE of ours is acknowledged before the callback that brings
\* it returns, or the dialog is being ended by a BYE
\* (belle_sip_dialog_check_ack_sent).
AckedOrHungUp == \A s \in Side :
    end[s].outInvite # end[s].outAck => end[s].byeSent

\* Over TCP, users that let a re-INVITE end before they ask for another, that
\* answer one at once and that send no INFO, and no second copy of a 200 Ok:
\* more than that and the three properties below fail (see the README).
Disciplined ==
    Ordered /\ Patient = Side /\ Deferrers \cup InfoSenders = {} /\ MaxCopies = 0

\* An INVITE of this dialog is not taken for the first of a new call by an
\* end that has deleted the dialog.
NoPhantomCall == Disciplined => \A s \in Side : ~end[s].misplaced

\* The stack does not hang up a call behind its user: as long as nobody hung
\* up, every 2xx has its ACK and no BYE was sent.
CallIsNotDropped == Disciplined => \A s \in Side :
    end[s].op = "ALIVE" /\ end[s].state = "CONFIRMED"
        => end[s].outInvite = end[s].outAck /\ ~end[s].byeSent

\* Two re-INVITEs that cross are not both accepted: the offers of one would
\* be answered by what the other changes.
NoCrossedOffers == Disciplined => ~\A s \in Side : \E m \in UnderWay(s) :
    m.method = "INVITE" /\ m.code = 200 /\ (s = "A" => m.cseq > 1)

\* A user who hangs up a call that is not over for the operation finds a
\* dialog in a state sal_call_terminate knows.
HangUpIsHandled == \A s \in Side :
    end[s].op = "ALIVE" => end[s].state # "TERMINATED"

\* When one end has deleted its dialog the calls of both ends are released.
EndsTogether == \A s, p \in Side :
    end[s].state = "TERMINATED" ~> end[p].op = "TERMINATED"

\* What is queued is sent, or dropped with its dialog.
QueueDrains == \A s \in Side : end[s].queued > 0 ~> end[s].queued = 0
=============================================================================
