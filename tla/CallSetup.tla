----------------------------- MODULE CallSetup -----------------------------
(***************************************************************************)
(* A call from its INVITE to its establishment, refusal or cancellation:   *)
(* the call operation of sal_op_call.c at the caller "A" and the callee    *)
(* "B", with what sal_impl.c, provider.c, transaction.c and dialog.c do    *)
(* around it until the call is accepted, and the BYE that ends a call its  *)
(* user gave up too late for a CANCEL.  Dialog has what happens in a call. *)
(*                                                                         *)
(* As in Dialog an action is one callback of an end's main loop or one     *)
(* call of its application, applied to the record of the end; a message    *)
(* stands for all its repetitions, which InviteTransaction and             *)
(* NonInviteTransaction show to be received once; over UDP one that is     *)
(* never received is lost.                                                 *)
(***************************************************************************)
EXTENDS Naturals, Sequences, SequencesExt

CONSTANT Transports    \* the transports to look at: TRUE is TCP, FALSE is UDP

Side == {"A", "B"}

\* Bound of the model, not reached: BYEs an end can come to send.
MaxByes == 4

ASSUME TransportsAssumption == Transports \subseteq BOOLEAN

VARIABLES
    end,        \* what each end keeps: a record, see End
    net,        \* the messages under way to each end
    broken,     \* the connection was lost
    ordered     \* one TCP connection, or UDP: a constant of the behaviour

vars == <<end, net, broken, ordered>>

Peer(s) == CHOOSE p \in Side : p # s

Request(method, id) == [method |-> method, id |-> id, code |-> 0]
Response(method, id, code) == [method |-> method, id |-> id, code |-> code]

Message == [method : {"INVITE", "CANCEL", "ACK", "BYE"}, id : 0..MaxByes,
            code : {0, 100, 180, 200, 481, 486, 487, 500, 501, 603}]

Events == {"received", "ringing", "accepted", "failed", "terminated", "released"}

End ==
    [invite   : {"NONE", "INIT", "CALLING", "PROCEEDING", "ACCEPTED",
                 "COMPLETED", "TERMINATED"},  \* client (A) or server (B)
     cancel   : {"NONE", "TRYING", "OVER"},   \* client transaction
     byes     : SUBSET [id : 1..MaxByes, internal : BOOLEAN],  \* unanswered
     sent     : 0..MaxByes,                   \* BYEs so far
     pending  : {"INVITE", "CANCEL", "BYE"},  \* pending_client_trans
     dialog   : {"NONE", "NULL", "EARLY", "CONFIRMED", "TERMINATED"},
     previous : {"NULL", "EARLY", "CONFIRMED"},
     owned    : BOOLEAN,    \* the dialog is the operation's
     needsAck : BOOLEAN,
     retrans  : BOOLEAN,    \* the timers of the 200 Ok are armed
     deferred : 0..2,       \* callbacks of a deleted dialog to come
     op       : {"NONE", "Early", "Active", "Terminating", "Terminated"},
     heard    : SUBSET Events,    \* callbacks the application was given
     hungUp   : BOOLEAN,    \* the user hung up, cancelled or declined
     late     : BOOLEAN]    \* a callback came after call_released

TypeOK ==
    /\ end \in [Side -> End]
    /\ net \in [Side -> IF ordered THEN Seq(Message) ELSE SUBSET Message]
    /\ broken \in BOOLEAN /\ ordered \in Transports

NewEnd ==
    [invite |-> "NONE", cancel |-> "NONE", byes |-> {}, sent |-> 0,
     pending |-> "INVITE", dialog |-> "NONE", previous |-> "NULL",
     owned |-> FALSE, needsAck |-> FALSE, retrans |-> FALSE, deferred |-> 0,
     op |-> "NONE", heard |-> {}, hungUp |-> FALSE, late |-> FALSE]

\* The caller's INVITE waits for its channel.
Init ==
    /\ end = [s \in Side |-> IF s = "A"
                             THEN [NewEnd EXCEPT !.invite = "INIT", !.op = "Early"]
                             ELSE NewEnd]
    /\ ordered \in Transports
    /\ net = [s \in Side |-> IF ordered THEN <<>> ELSE {}]
    /\ broken = FALSE

-----------------------------------------------------------------------------
(* The network.                                                            *)

\* A message that the end d would not just drop.  Over UDP the others are
\* forgotten: they are received as well as lost.
Awaited(d, m) ==
    CASE m.method = "ACK"                      -> d.dialog = "CONFIRMED" /\ d.needsAck
      [] m.method = "INVITE" /\ m.code # 0     -> d.invite \in {"CALLING", "PROCEEDING"}
      [] m.method = "CANCEL" /\ m.code # 0     -> d.cancel = "TRYING"
      [] m.method = "BYE" /\ m.code # 0        -> \E t \in d.byes : t.id = m.id
      [] OTHER                                 -> TRUE

UnderWay(s) == IF ordered THEN ToSet(net[s]) ELSE net[s]

Deliverable(s) == IF ~ordered THEN net[s]
                  ELSE IF net[s] = <<>> THEN {} ELSE {Head(net[s])}

Without(s, m) == IF ordered THEN Tail(net[s]) ELSE net[s] \ {m}

\* Side s runs to its end a callback that leaves it the record d; d.out is
\* what was sent, inbox what is left of its own queue.
Run(s, inbox, d) == \E r \in {d} :
    /\ end' = [end EXCEPT ![s] = [f \in DOMAIN @ |-> r[f]]]
    /\ net' = LET to == [net EXCEPT ![s] = inbox]
              IN  IF ordered THEN [to EXCEPT ![Peer(s)] = @ \o r.out]
                  ELSE [t \in Side |-> {m \in to[t] \cup IF t = s THEN {} ELSE ToSet(r.out) :
                                          Awaited(end'[t], m)}]

Begin(s) == [f \in DOMAIN end[s] \cup {"out"} |->
                IF f = "out" THEN <<>> ELSE end[s][f]]

Put(d, m) == [d EXCEPT !.out = Append(@, m)]

\* A callback of the application (SalCallbacks).
Tell(d, e) == [d EXCEPT !.heard = @ \cup {e},
                        !.late = @ \/ "released" \in d.heard]

-----------------------------------------------------------------------------
(* The dialog and the transactions.                                        *)

send_bye(d, internal) ==
    Put([d EXCEPT !.sent = @ + 1,
                  !.byes = @ \cup {[id |-> d.sent + 1, internal |-> internal]}],
        Request("BYE", d.sent + 1))

belle_sip_dialog_delete(d) ==
    [d EXCEPT !.dialog = "TERMINATED", !.previous = d.dialog,
              !.retrans = FALSE, !.deferred = 2]

\* Mutant: a refusal does not end the dialog of the end that sends it.
belle_sip_dialog_establish_refused(d, code) ==
    CASE code \in 101..199 -> [d EXCEPT !.dialog = "EARLY"]
      [] code \in 200..299 -> [d EXCEPT !.dialog = "CONFIRMED", !.needsAck = TRUE]
      [] OTHER -> d

\* belle_sip_dialog_update with a response to the INVITE, of a dialog that is
\* not confirmed.
belle_sip_dialog_establish(d, code) ==
    CASE code = 100      -> d
      [] code \in 101..199 -> [d EXCEPT !.dialog = "EARLY"]
      [] code \in 200..299 -> [d EXCEPT !.dialog = "CONFIRMED", !.needsAck = TRUE]
      [] code >= 300     -> belle_sip_dialog_delete(d)

\* belle_sip_dialog_update with the final response to a BYE.
ByeAnswered(d) ==
    IF d.dialog = "CONFIRMED"
    THEN belle_sip_dialog_delete([d EXCEPT !.needsAck = FALSE])
    ELSE d

\* What the callee's server transaction does with the response to an INVITE.
respond(d, code) ==
    LET e == belle_sip_dialog_establish(Put(d, Response("INVITE", 0, code)), code)
    IN  [e EXCEPT !.invite = IF code < 200 THEN "PROCEEDING"
                             ELSE IF code < 300 THEN "ACCEPTED" ELSE "COMPLETED",
                  !.retrans = code \in 200..299]

belle_sip_dialog_check_ack_sent(d) == IF d.needsAck THEN send_bye(d, TRUE) ELSE d

-----------------------------------------------------------------------------
(* The call operation.                                                     *)

call_set_released(d) ==
    [d EXCEPT !.op = "Terminated", !.heard = @ \cup {"released"}]

ReleasedUnlessDialog(d) == IF d.owned THEN d ELSE call_set_released(d)

\* A CANCEL is made for an INVITE that has a provisional response only.
cancelling_invite(d) ==
    LET e == [d EXCEPT !.op = "Terminating"] IN
    IF d.invite = "PROCEEDING"
    THEN Put([e EXCEPT !.pending = "CANCEL", !.cancel = "TRYING"],
             Request("CANCEL", 0))
    ELSE e

\* Response to the INVITE while the operation knows no confirmed dialog.
early_response(d, code) ==
    CASE d.op = "Terminating" /\ d.pending # "CANCEL" /\ code < 200 ->
            cancelling_invite(d)
      [] d.op = "Terminating" /\ code >= 300 -> ReleasedUnlessDialog(d)
      [] d.op # "Terminating" /\ code \in 180..299 -> Tell(d, "ringing")
      [] d.op # "Terminating" /\ code >= 300 ->
            ReleasedUnlessDialog(Tell(d, "failed"))
      [] OTHER -> d

\* Mutant: a 2xx is accepted whatever the user did meanwhile.
confirmed_response_accepts(d, m) ==
    CASE m.method = "INVITE" /\ m.code = 200 ->
            [Tell(Put(d, Request("ACK", 0)), "accepted")
                EXCEPT !.op = "Active", !.needsAck = FALSE]
      [] d.op = "Terminating" /\ m.method # "INVITE" ->
            [send_bye(d, FALSE) EXCEPT !.pending = "BYE"]
      [] OTHER -> d

\* A 2xx the user no longer wants, and whatever comes next, is met by a BYE.
confirmed_response(d, m) ==
    CASE d.op = "Terminating" -> [send_bye(d, FALSE) EXCEPT !.pending = "BYE"]
      [] d.op \in {"Early", "Active"} /\ m.method = "INVITE" /\ m.code = 200 ->
            [Tell(Put(d, Request("ACK", 0)), "accepted")
                EXCEPT !.op = "Active", !.needsAck = FALSE]
      [] OTHER -> d

\* Mutant: responses also reach an operation that is over.
call_process_response_always(d, m) ==
    CASE ~d.owned /\ m.method = "INVITE" -> early_response(d, m.code)
      [] d.owned /\ d.dialog = "EARLY" /\ m.method = "INVITE" ->
            early_response(d, m.code)
      [] d.owned /\ d.dialog = "CONFIRMED" -> confirmed_response(d, m)
      [] d.owned /\ d.dialog = "TERMINATED" /\ m.code >= 300 -> Tell(d, "failed")
      [] OTHER -> d

\* Mutant: a refusal that has just ended the dialog is not passed on.
call_process_response_while_dialog(d, m) ==
    IF d.op = "Terminated" THEN d
    ELSE CASE ~d.owned /\ m.method = "INVITE" -> early_response(d, m.code)
           [] d.owned /\ d.dialog = "EARLY" /\ m.method = "INVITE" ->
                 early_response(d, m.code)
           [] d.owned /\ d.dialog = "CONFIRMED" -> confirmed_response(d, m)
           [] OTHER -> d

\* process_response_event of sal_impl.c, which drops what comes for an
\* operation that is over, and call_process_response.
call_process_response(d, m) ==
    IF d.op = "Terminated" THEN d
    ELSE CASE ~d.owned /\ m.method = "INVITE" -> early_response(d, m.code)
           [] d.owned /\ d.dialog = "EARLY" /\ m.method = "INVITE" ->
                 early_response(d, m.code)
           [] d.owned /\ d.dialog = "CONFIRMED" -> confirmed_response(d, m)
           [] d.owned /\ d.dialog = "TERMINATED" /\ m.code >= 300 -> Tell(d, "failed")
           [] OTHER -> d

\* call_process_timeout and call_process_io_error.
call_process_failure(d) ==
    CASE d.op = "Terminated" -> d
      [] d.op # "Terminated" /\ d.owned -> d
      [] d.op # "Terminated" /\ ~d.owned -> call_set_released(Tell(d, "failed"))

-----------------------------------------------------------------------------
(* The caller.                                                             *)

\* sal_call's INVITE leaves once its channel is ready, hung up or not.
ChannelReady ==
    /\ end["A"].invite = "INIT"
    /\ Run("A", net["A"],
           Put([Begin("A") EXCEPT !.invite = "CALLING"], Request("INVITE", 0)))
    /\ UNCHANGED <<broken, ordered>>

\* belle_sip_client_transaction_notify_response for the INVITE: a dialog is
\* made, updated, the operation told, and a 2xx left without ACK hung up.
notify_invite_response(d, m) ==
    LET made == [d EXCEPT !.owned = @ \/ d.op # "Terminated"]
        u == IF d.dialog = "NONE" /\ m.code \notin 180..299 THEN d
             ELSE belle_sip_dialog_establish(made, m.code)
    IN  belle_sip_dialog_check_ack_sent(call_process_response(u, m))

Progress(code) == IF code < 200 THEN "PROCEEDING"
                  ELSE IF code < 300 THEN "ACCEPTED" ELSE "COMPLETED"

ReceiveInviteResponse == \E m \in Deliverable("A") : LET d == Begin("A") IN
    /\ m.method = "INVITE"
    /\ Run("A", Without("A", m),
           IF d.invite \in {"CALLING", "PROCEEDING"}
           THEN notify_invite_response([d EXCEPT !.invite = Progress(m.code)], m)
           ELSE d)
    /\ UNCHANGED <<broken, ordered>>

\* The CANCEL's transaction has no dialog.
ReceiveCancelResponse == \E m \in Deliverable("A") : LET d == Begin("A") IN
    /\ m.method = "CANCEL" /\ m.code # 0
    /\ Run("A", Without("A", m),
           IF d.cancel = "TRYING"
           THEN call_process_response([d EXCEPT !.cancel = "OVER"], m)
           ELSE d)
    /\ UNCHANGED <<broken, ordered>>

-----------------------------------------------------------------------------
(* The callee.                                                             *)

\* ist_new, then the operation, its dialog and the application, which is
\* busy, rings, answers at once or puts ringing off until it knows its own
\* candidate addresses (ICE).
ReceiveInvite == \E m \in Deliverable("B") :
    LET d == Put([Begin("B") EXCEPT !.invite = "PROCEEDING", !.op = "Early",
                                    !.dialog = "NULL", !.owned = TRUE],
                 Response("INVITE", 0, 100))
    IN  /\ m.method = "INVITE"
        /\ \/ Run("B", Without("B", m), Tell(d, "received"))
           \/ \E code \in {180, 200} :
                Run("B", Without("B", m), respond(Tell(d, "received"), code))
           \/ Run("B", Without("B", m),
                  [respond(d, 486) EXCEPT !.op = "Terminated"])
        /\ UNCHANGED <<broken, ordered>>

\* The application's call is not over: LinphoneCallIncomingReceived or before.
Answerable == end["B"].invite = "PROCEEDING" /\ "received" \in end["B"].heard

sal_call_notify_ringing ==
    /\ Answerable /\ end["B"].dialog = "NULL"
    /\ Run("B", net["B"], respond(Begin("B"), 180))
    /\ UNCHANGED <<broken, ordered>>

sal_call_accept ==
    /\ Answerable /\ end["B"].dialog = "EARLY"
    /\ Run("B", net["B"], respond(Begin("B"), 200))
    /\ UNCHANGED <<broken, ordered>>

\* linphone_core_decline_call leaves the operation to the end of its dialog.
sal_call_decline ==
    /\ Answerable /\ end["B"].dialog = "EARLY"
    /\ Run("B", net["B"], [respond(Begin("B"), 603) EXCEPT !.hungUp = TRUE])
    /\ UNCHANGED <<broken, ordered>>

\* Mutant: the state of the dialog is not looked at.
cancel_request_always(d) ==
    respond(Tell(Put(d, Response("CANCEL", 0, 200)), "terminated"), 487)

\* A CANCEL goes by the dialog of the INVITE's server transaction: one that
\* comes for a call that was refused has no answer.
cancel_request(d) ==
    CASE d.op = "Terminated" -> d
      [] d.op # "Terminated" /\ d.dialog \in {"NULL", "EARLY"} ->
            respond(Tell(Put(d, Response("CANCEL", 0, 200)), "terminated"), 487)
      [] d.op # "Terminated" /\ d.dialog = "CONFIRMED" ->
            Put(d, Response("CANCEL", 0, 500))
      [] OTHER -> d

\* Over UDP it may also outlive that transaction.
ReceiveCancel == \E m \in Deliverable("B") : LET d == Begin("B") IN
    /\ m.method = "CANCEL"
    /\ \/ Run("B", Without("B", m), cancel_request(d))
       \/ /\ ~ordered /\ d.invite # "PROCEEDING"
          /\ Run("B", Without("B", m), Put(d, Response("CANCEL", 0, 501)))
    /\ UNCHANGED <<broken, ordered>>

ReceiveAck == \E m \in Deliverable("B") : LET d == Begin("B") IN
    /\ m.method = "ACK"
    /\ Run("B", Without("B", m),
           IF d.dialog = "CONFIRMED" /\ d.needsAck
           THEN [d EXCEPT !.needsAck = FALSE, !.retrans = FALSE]
           ELSE d)
    /\ UNCHANGED <<broken, ordered>>

\* No ACK for 64*T1.
dialog_on_200Ok_end ==
    /\ end["B"].retrans
    /\ ~ordered \/ broken
    /\ Run("B", net["B"], send_bye([Begin("B") EXCEPT !.retrans = FALSE], TRUE))
    /\ UNCHANGED <<broken, ordered>>

-----------------------------------------------------------------------------
(* Both.                                                                   *)

bye_request(d, m) ==
    CASE d.dialog \in {"NONE", "NULL", "TERMINATED"} ->
            Put(d, Response("BYE", m.id, 481))
      [] d.dialog = "EARLY" /\ d.op # "Terminated" ->
            Put(d, Response("BYE", m.id, 500))
      [] d.dialog = "CONFIRMED" /\ d.op # "Terminated" ->
            [Tell(ByeAnswered(Put(d, Response("BYE", m.id, 200))), "terminated")
                EXCEPT !.op = "Terminating"]
      [] OTHER -> d

ReceiveBye(s) == \E m \in Deliverable(s) :
    /\ m.method = "BYE" /\ m.code = 0
    /\ Run(s, Without(s, m), bye_request(Begin(s), m))
    /\ UNCHANGED <<broken, ordered>>

\* An answer to a BYE of belle-sip's own is not shown to the operation.
ReceiveByeResponse(s) == \E m \in Deliverable(s) : LET d == Begin(s) IN
    /\ m.method = "BYE" /\ m.code # 0
    /\ Run(s, Without(s, m),
           IF \E t \in d.byes : t.id = m.id
           THEN LET t == CHOOSE t \in d.byes : t.id = m.id
                    u == ByeAnswered([d EXCEPT !.byes = @ \ {t}])
                IN  IF t.internal THEN u ELSE call_process_response(u, m)
           ELSE d)
    /\ UNCHANGED <<broken, ordered>>

\* Mutant: a hang-up that is too early for a CANCEL is forgotten.
sal_call_terminate_forgets(d) ==
    CASE d.dialog = "CONFIRMED" ->
            [send_bye(d, FALSE) EXCEPT !.op = "Terminating", !.pending = "BYE"]
      [] d.dialog = "EARLY" \/ (d.dialog # "CONFIRMED" /\ d.invite = "PROCEEDING") ->
            cancelling_invite(d)
      [] OTHER -> d

\* A CANCEL must wait for a provisional response: the state will tell.
sal_call_terminate(d) ==
    CASE d.dialog = "CONFIRMED" ->
            [send_bye(d, FALSE) EXCEPT !.op = "Terminating", !.pending = "BYE"]
      [] d.dialog = "EARLY" \/ (d.dialog # "CONFIRMED" /\ d.invite = "PROCEEDING") ->
            cancelling_invite(d)
      [] OTHER -> [d EXCEPT !.op = "Terminating"]

\* The user hangs up a call that is not over for the application: the caller
\* at any time, the callee once it accepted.  With a dialog just deleted the
\* code aborts (see Dialog).
HangUp(s) ==
    /\ end[s].op \in {"Early", "Active"} /\ ~end[s].hungUp
    /\ end[s].heard \cap {"terminated", "released"} = {}
    /\ end[s].dialog # "TERMINATED"
    /\ s = "B" => end[s].dialog = "CONFIRMED"
    /\ Run(s, net[s], [sal_call_terminate(Begin(s)) EXCEPT !.hungUp = TRUE])
    /\ UNCHANGED <<broken, ordered>>

\* notify_dialog_terminated and process_dialog_terminated, then
\* call_set_released_and_unref, both from the main loop, later.
process_dialog_terminated(s) == LET d == Begin(s) IN
    /\ d.deferred = 2
    /\ Run(s, net[s],
           CASE ~d.owned -> [d EXCEPT !.deferred = 0]
             [] d.owned /\ d.previous = "CONFIRMED"
                    /\ d.op \notin {"Terminating", "Terminated"} ->
                    [Tell(d, "terminated") EXCEPT !.deferred = 1,
                                                  !.op = "Terminating"]
             [] OTHER -> [d EXCEPT !.deferred = 1])
    /\ UNCHANGED <<broken, ordered>>

call_set_released_and_unref(s) ==
    /\ end[s].deferred = 1
    /\ Run(s, net[s], [call_set_released(Begin(s)) EXCEPT !.deferred = 0])
    /\ UNCHANGED <<broken, ordered>>

-----------------------------------------------------------------------------
(* Failures.                                                               *)

InviteTimeout ==
    /\ ~ordered /\ end["A"].invite = "CALLING"
    /\ Run("A", net["A"],
           call_process_failure([Begin("A") EXCEPT !.invite = "TERMINATED"]))
    /\ UNCHANGED <<broken, ordered>>

\* Over TCP a request times out if it was received and has no answer.
Unanswered(s, method, id) ==
    ~\E t \in Side : \E m \in UnderWay(t) : m.method = method /\ m.id = id
                        /\ (m.code = 0 <=> t # s)

CancelTimeout ==
    /\ end["A"].cancel = "TRYING"
    /\ ~ordered \/ Unanswered("A", "CANCEL", 0)
    /\ Run("A", net["A"],
           call_process_failure([Begin("A") EXCEPT !.cancel = "OVER"]))
    /\ UNCHANGED <<broken, ordered>>

ByeTimeout(s) == \E t \in end[s].byes : LET d == Begin(s) IN
    /\ ~ordered \/ Unanswered(s, "BYE", t.id)
    /\ Run(s, net[s], IF t.internal THEN [d EXCEPT !.byes = @ \ {t}]
                      ELSE call_process_failure([d EXCEPT !.byes = @ \ {t}]))
    /\ UNCHANGED <<broken, ordered>>

\* The connection closes for s, or is never made: its client transactions
\* are told and terminated.  What it sends later opens another one.
ConnectionLost(s) == LET d == Begin(s) IN
    /\ ordered /\ ~broken
    /\ s = "B" => d.invite # "NONE"
    /\ LET over == [d EXCEPT
                !.invite = IF s = "A" THEN "TERMINATED" ELSE @,
                !.cancel = IF @ = "TRYING" THEN "OVER" ELSE @,
                !.byes = {}]
           told == \/ s = "A" /\ d.invite \in {"INIT", "CALLING", "PROCEEDING"}
                   \/ d.cancel = "TRYING"
                   \/ \E t \in d.byes : ~t.internal
       IN  Run(s, <<>>, IF told THEN call_process_failure(over) ELSE over)
    /\ broken' = TRUE /\ UNCHANGED ordered

-----------------------------------------------------------------------------
Next ==
    \/ ChannelReady \/ ReceiveInviteResponse \/ ReceiveCancelResponse
    \/ ReceiveInvite \/ sal_call_notify_ringing
    \/ sal_call_accept \/ sal_call_decline
    \/ ReceiveCancel \/ ReceiveAck \/ dialog_on_200Ok_end
    \/ InviteTimeout \/ CancelTimeout
    \/ \E s \in Side :
        \/ ReceiveBye(s) \/ ReceiveByeResponse(s) \/ HangUp(s)
        \/ process_dialog_terminated(s) \/ call_set_released_and_unref(s)
        \/ ByeTimeout(s) \/ ConnectionLost(s)

Spec == Init /\ [][Next]_vars

(* The main loop of each end reads its connection, runs what was put off   *)
(* and lets requests time out; no user has to answer or to hang up.        *)
Fairness ==
    /\ WF_vars(ordered /\ ChannelReady)
    /\ WF_vars(ordered /\ (ReceiveInviteResponse \/ ReceiveCancelResponse
                    \/ ReceiveBye("A") \/ ReceiveByeResponse("A")))
    /\ WF_vars(ordered /\ (ReceiveInvite \/ ReceiveCancel \/ ReceiveAck
                    \/ ReceiveBye("B") \/ ReceiveByeResponse("B")))
    /\ \A s \in Side :
        WF_vars(ordered /\ (process_dialog_terminated(s)
                                \/ call_set_released_and_unref(s)))

FairSpec == Spec /\ Fairness

-----------------------------------------------------------------------------
(* Properties.                                                             *)

\* After call_released the application is not called for the operation: the
\* LinphoneCall it would be about is freed, and call_failure uses it unasked.
SilentOnceReleased == \A s \in Side : ~end[s].late

\* A call its user hung up is not connected by a 2xx that was under way.
HangUpIsFinal == [][\A s \in Side : end[s].hungUp =>
    /\ end'[s].op # "Active"
    /\ "accepted" \in end'[s].heard => "accepted" \in end[s].heard]_vars

Sound == ordered /\ ~broken

\* While the connection lasts, a call its user hung up, or that is over at one
\* side, ends and is released at both, whether no response, a provisional
\* one, a refusal or a 2xx comes first or crosses the CANCEL.
EndsTogether == \A s \in Side :
    end[s].hungUp \/ end[s].op = "Terminated"
        ~> (\A t \in Side : end[t].op = "Terminated") \/ ~Sound

\* While the connection lasts, the callee's verdict is heard by a caller that
\* does not hang up.
VerdictIsHeard ==
    /\ end["B"].invite = "ACCEPTED"
            ~> "accepted" \in end["A"].heard \/ end["A"].hungUp \/ ~Sound
    /\ end["B"].invite = "COMPLETED"
            ~> "failed" \in end["A"].heard \/ end["A"].hungUp \/ ~Sound

\* The two together: the ends come to agree on what became of the call.
EndsAgree == EndsTogether /\ VerdictIsHeard
=============================================================================
