----------------------- MODULE InviteTransactionProofs -----------------------
(* Theorems about InviteTransaction, for every set of codes, every bound   *)
(* and both kinds of transport.                                            *)
EXTENDS InviteTransaction, FiniteSetTheorems, TLAPS

-----------------------------------------------------------------------------
(* The kinds of codes are disjoint, and none is a report of the stack.     *)
LEMMA CodeFacts ==
    /\ Success \cap Failure = {}
    /\ \A code \in Final : code >= 200 /\ ~(code < 200) /\ code \in Nat
    /\ \A code \in Final : code \notin GaveUp /\ code # NotHeard
    /\ \A code \in Provisional : code < 200 /\ code \notin Final
    /\ 100 \notin Final
    /\ NotHeard \notin GaveUp
<1>1. \A code \in Success : code < 300
  BY CodesAssumption
<1>2. \A code \in Failure : ~(code < 300)
  BY CodesAssumption
<1>3. Success \cap Failure = {}
  BY <1>1, <1>2
<1>4. \A code \in Final : code >= 200 /\ ~(code < 200) /\ code \in Nat
  BY CodesAssumption DEF Final
<1>5. \A code \in Provisional : code < 200
  BY CodesAssumption
<1>6. 100 \notin Final
  BY <1>4
<1>7. \A code \in Provisional : code \notin Final
  BY <1>4, <1>5
<1>8. \A code \in Final : code \notin GaveUp /\ code # NotHeard
  BY <1>4 DEF GaveUp, NotHeard, TimedOut, IoError, NotSent
<1>9. NotHeard \notin GaveUp
  BY DEF GaveUp, NotHeard, TimedOut, IoError, NotSent
<1> QED BY <1>3, <1>4, <1>5, <1>6, <1>7, <1>8, <1>9

\* TypeOK of the caller's variables, of the callee's and of the network's.
ClientTypeOK ==
    /\ chan \in ChannelStates
    /\ registered \in BOOLEAN
    /\ ict \in IctStates
    /\ ictTimers \in SUBSET {"A", "B", "D", "M"}
    /\ outcome \in {NotHeard} \cup GaveUp \cup Final

ServerTypeOK ==
    /\ ist \in IstStates
    /\ istTimers \in SUBSET {"G", "H", "I", "L"}
    /\ lastResponse \in {0} \cup Responses
    /\ offers \in Nat
    /\ given \in SUBSET Final

NetTypeOK ==
    /\ c2s \in SUBSET {"INVITE", "ACK"}
    /\ s2c \in SUBSET Responses

\* TypeOK is the conjunction of the types of the client, the server and the net.
LEMMA TypeParts == TypeOK <=> ClientTypeOK /\ ServerTypeOK /\ NetTypeOK
BY DEF TypeOK, ClientTypeOK, ServerTypeOK, NetTypeOK

\* What G and a repeated INVITE send again is a response: ist_new has sent
\* its 100 before anything can be repeated.
HasResponse ==
    ist \in {"PROCEEDING", "COMPLETED"} => lastResponse \in Responses

\* The steps that change the caller's variables, and the callee's.
ClientStep ==
    \/ SendRequest \/ ChannelReady \/ ChannelDown
    \/ \E code \in Responses : ReceiveResponse(code)
    \/ ict_on_timer_B \/ ict_on_timer_D \/ ict_on_timer_M

ServerStep ==
    \/ \E code \in Responses : Respond(code)
    \/ ReceiveInvite \/ ReceiveAck
    \/ ist_on_timer_H \/ ist_on_timer_I \/ ist_on_timer_L

\* A step is one of the client or of the server, and leaves the other alone.
LEMMA OneSideSteps ==
    ASSUME [Next]_vars
    PROVE  /\ ClientStep \/ UNCHANGED client
           /\ ServerStep \/ UNCHANGED server
<1> USE DEF ClientStep, ServerStep, server
<1>1. CASE ClientStep
  BY <1>1 DEF SendRequest, SendRequestNoChannel, SendRequestWaiting,
              SendRequestReady, ChannelReady, ChannelDown, ReceiveResponse,
              ict_on_timer_B, ict_on_timer_D, ict_on_timer_M
<1>2. CASE ServerStep
  BY <1>2 DEF Respond, ReceiveInvite, ReceiveAck,
              ist_on_timer_H, ist_on_timer_I, ist_on_timer_L
<1>3. CASE ict_on_timer_A \/ ist_on_timer_G
  BY <1>3 DEF ict_on_timer_A, ist_on_timer_G
<1>4. CASE \/ \E m \in {"INVITE", "ACK"} : LoseRequest(m)
           \/ \E code \in Responses : LoseResponse(code)
  BY <1>4 DEF LoseRequest, LoseResponse
<1>5. CASE UNCHANGED vars
  BY <1>5 DEF vars, client
<1> QED BY <1>1, <1>2, <1>3, <1>4, <1>5 DEF Next

\* Every step keeps the types of the client transaction.
LEMMA ClientTypes ==
    ASSUME ClientTypeOK, [Next]_vars PROVE ClientTypeOK'
<1> USE DEF ClientTypeOK, ChannelStates, IctStates,
            ict_send_request, ict_terminate
<1>1. CASE SendRequest
  BY <1>1 DEF SendRequest, SendRequestNoChannel, SendRequestWaiting,
              SendRequestReady, GaveUp
<1>2. CASE ChannelReady \/ ChannelDown
  BY <1>2 DEF ChannelReady, ChannelDown, GaveUp
<1>3. ASSUME NEW code \in Responses, ReceiveResponse(code) PROVE ClientTypeOK'
  <2> USE <1>3 DEF ReceiveResponse
  <2>1. CASE ict_on_response_early(code)
    BY <2>1 DEF ict_on_response_early
  <2>2. CASE ict_on_response_success(code)
    BY <2>2 DEF ict_on_response_success, Final
  <2>3. CASE ict_on_response_failure(code)
    BY <2>3 DEF ict_on_response_failure, Final
  <2>4. CASE ict_on_response_late(code)
    BY <2>4 DEF ict_on_response_late, Final
  <2> QED BY <2>1, <2>2, <2>3, <2>4
<1>4. CASE ict_on_timer_B \/ ict_on_timer_D \/ ict_on_timer_M
  BY <1>4 DEF ict_on_timer_B, ict_on_timer_D, ict_on_timer_M, GaveUp
<1>5. CASE UNCHANGED client
  BY <1>5 DEF client
<1> QED BY <1>1, <1>2, <1>3, <1>4, <1>5, OneSideSteps DEF ClientStep

\* Every step keeps the types of the server transactions.
LEMMA ServerTypes ==
    ASSUME ServerTypeOK, [Next]_vars PROVE ServerTypeOK'
<1> USE DEF ServerTypeOK, IstStates, ist_terminate
<1>1. ASSUME NEW code \in Responses, Respond(code) PROVE ServerTypeOK'
  <2>1. ist' \in IstStates
    BY <1>1 DEF Respond, ist_send_provisional, ist_send_success,
                ist_send_failure, ist_send_again
  <2>2. istTimers' \in SUBSET {"G", "H", "I", "L"}
    BY <1>1 DEF Respond, ist_send_provisional, ist_send_success,
                ist_send_failure, ist_send_again
  <2>3. /\ lastResponse' \in {0} \cup Responses
        /\ given' \in SUBSET Final
        /\ offers' \in Nat
    BY <1>1 DEF Respond, ist_send_provisional, ist_send_success,
                ist_send_failure, ist_send_again, Final
  <2> QED BY <2>1, <2>2, <2>3
<1>2. CASE ReceiveInvite
  <2>1. CASE ist_new
    BY <1>2, <2>1 DEF ReceiveInvite, ist_new, Responses
  <2>2. CASE ist_on_request_retransmission
    BY <1>2, <2>2 DEF ReceiveInvite, ist_on_request_retransmission
  <2> QED BY <1>2, <2>1, <2>2 DEF ReceiveInvite
<1>3. CASE ReceiveAck
  <2>1. ist' \in IstStates
    BY <1>3 DEF ReceiveAck, ist_process_ack
  <2>2. istTimers' \in SUBSET {"G", "H", "I", "L"}
    BY <1>3 DEF ReceiveAck, ist_process_ack
  <2> QED BY <1>3, <2>1, <2>2 DEF ReceiveAck
<1>4. CASE ist_on_timer_H \/ ist_on_timer_I \/ ist_on_timer_L
  <2>1. ist' \in IstStates
    BY <1>4 DEF ist_on_timer_H, ist_on_timer_I, ist_on_timer_L
  <2>2. istTimers' \in SUBSET {"G", "H", "I", "L"}
    BY <1>4 DEF ist_on_timer_H, ist_on_timer_I, ist_on_timer_L
  <2> QED
    BY <1>4, <2>1, <2>2 DEF ist_on_timer_H, ist_on_timer_I, ist_on_timer_L
<1>5. CASE UNCHANGED server
  BY <1>5 DEF server
<1> QED BY <1>1, <1>2, <1>3, <1>4, <1>5, OneSideSteps DEF ServerStep

\* A server transaction in a state that repeats its response has one.
LEMMA ServerHasResponse ==
    ASSUME HasResponse, [Next]_vars PROVE HasResponse'
<1> USE DEF HasResponse
<1>1. ASSUME NEW code \in Responses, Respond(code) PROVE HasResponse'
  BY <1>1 DEF Respond, ist_send_provisional, ist_send_success,
              ist_send_failure, ist_send_again
<1>2. CASE ReceiveInvite
  BY <1>2 DEF ReceiveInvite, ist_new, ist_on_request_retransmission, Responses
<1>3. CASE ReceiveAck
  BY <1>3 DEF ReceiveAck, ist_process_ack, ist_terminate
<1>4. CASE ist_on_timer_H \/ ist_on_timer_I \/ ist_on_timer_L
  BY <1>4 DEF ist_on_timer_H, ist_on_timer_I, ist_on_timer_L, ist_terminate
<1>5. CASE UNCHANGED server
  BY <1>5 DEF server
<1> QED BY <1>1, <1>2, <1>3, <1>4, <1>5, OneSideSteps DEF ServerStep

\* Every step keeps the types of the messages under way.
LEMMA NetTypes ==
    ASSUME NetTypeOK, HasResponse, [Next]_vars PROVE NetTypeOK'
<1> USE DEF NetTypeOK, AfterDelivery
<1>1. CASE SendRequest \/ ChannelReady \/ ChannelDown
  BY <1>1 DEF SendRequest, SendRequestNoChannel, SendRequestWaiting,
              SendRequestReady, ChannelReady, ChannelDown, ict_send_request
<1>2. ASSUME NEW code \in Responses, ReceiveResponse(code) PROVE NetTypeOK'
  BY <1>2 DEF ReceiveResponse, ict_on_response_early, ict_on_response_success,
              ict_on_response_failure, ict_on_response_late
<1>3. ASSUME NEW code \in Responses, Respond(code) PROVE NetTypeOK'
  BY <1>3 DEF Respond, ist_send_provisional, ist_send_success,
              ist_send_failure, ist_send_again
<1>4. CASE ReceiveInvite
  <2>1. c2s' \in SUBSET {"INVITE", "ACK"}
    BY <1>4 DEF ReceiveInvite
  <2>2. CASE ist_new
    BY <2>1, <2>2 DEF ist_new, Responses
  <2>3. CASE ist_on_request_retransmission
    BY <2>1, <2>3 DEF ist_on_request_retransmission, HasResponse
  <2> QED BY <1>4, <2>2, <2>3 DEF ReceiveInvite
<1>5. CASE ReceiveAck
  BY <1>5 DEF ReceiveAck
<1>6. CASE ict_on_timer_A \/ ict_on_timer_B \/ ict_on_timer_D \/ ict_on_timer_M
  BY <1>6 DEF ict_on_timer_A, ict_on_timer_B, ict_on_timer_D, ict_on_timer_M
<1>7. CASE ist_on_timer_G \/ ist_on_timer_H \/ ist_on_timer_I \/ ist_on_timer_L
  BY <1>7 DEF ist_on_timer_G, ist_on_timer_H, ist_on_timer_I, ist_on_timer_L,
              HasResponse
<1>8. CASE \/ \E m \in {"INVITE", "ACK"} : LoseRequest(m)
           \/ \E code \in Responses : LoseResponse(code)
  BY <1>8 DEF LoseRequest, LoseResponse
<1>9. CASE UNCHANGED vars
  BY <1>9 DEF vars
<1> QED
  BY <1>1, <1>2, <1>3, <1>4, <1>5, <1>6, <1>7, <1>8, <1>9 DEF Next

\* Every variable keeps its type, for every instance.  The type of s2c
\* rests on HasResponse: a server transaction never repeats the response
\* that it does not have yet.
TypeInv == TypeOK /\ HasResponse

\* The types, with the response that a server transaction may have to repeat,
\* are an invariant: the sends and repetitions of ict.c and ist.c keep them.
THEOREM TypeInvHolds == Spec => []TypeInv
<1>1. Init => TypeInv
  <2> SUFFICES ASSUME Init PROVE TypeInv
    OBVIOUS
  <2>1. ClientTypeOK
    BY DEF Init, ClientTypeOK, ChannelStates, IctStates
  <2>2. ServerTypeOK
    BY DEF Init, ServerTypeOK, IstStates
  <2>3. NetTypeOK /\ HasResponse
    BY DEF Init, NetTypeOK, HasResponse
  <2> QED BY <2>1, <2>2, <2>3, TypeParts DEF TypeInv
<1>2. TypeInv /\ [Next]_vars => TypeInv'
  <2> SUFFICES ASSUME TypeInv, [Next]_vars PROVE TypeInv'
    OBVIOUS
  <2>1. ClientTypeOK /\ ServerTypeOK /\ NetTypeOK /\ HasResponse
    BY TypeParts DEF TypeInv
  <2>2. ClientTypeOK' /\ ServerTypeOK' /\ NetTypeOK' /\ HasResponse'
    BY <2>1, ClientTypes, ServerTypes, NetTypes, ServerHasResponse
  <2>3. TypeOK'
    BY <2>2 DEF TypeOK, ClientTypeOK, ServerTypeOK, NetTypeOK
  <2> QED BY <2>2, <2>3 DEF TypeInv
<1> QED BY <1>1, <1>2, PTL DEF Spec

\* TypeOK, the type invariant of the runs, for every instance.
THEOREM TypeCorrect == Spec => []TypeOK
<1>1. TypeInv => TypeOK
  BY DEF TypeInv
<1> QED BY <1>1, TypeInvHolds, PTL

-----------------------------------------------------------------------------
(* EveryWaitIsTimed is inductive.                                          *)

ClientTimed ==
    /\ ict = "CALLING" => "B" \in ictTimers
    /\ ict = "COMPLETED" => "D" \in ictTimers
    /\ ict = "ACCEPTED" => "M" \in ictTimers
    /\ ict \in {"INIT", "TERMINATED"} => ictTimers = {}

ServerTimed ==
    /\ ist = "COMPLETED" => "H" \in istTimers
    /\ ist = "CONFIRMED" => "I" \in istTimers
    /\ ist = "ACCEPTED" => "L" \in istTimers
    /\ ist \in {"NONE", "PROCEEDING", "TERMINATED"} => istTimers = {}

\* Every step leaves a client transaction that waits with a timer.
LEMMA ClientStaysTimed ==
    ASSUME ClientTimed, [Next]_vars PROVE ClientTimed'
<1> USE DEF ClientTimed, ict_send_request, ict_terminate
<1>1. CASE SendRequest
  BY <1>1 DEF SendRequest, SendRequestNoChannel, SendRequestWaiting,
              SendRequestReady
<1>2. CASE ChannelReady \/ ChannelDown
  BY <1>2 DEF ChannelReady, ChannelDown
<1>3. ASSUME NEW code \in Responses, ReceiveResponse(code) PROVE ClientTimed'
  BY <1>3 DEF ReceiveResponse, ict_on_response_early, ict_on_response_success,
              ict_on_response_failure, ict_on_response_late
<1>4. CASE ict_on_timer_B \/ ict_on_timer_D \/ ict_on_timer_M
  BY <1>4 DEF ict_on_timer_B, ict_on_timer_D, ict_on_timer_M
<1>5. CASE UNCHANGED client
  BY <1>5 DEF client
<1> QED BY <1>1, <1>2, <1>3, <1>4, <1>5, OneSideSteps DEF ClientStep

\* Every step leaves a server transaction that waits with a timer.
LEMMA ServerStaysTimed ==
    ASSUME ServerTimed, [Next]_vars PROVE ServerTimed'
<1> USE DEF ServerTimed, ist_terminate
<1>1. ASSUME NEW code \in Responses, Respond(code) PROVE ServerTimed'
  BY <1>1 DEF Respond, ist_send_provisional, ist_send_success,
              ist_send_failure, ist_send_again
<1>2. CASE ReceiveInvite
  BY <1>2 DEF ReceiveInvite, ist_new, ist_on_request_retransmission
<1>3. CASE ReceiveAck
  BY <1>3 DEF ReceiveAck, ist_process_ack
<1>4. CASE ist_on_timer_H \/ ist_on_timer_I \/ ist_on_timer_L
  BY <1>4 DEF ist_on_timer_H, ist_on_timer_I, ist_on_timer_L
<1>5. CASE UNCHANGED server
  BY <1>5 DEF server
<1> QED BY <1>1, <1>2, <1>3, <1>4, <1>5, OneSideSteps DEF ServerStep

\* No transaction, of any call on any transport, waits for its peer without
\* the timer that ends the wait, and none keeps a timer when it is over.
THEOREM WaitsAreTimed == Spec => []EveryWaitIsTimed
<1>1. Init => ClientTimed /\ ServerTimed
  BY DEF Init, ClientTimed, ServerTimed
<1>2. ClientTimed /\ ServerTimed /\ [Next]_vars
        => ClientTimed' /\ ServerTimed'
  BY ClientStaysTimed, ServerStaysTimed
<1>3. ClientTimed /\ ServerTimed => EveryWaitIsTimed
  BY DEF ClientTimed, ServerTimed, EveryWaitIsTimed
<1> QED BY <1>1, <1>2, <1>3, PTL DEF Spec

-----------------------------------------------------------------------------
(* The caller is told a verdict that was given.                            *)

\* What the caller was told agrees with the state of its transaction.
Heard ==
    /\ ict \in {"INIT", "CALLING", "PROCEEDING"} => outcome = NotHeard
    /\ ict = "ACCEPTED" => outcome \in Success \cap given
    /\ ict = "COMPLETED" => outcome \in Failure \cap given

\* A final response under way, or kept to be repeated, was given.
SentWasGiven ==
    /\ \A code \in s2c : code \in Final => code \in given
    /\ lastResponse \in Final => lastResponse \in given

\* AckMeansRefused is not inductive: that the ACK was sent on the refusal
\* heard last takes Heard, and that this was given takes SentWasGiven.
VerdictInv == Heard /\ SentWasGiven /\ AckMeansRefused

\* What was heard, sent and acknowledged goes on agreeing with what was given.
LEMMA VerdictStep ==
    ASSUME VerdictInv, [Next]_vars PROVE VerdictInv'
<1> USE DEF VerdictInv, Heard, SentWasGiven, AckMeansRefused,
            ict_send_request, ict_terminate, ist_terminate, client, server
<1>0. ict \in {"INIT", "CALLING", "PROCEEDING"}
            => "ACK" \notin c2s /\ ist # "CONFIRMED"
  BY CodeFacts DEF Final
<1>1. CASE SendRequest \/ ChannelReady
  BY <1>0, <1>1 DEF SendRequest, SendRequestNoChannel, SendRequestWaiting,
                    SendRequestReady, ChannelReady
<1>2. CASE ChannelDown
  BY <1>0, <1>2 DEF ChannelDown
<1>3. ASSUME NEW code \in Responses, ReceiveResponse(code) PROVE VerdictInv'
  <2>1. s2c' \subseteq s2c /\ code \in s2c /\ UNCHANGED server
    BY <1>3 DEF ReceiveResponse, AfterDelivery, ResponseDeliverable
  <2>2. SentWasGiven'
    BY <2>1
  <2>3. CASE ict_on_response_early(code)
    BY <2>1, <2>2, <2>3 DEF ict_on_response_early
  <2>4. CASE ict_on_response_success(code)
    BY <2>1, <2>2, <2>4, CodeFacts DEF ict_on_response_success, Final
  <2>5. CASE ict_on_response_failure(code)
    BY <2>1, <2>2, <2>5, CodeFacts DEF ict_on_response_failure, Final
  <2>6. CASE ict_on_response_late(code)
    BY <2>1, <2>2, <2>6, CodeFacts DEF ict_on_response_late, Final
  <2> QED BY <1>3, <2>3, <2>4, <2>5, <2>6 DEF ReceiveResponse
<1>4. CASE ict_on_timer_A \/ ict_on_timer_B \/ ict_on_timer_D \/ ict_on_timer_M
  BY <1>0, <1>4
     DEF ict_on_timer_A, ict_on_timer_B, ict_on_timer_D, ict_on_timer_M
<1>5. ASSUME NEW code \in Responses, Respond(code) PROVE VerdictInv'
  <2>1. UNCHANGED <<client, c2s>>
    BY <1>5 DEF Respond
  <2>3. given \subseteq given' /\ ist' # "CONFIRMED"
    BY <1>5 DEF Respond, ist_send_provisional, ist_send_success,
                ist_send_failure, ist_send_again
  <2>2. SentWasGiven'
    BY <1>5, CodeFacts DEF Respond, ist_send_provisional, ist_send_success,
                           ist_send_failure, ist_send_again, Final
  <2> QED BY <2>1, <2>2, <2>3
<1>6. CASE ReceiveInvite
  <2>1. UNCHANGED <<client, given>> /\ ("ACK" \in c2s' => "ACK" \in c2s)
    BY <1>6 DEF ReceiveInvite, AfterDelivery
  <2>2. SentWasGiven' /\ (ist' = "CONFIRMED" => ist = "CONFIRMED")
    BY <1>6, CodeFacts DEF ReceiveInvite, ist_new,
                           ist_on_request_retransmission
  <2> QED BY <2>1, <2>2
<1>7. CASE ReceiveAck
  BY <1>7 DEF ReceiveAck, RequestDeliverable, AfterDelivery, ist_process_ack
<1>8. CASE ist_on_timer_G \/ ist_on_timer_H \/ ist_on_timer_I \/ ist_on_timer_L
  BY <1>8 DEF ist_on_timer_G, ist_on_timer_H, ist_on_timer_I, ist_on_timer_L
<1>9. CASE \/ \E m \in {"INVITE", "ACK"} : LoseRequest(m)
           \/ \E code \in Responses : LoseResponse(code)
  BY <1>9 DEF LoseRequest, LoseResponse
<1>10. CASE UNCHANGED vars
  BY <1>10 DEF vars
<1> QED
  BY <1>1, <1>2, <1>3, <1>4, <1>5, <1>6, <1>7, <1>8, <1>9, <1>10 DEF Next

\* ... hence it always does.
LEMMA VerdictHolds == Spec => []VerdictInv
<1>1. Init => VerdictInv
  BY CodeFacts DEF Init, VerdictInv, Heard, SentWasGiven, AckMeansRefused,
                   NotHeard, Final
<1> QED BY <1>1, VerdictStep, PTL DEF Spec

\* However messages are lost, repeated and reordered, an ACK of the client
\* transaction acknowledges a refusal that was given and that the caller's
\* listener heard, and so does a CONFIRMED server transaction.
THEOREM AckIsOfARefusal == Spec => []AckMeansRefused
<1>1. VerdictInv => AckMeansRefused
  BY DEF VerdictInv
<1> QED BY <1>1, VerdictHolds, PTL

-----------------------------------------------------------------------------
(* One offer and one verdict, when clocks and network are punctual.        *)

\* Nothing reaches the callee before the INVITE is sent, and with punctual
\* clocks no INVITE is left when its server transaction is over.
InviteIsOver ==
    /\ ict = "INIT" => ist = "NONE" /\ c2s = {}
    /\ Punctual /\ ist = "TERMINATED" => ict # "CALLING" /\ "INVITE" \notin c2s

\* The one server transaction and the answers given in it.
OneVerdict ==
    Punctual =>
        /\ offers = IF ist = "NONE" THEN 0 ELSE 1
        /\ ist \in {"NONE", "PROCEEDING"} => given = {}
        /\ ist = "ACCEPTED" => given \cap Failure = {}
        /\ given \cap Failure # {} => \E code \in Failure : given = {code}

\* With punctual clocks no INVITE is left when a server transaction is over.
LEMMA InviteIsOverStep ==
    ASSUME InviteIsOver, VerdictInv, ServerTimed, [Next]_vars
    PROVE  InviteIsOver'
<1> USE DEF InviteIsOver, ict_send_request, ict_terminate, ist_terminate,
            client, server
<1>1. CASE SendRequest \/ ChannelReady \/ ChannelDown
  BY <1>1 DEF SendRequest, SendRequestNoChannel, SendRequestWaiting,
              SendRequestReady, ChannelReady, ChannelDown
<1>2. ASSUME NEW code \in Responses, ReceiveResponse(code) PROVE InviteIsOver'
  BY <1>2 DEF ReceiveResponse, ict_on_response_early, ict_on_response_success,
              ict_on_response_failure, ict_on_response_late
<1>3. CASE ict_on_timer_A \/ ict_on_timer_B \/ ict_on_timer_D \/ ict_on_timer_M
  BY <1>3 DEF ict_on_timer_A, ict_on_timer_B, ict_on_timer_D, ict_on_timer_M
<1>4. ASSUME NEW code \in Responses, Respond(code) PROVE InviteIsOver'
  BY <1>4 DEF Respond, ist_send_provisional, ist_send_success,
              ist_send_failure, ist_send_again
<1>5. CASE ReceiveInvite
  BY <1>5 DEF ReceiveInvite, RequestDeliverable, AfterDelivery, ist_new,
              ist_on_request_retransmission, Matched
<1>6. CASE ReceiveAck
  <2>1. ict \notin {"INIT", "CALLING"}
    BY <1>6, CodeFacts DEF ReceiveAck, RequestDeliverable, VerdictInv, Heard,
                           AckMeansRefused, Final
  <2>2. /\ "INVITE" \in c2s' => "INVITE" \in c2s /\ ~Reliable
        /\ UNCHANGED client
    BY <1>6 DEF ReceiveAck, RequestDeliverable, AfterDelivery
  <2>3. ist' = "TERMINATED" => ist = "TERMINATED" \/ Reliable
    BY <1>6 DEF ReceiveAck, ist_process_ack
  <2> QED BY <2>1, <2>2, <2>3
<1>7. CASE ist_on_timer_G \/ ist_on_timer_H \/ ist_on_timer_I \/ ist_on_timer_L
  BY <1>7 DEF ist_on_timer_G, ist_on_timer_H, ist_on_timer_I, ist_on_timer_L,
              TimerDue, ServerTimed
<1>8. CASE \/ \E m \in {"INVITE", "ACK"} : LoseRequest(m)
           \/ \E code \in Responses : LoseResponse(code)
  BY <1>8 DEF LoseRequest, LoseResponse
<1>9. CASE UNCHANGED vars
  BY <1>9 DEF vars
<1> QED
  BY <1>1, <1>2, <1>3, <1>4, <1>5, <1>6, <1>7, <1>8, <1>9 DEF Next

\* With punctual clocks a callee that refused has given nothing else.
LEMMA OneVerdictStep ==
    ASSUME OneVerdict, InviteIsOver, ServerTimed, [Next]_vars
    PROVE  OneVerdict'
<1> SUFFICES ASSUME Punctual PROVE OneVerdict'
  BY DEF OneVerdict
<1> USE DEF OneVerdict, ist_terminate
<1>1. ASSUME NEW code \in Responses, Respond(code) PROVE OneVerdict'
  BY <1>1, CodeFacts DEF Respond, ist_send_provisional, ist_send_success,
                         ist_send_failure, ist_send_again
<1>2. CASE ReceiveInvite
  BY <1>2 DEF ReceiveInvite, RequestDeliverable, InviteIsOver, ist_new,
              ist_on_request_retransmission, Matched
<1>3. CASE ReceiveAck
  BY <1>3 DEF ReceiveAck, ist_process_ack
<1>4. CASE ist_on_timer_H \/ ist_on_timer_I \/ ist_on_timer_L
  BY <1>4 DEF ist_on_timer_H, ist_on_timer_I, ist_on_timer_L, ServerTimed
<1>5. CASE UNCHANGED server
  BY <1>5 DEF server
<1> QED BY <1>1, <1>2, <1>3, <1>4, <1>5, OneSideSteps DEF ServerStep

\* ... hence it never does.
LEMMA OneVerdictHolds == Spec => []OneVerdict
<1>1. Init => ServerTimed /\ InviteIsOver /\ OneVerdict
  BY DEF Init, ServerTimed, InviteIsOver, OneVerdict
<1>2. ServerTimed /\ [Next]_vars => ServerTimed'
  BY ServerStaysTimed
<1>3. ServerTimed /\ InviteIsOver /\ VerdictInv /\ [Next]_vars
        => InviteIsOver'
  BY InviteIsOverStep
<1>4. ServerTimed /\ InviteIsOver /\ OneVerdict /\ [Next]_vars
        => OneVerdict'
  BY OneVerdictStep
<1> QED BY <1>1, <1>2, <1>3, <1>4, VerdictHolds, PTL DEF Spec

\* With punctual clocks and network the INVITE is offered to the callee's
\* listener once, whatever is lost, repeated or sent again.
THEOREM OneOffer == Spec => []OfferedOnce
<1>1. OneVerdict => OfferedOnce
  BY DEF OneVerdict, OfferedOnce
<1> QED BY <1>1, OneVerdictHolds, PTL

\* ... and a callee that refused gave no other final answer.
THEOREM RefusalIsOnlyVerdict == Spec => []NoMixedVerdict
<1>1. OneVerdict => NoMixedVerdict
  <2> SUFFICES ASSUME OneVerdict, Punctual, given \cap Failure # {}
               PROVE  Cardinality(given) = 1
    BY DEF NoMixedVerdict
  <2>1. PICK code \in Failure : given = {code}
    BY DEF OneVerdict
  <2> QED BY <2>1, FS_Singleton
<1> QED BY <1>1, OneVerdictHolds, PTL

-----------------------------------------------------------------------------
(* The transactions implement Exchange.                                    *)

\* Every step is a step of Exchange or leaves it alone.
LEMMA ExchangeStep ==
    ASSUME VerdictInv, [Next]_vars PROVE [Abstract!Next]_(Abstract!vars)
<1> USE DEF Abstract!Next, Abstract!vars, Abstract!Learn, Abstract!GiveUp,
            Abstract!Answer
<1>1. CASE SendRequest
  <2>1. CASE SendRequestNoChannel
    BY <2>1 DEF SendRequestNoChannel, VerdictInv, Heard, server, GaveUp
  <2>2. CASE SendRequestWaiting \/ SendRequestReady
    BY <2>2 DEF SendRequestWaiting, SendRequestReady, server
  <2> QED BY <1>1, <2>1, <2>2 DEF SendRequest
<1>2. CASE ChannelReady
  BY <1>2 DEF ChannelReady, server
<1>3. CASE ChannelDown
  BY <1>3 DEF ChannelDown, VerdictInv, Heard, server, GaveUp
<1>4. ASSUME NEW code \in Responses, ReceiveResponse(code)
      PROVE  [Abstract!Next]_(Abstract!vars)
  <2>1. code \in s2c /\ UNCHANGED given
    BY <1>4 DEF ReceiveResponse, ResponseDeliverable, server
  <2>2. code \in Final => code \in given
    BY <2>1 DEF VerdictInv, SentWasGiven
  <2>3. CASE ict_on_response_early(code)
    BY <2>1, <2>3 DEF ict_on_response_early
  <2>4. CASE ict_on_response_success(code) \/ ict_on_response_failure(code)
    BY <2>1, <2>2, <2>4 DEF ict_on_response_success, ict_on_response_failure,
                            VerdictInv, Heard, Final
  <2>5. CASE ict_on_response_late(code)
    BY <2>1, <2>2, <2>5 DEF ict_on_response_late, VerdictInv, Heard, Final
  <2> QED BY <1>4, <2>3, <2>4, <2>5 DEF ReceiveResponse
<1>5. CASE ict_on_timer_A \/ ict_on_timer_D \/ ict_on_timer_M
  BY <1>5 DEF ict_on_timer_A, ict_on_timer_D, ict_on_timer_M, client, server
<1>6. CASE ict_on_timer_B
  BY <1>6 DEF ict_on_timer_B, VerdictInv, Heard, server, GaveUp
<1>7. ASSUME NEW code \in Responses, Respond(code)
      PROVE  [Abstract!Next]_(Abstract!vars)
  BY <1>7 DEF Respond, ist_send_provisional, ist_send_success,
              ist_send_failure, ist_send_again, client
<1>8. CASE \/ ReceiveInvite \/ ReceiveAck
           \/ ist_on_timer_G \/ ist_on_timer_H
           \/ ist_on_timer_I \/ ist_on_timer_L
  BY <1>8 DEF ReceiveInvite, ReceiveAck, ist_on_timer_G, ist_on_timer_H,
              ist_on_timer_I, ist_on_timer_L, client, server
<1>9. CASE \/ \E m \in {"INVITE", "ACK"} : LoseRequest(m)
           \/ \E code \in Responses : LoseResponse(code)
  BY <1>9 DEF LoseRequest, LoseResponse, client, server
<1>10. CASE UNCHANGED vars
  BY <1>10 DEF vars
<1> QED
  BY <1>1, <1>2, <1>3, <1>4, <1>5, <1>6, <1>7, <1>8, <1>9, <1>10 DEF Next

\* What the caller is told is one answer of the callee or one report of its
\* own stack, for all behaviours of transactions, channel and network.
THEOREM Refinement == Spec => ImplementsExchange
<1>1. Init => Abstract!Init
  BY DEF Init, Abstract!Init
<1>2. VerdictInv /\ [Next]_vars => [Abstract!Next]_(Abstract!vars)
  BY ExchangeStep
<1> QED BY <1>1, <1>2, VerdictHolds, PTL
        DEF Spec, ImplementsExchange, Abstract!Spec
=============================================================================
