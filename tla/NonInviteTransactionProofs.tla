---------------------- MODULE NonInviteTransactionProofs ----------------------
(* Theorems about NonInviteTransaction, for every set of settings and of   *)
(* codes, any number of addresses and every bound.                         *)
EXTENDS NonInviteTransaction, FiniteSetTheorems, TLAPS

-----------------------------------------------------------------------------
\* The kinds of codes are disjoint, and none is a report of the stack.
LEMMA CodeFacts ==
    /\ \A code \in Final : code >= 200 /\ ~(code < 200) /\ code # 0
    /\ \A code \in Final : code \notin GaveUp /\ code # NotHeard
    /\ \A code \in Provisional : code < 200 /\ code \notin Final /\ code # 0
    /\ \A code \in Responses : code \in Nat
    /\ \A code \in Responses : code >= 200 => code \in Final
    /\ 0 \notin Final
    /\ NotHeard \notin GaveUp /\ TimedOut # NotHeard
<1>1. \A code \in Final : code \in Nat /\ code >= 200 /\ code # 0
  BY CodesAssumption
<1>2. \A code \in Provisional : code \in Nat /\ code < 200 /\ code # 0
  BY CodesAssumption
<1>3. \A code \in Final : ~(code < 200)
  BY <1>1
<1>4. \A code \in Provisional : code \notin Final
  BY <1>2, <1>3
<1>5. \A code \in Responses : code \in Nat /\ (code >= 200 => code \in Final)
  BY <1>1, <1>2 DEF Responses
<1>6. \A code \in Final : code \notin GaveUp /\ code # NotHeard
  BY <1>1 DEF GaveUp, NotHeard, TimedOut, IoError, NotSent
<1> QED
  BY <1>1, <1>2, <1>3, <1>4, <1>5, <1>6
     DEF GaveUp, NotHeard, TimedOut, IoError, NotSent

-----------------------------------------------------------------------------
(* The parts of the type invariant and of what it rests on.                *)

\* The variables of the client and its channel but for its counters, whose
\* bounds are invariants of their own.
StateTypes ==
    /\ setting \in Settings
    /\ chan \in {"NONE", "READY", "ERROR", "DISCONNECTED"} \cup Preparing
    /\ registered \in BOOLEAN
    /\ nict \in {"INIT", "COMPLETED", "TERMINATED"} \cup Waiting
    /\ nictTimers \in SUBSET {"E", "F", "K"}
    /\ timedOut \in BOOLEAN
    /\ outcome \in {NotHeard} \cup GaveUp \cup Final

CounterTypes ==
    /\ alternates \in 0..MaxAlternates
    /\ notices \in Nat
    /\ reports \in Nat

PeerTypes ==
    /\ nist \in {"NONE", "COMPLETED", "TERMINATED"} \cup Waiting
    /\ nistTimers \in SUBSET {"J"}
    /\ lastResponse \in {0} \cup Responses
    /\ offers \in 0..MaxOffers
    /\ given \in SUBSET Final
    /\ c2s \in SUBSET {"REQUEST"}
    /\ s2c \in SUBSET Responses

\* What a repeated request is answered with is a response.
HasResponse ==
    nist \in {"PROCEEDING", "COMPLETED"} => lastResponse \in Responses

\* A transaction that waits for its answer has a channel that is, or was,
\* ready, and one whose channel is closed does not wait.
WaitsOnItsChannel ==
    /\ nict # "INIT" => registered
    /\ nict \in Waiting => chan \in {"READY", "STALLED", "ERROR"}
    /\ chan = "DISCONNECTED" /\ registered => nict = "TERMINATED"

\* The main loop holds no notice of a channel that has not failed yet; the
\* one that goes past the bound of ChannelFails by two is that of timer F.
NoticesAreBounded ==
    /\ chan \in {"NONE", "INIT", "RES_IN_PROGRESS", "CONNECTING"}
            => notices = 0
    /\ notices <= MaxNotices + 2
    /\ notices = MaxNotices + 2 => nict # "INIT" /\ "F" \notin nictTimers
    /\ nict \in {"INIT", "TERMINATED"} => nictTimers = {}

\* Nothing was reported while the answer is awaited, one thing until the
\* channel is closed or when no timeout was held back, and from then on each
\* notice may repeat the timeout.
ReportsAreCounted ==
    /\ nict \in {"INIT"} \cup Waiting => reports = 0 /\ outcome = NotHeard
    /\ ~timedOut \/ chan # "DISCONNECTED" => reports <= 1
    /\ reports + notices <= MaxNotices + 4

ClientInv ==
    /\ StateTypes /\ CounterTypes
    /\ WaitsOnItsChannel /\ NoticesAreBounded /\ ReportsAreCounted

-----------------------------------------------------------------------------
(* Steps of the client and of its channel.                                 *)

\* The steps that change something of the client or its channel.
ClientStep ==
    \/ SendRequest
    \/ \E code \in Responses : ReceiveResponse(code)
    \/ nict_on_timer_E \/ nict_on_timer_F \/ nict_on_timer_K
    \/ ChannelResolved \/ ResolutionFails \/ ConnectionMade \/ ConnectionFails
    \/ ChannelFails \/ ChannelDisconnected \/ DeferredNotice

ServerStep ==
    (\E code \in Responses : Respond(code)) \/ ReceiveRequest \/ nist_on_timer_J

\* A step belongs to one side, or is a loss.
LEMMA OneSideSteps ==
    ASSUME [Next]_vars
    PROVE  /\ UNCHANGED setting
           /\ ClientStep \/ UNCHANGED <<channel, client>>
           /\ ServerStep \/ UNCHANGED server
<1> USE DEF ClientStep, ServerStep
<1>1. CASE Next
  <2>1. UNCHANGED setting
    BY <1>1 DEF Next, SameSetting
  <2>2. ClientStep \/ UNCHANGED <<channel, client>>
    BY <1>1 DEF Next, Step, Respond, LoseResponse, LoseRequest,
                ReceiveRequest, nist_on_timer_J
  <2>3. ServerStep \/ UNCHANGED server
    BY <1>1 DEF Next, Step, SendRequest, SendRequestNoChannel,
                SendRequestWaiting, SendRequestReady, ReceiveResponse,
                nict_on_timer_E, nict_on_timer_F, nict_on_timer_K,
                ChannelResolved, ResolutionFails, ConnectionMade,
                ConnectionFails, ChannelFails, ChannelDisconnected,
                DeferredNotice, LoseResponse, LoseRequest, client
  <2> QED BY <2>1, <2>2, <2>3
<1>2. CASE UNCHANGED vars
  BY <1>2 DEF vars, channel, client, server
<1> QED BY <1>1, <1>2

\* A failure leads to another address, or is to be notified.
FailureLeads(armed) ==
    \/ /\ chan' = "READY" /\ ~Reliable /\ UNCHANGED <<notices, s2c>>
       /\ \/ registered /\ nict = "INIT" /\ nict_send_request
          \/ /\ ~(registered /\ nict = "INIT")
             /\ nictTimers' = armed /\ UNCHANGED <<nict, c2s>>
    \/ /\ chan' \in {"STALLED", "ERROR"}
       /\ notices' \in {notices, notices + 1}
       /\ nictTimers' = armed /\ UNCHANGED nict
       /\ c2s' \subseteq c2s /\ s2c' \subseteq s2c
       /\ chan = "READY" => chan' = "ERROR"

\* What the failure of a channel leads to: the next address, or an error.
LEMMA FailureEffect ==
    ASSUME NEW armed, handle_error(armed), CounterTypes
    PROVE  alternates' \in 0..MaxAlternates /\ FailureLeads(armed)
<1> USE DEF FailureLeads
<1>1. CASE chan # "READY" /\ alternates > 0
  <2>1. alternates - 1 \in 0..MaxAlternates
    BY <1>1, BoundsAssumption DEF CounterTypes
  <2>2. CASE ~Reliable
    BY <1>1, <2>1, <2>2 DEF handle_error, connect, channel_ready_notified
  <2>3. CASE Reliable
    <3>1. 0..(alternates - 1) \subseteq 0..MaxAlternates
      BY <2>1, BoundsAssumption
    <3>2. alternates' \in 0..MaxAlternates
      BY <1>1, <2>3, <3>1, BoundsAssumption DEF handle_error, connect
    <3> QED
      BY <1>1, <2>3, <3>2 DEF handle_error, connect, give_up
  <2> QED BY <2>2, <2>3
<1>2. CASE ~(chan # "READY" /\ alternates > 0)
  BY <1>2 DEF handle_error, give_up, CounterTypes
<1> QED BY <1>1, <1>2

\* Every step keeps the types of states, timers and messages.
LEMMA StateTypesStep ==
    ASSUME StateTypes, CounterTypes, [Next]_vars PROVE StateTypes'
<1> USE DEF StateTypes, Waiting, Preparing, nict_send_request, nict_terminate
<1>0. UNCHANGED setting
  BY OneSideSteps
<1> USE <1>0
<1>1. CASE SendRequest
  BY <1>1, CodeFacts, ZenonT(90)
     DEF SendRequest, SendRequestNoChannel, SendRequestWaiting,
         SendRequestReady, GaveUp, channel
<1>2. ASSUME NEW code \in Responses, ReceiveResponse(code) PROVE StateTypes'
  <2> USE <1>2 DEF ReceiveResponse
  <2>1. CASE nict_on_response_early(code)
    BY <2>1 DEF nict_on_response_early, channel
  <2>2. CASE nict_set_completed(code)
    BY <2>2, CodeFacts, ZenonT(90) DEF nict_set_completed, channel
  <2>3. CASE nict_on_response_ignored(code)
    BY <2>3 DEF nict_on_response_ignored, channel
  <2> QED BY <2>1, <2>2, <2>3
<1>3. CASE nict_on_timer_E \/ nict_on_timer_K
  BY <1>3 DEF nict_on_timer_E, nict_on_timer_K, channel
<1>4. CASE nict_on_timer_F
  <2>1. CASE nict \in Waiting /\ notify_timeout_to_channel
    <3>1. handle_error(nictTimers \ {"F"})
      BY <2>1 DEF notify_timeout_to_channel
    <3>2. FailureLeads(nictTimers \ {"F"})
      BY <3>1, FailureEffect
    <3> QED BY <1>4, <2>1, <3>2
            DEF nict_on_timer_F, notify_timeout_to_channel, FailureLeads
  <2>2. CASE nict \in Waiting /\ notify_timeout_to_listener
    BY <1>4, <2>2 DEF nict_on_timer_F, notify_timeout_to_listener, GaveUp, channel
  <2>3. CASE nict \notin Waiting
    BY <1>4, <2>3 DEF nict_on_timer_F, channel
  <2> QED BY <1>4, <2>1, <2>2, <2>3 DEF nict_on_timer_F
<1>5. CASE ChannelResolved
  <2>1. CASE ~Reliable
    BY <1>5, <2>1 DEF ChannelResolved, connect, channel_ready_notified
  <2>2. CASE Reliable
    BY <1>5, <2>2 DEF ChannelResolved, connect, give_up
  <2> QED BY <2>1, <2>2
<1>6. CASE ResolutionFails
  BY <1>6 DEF ResolutionFails, give_up, client
<1>7. CASE ConnectionMade
  BY <1>7 DEF ConnectionMade, channel_ready_notified
<1>8. CASE ConnectionFails \/ ChannelFails
  <2>1. FailureLeads(nictTimers)
    BY <1>8, FailureEffect DEF ConnectionFails, ChannelFails
  <2>2. UNCHANGED <<registered, timedOut, outcome, reports>>
    BY <1>8 DEF ConnectionFails, ChannelFails
  <2>3. CASE ConnectionFails
    BY <2>1, <2>2, <2>3 DEF ConnectionFails, FailureLeads
  <2>4. CASE ChannelFails
    BY <2>1, <2>2, <2>4 DEF ChannelFails, FailureLeads
  <2> QED BY <1>8, <2>3, <2>4
<1>9. CASE ChannelDisconnected
  BY <1>9 DEF ChannelDisconnected, channel_error_notified, GaveUp
<1>10. CASE DeferredNotice
  BY <1>10 DEF DeferredNotice, channel_error_notified, GaveUp
<1>11. CASE UNCHANGED <<channel, client>>
  BY <1>11 DEF channel, client
<1> QED
  BY <1>1, <1>2, <1>3, <1>4, <1>5, <1>6, <1>7, <1>8, <1>9, <1>10, <1>11,
     OneSideSteps DEF ClientStep

\* Every step keeps the types of addresses, notices and reports.
LEMMA CounterTypesStep ==
    ASSUME CounterTypes, [Next]_vars PROVE CounterTypes'
<1> USE BoundsAssumption
    DEF CounterTypes, Waiting, Preparing, nict_send_request, nict_terminate
<1>1. CASE SendRequest
  BY <1>1
     DEF SendRequest, SendRequestNoChannel, SendRequestWaiting,
         SendRequestReady, channel
<1>2. ASSUME NEW code \in Responses, ReceiveResponse(code) PROVE CounterTypes'
  <2> USE <1>2 DEF ReceiveResponse
  <2>1. CASE nict_on_response_early(code)
    BY <2>1 DEF nict_on_response_early, channel
  <2>2. CASE nict_set_completed(code)
    BY <2>2 DEF nict_set_completed, channel
  <2>3. CASE nict_on_response_ignored(code)
    BY <2>3 DEF nict_on_response_ignored, channel
  <2> QED BY <2>1, <2>2, <2>3
<1>3. CASE nict_on_timer_E \/ nict_on_timer_K
  BY <1>3 DEF nict_on_timer_E, nict_on_timer_K, channel
<1>4. CASE nict_on_timer_F
  <2>1. CASE nict \in Waiting /\ notify_timeout_to_channel
    <3>1. handle_error(nictTimers \ {"F"})
      BY <2>1 DEF notify_timeout_to_channel
    <3>2. alternates' \in 0..MaxAlternates /\ FailureLeads(nictTimers \ {"F"})
      BY <3>1, FailureEffect
    <3> QED BY <1>4, <2>1, <3>2
            DEF nict_on_timer_F, notify_timeout_to_channel, FailureLeads
  <2>2. CASE nict \in Waiting /\ notify_timeout_to_listener
    BY <1>4, <2>2 DEF nict_on_timer_F, notify_timeout_to_listener, channel
  <2>3. CASE nict \notin Waiting
    BY <1>4, <2>3 DEF nict_on_timer_F, channel
  <2> QED BY <1>4, <2>1, <2>2, <2>3 DEF nict_on_timer_F
<1>5. CASE ChannelResolved
  <2>1. CASE ~Reliable
    BY <1>5, <2>1 DEF ChannelResolved, connect, channel_ready_notified
  <2>2. CASE Reliable
    <3>1. 0..alternates \subseteq 0..MaxAlternates
      OBVIOUS
    <3> QED BY <1>5, <2>2, <3>1 DEF ChannelResolved, connect, give_up
  <2> QED BY <2>1, <2>2
<1>6. CASE ResolutionFails
  BY <1>6 DEF ResolutionFails, give_up, client
<1>7. CASE ConnectionMade
  BY <1>7 DEF ConnectionMade, channel_ready_notified
<1>8. CASE ConnectionFails \/ ChannelFails
  <2>1. alternates' \in 0..MaxAlternates /\ FailureLeads(nictTimers)
    BY <1>8, FailureEffect DEF ConnectionFails, ChannelFails
  <2>2. UNCHANGED <<registered, timedOut, outcome, reports>>
    BY <1>8 DEF ConnectionFails, ChannelFails
  <2>3. CASE ConnectionFails
    BY <2>1, <2>2, <2>3 DEF ConnectionFails, FailureLeads
  <2>4. CASE ChannelFails
    BY <2>1, <2>2, <2>4 DEF ChannelFails, FailureLeads
  <2> QED BY <1>8, <2>3, <2>4
<1>9. CASE ChannelDisconnected
  BY <1>9 DEF ChannelDisconnected, channel_error_notified
<1>10. CASE DeferredNotice
  BY <1>10 DEF DeferredNotice, channel_error_notified
<1>11. CASE UNCHANGED <<channel, client>>
  BY <1>11 DEF channel, client
<1> QED
  BY <1>1, <1>2, <1>3, <1>4, <1>5, <1>6, <1>7, <1>8, <1>9, <1>10, <1>11,
     OneSideSteps DEF ClientStep

\* A transaction that prepares waits on a channel that is on its way.
LEMMA ChannelStep ==
    ASSUME CounterTypes, WaitsOnItsChannel, NoticesAreBounded,
           [Next]_vars
    PROVE  WaitsOnItsChannel'
<1> USE DEF WaitsOnItsChannel,
        Waiting, Preparing, nict_send_request, nict_terminate
<1>1. CASE SendRequest
  BY <1>1
     DEF SendRequest, SendRequestNoChannel, SendRequestWaiting,
         SendRequestReady, channel
<1>2. ASSUME NEW code \in Responses, ReceiveResponse(code) PROVE WaitsOnItsChannel'
  <2> USE <1>2 DEF ReceiveResponse
  <2>1. CASE nict_on_response_early(code)
    BY <2>1 DEF nict_on_response_early, channel
  <2>2. CASE nict_set_completed(code)
    BY <2>2 DEF nict_set_completed, channel
  <2>3. CASE nict_on_response_ignored(code)
    BY <2>3 DEF nict_on_response_ignored, channel
  <2> QED BY <2>1, <2>2, <2>3
<1>3. CASE nict_on_timer_E \/ nict_on_timer_K
  BY <1>3 DEF nict_on_timer_E, nict_on_timer_K, channel,
               NoticesAreBounded
<1>4. CASE nict_on_timer_F
  <2>1. CASE nict \in Waiting /\ notify_timeout_to_channel
    <3>1. handle_error(nictTimers \ {"F"})
      BY <2>1 DEF notify_timeout_to_channel
    <3>2. alternates' \in 0..MaxAlternates /\ FailureLeads(nictTimers \ {"F"})
      BY <3>1, FailureEffect
    <3> QED BY <1>4, <2>1, <3>2
            DEF nict_on_timer_F, notify_timeout_to_channel, FailureLeads
  <2>2. CASE nict \in Waiting /\ notify_timeout_to_listener
    BY <1>4, <2>2 DEF nict_on_timer_F, notify_timeout_to_listener, GaveUp, channel
  <2>3. CASE nict \notin Waiting
    BY <1>4, <2>3 DEF nict_on_timer_F, channel
  <2> QED BY <1>4, <2>1, <2>2, <2>3 DEF nict_on_timer_F
<1>5. CASE ChannelResolved
  <2>1. CASE ~Reliable
    BY <1>5, <2>1 DEF ChannelResolved, connect, channel_ready_notified
  <2>2. CASE Reliable
    BY <1>5, <2>2 DEF ChannelResolved, connect, give_up
  <2> QED BY <2>1, <2>2
<1>6. CASE ResolutionFails
  BY <1>6 DEF ResolutionFails, give_up, client
<1>7. CASE ConnectionMade
  BY <1>7 DEF ConnectionMade, channel_ready_notified
<1>8. CASE ConnectionFails \/ ChannelFails
  <2>1. FailureLeads(nictTimers)
    BY <1>8, FailureEffect DEF ConnectionFails, ChannelFails
  <2>2. UNCHANGED <<registered, timedOut, outcome, reports>>
    BY <1>8 DEF ConnectionFails, ChannelFails
  <2>3. CASE ConnectionFails
    BY <2>1, <2>2, <2>3 DEF ConnectionFails, FailureLeads
  <2>4. CASE ChannelFails
    BY <2>1, <2>2, <2>4 DEF ChannelFails, FailureLeads
  <2> QED BY <1>8, <2>3, <2>4
<1>9. CASE ChannelDisconnected
  BY <1>9 DEF ChannelDisconnected, channel_error_notified
<1>10. CASE DeferredNotice
  BY <1>10 DEF DeferredNotice, channel_error_notified
<1>11. CASE UNCHANGED <<channel, client>>
  BY <1>11 DEF channel, client
<1> QED
  BY <1>1, <1>2, <1>3, <1>4, <1>5, <1>6, <1>7, <1>8, <1>9, <1>10, <1>11,
     OneSideSteps DEF ClientStep

\* Error notices are owed for failures of the channel only.
LEMMA NoticesStep ==
    ASSUME CounterTypes, WaitsOnItsChannel, NoticesAreBounded,
           [Next]_vars
    PROVE  NoticesAreBounded'
<1> USE DEF NoticesAreBounded, Waiting, Preparing, nict_send_request,
            nict_terminate
<1>0. notices \in Nat /\ MaxNotices \in Nat /\ notices + 1 \in Nat
  BY BoundsAssumption DEF CounterTypes
<1> USE <1>0
<1>1. CASE SendRequest
  BY <1>1
     DEF SendRequest, SendRequestNoChannel, SendRequestWaiting,
         SendRequestReady, channel
<1>2. ASSUME NEW code \in Responses, ReceiveResponse(code) PROVE NoticesAreBounded'
  <2> USE <1>2 DEF ReceiveResponse
  <2>1. CASE nict_on_response_early(code)
    BY <2>1 DEF nict_on_response_early, channel
  <2>2. CASE nict_set_completed(code)
    BY <2>2 DEF nict_set_completed, channel
  <2>3. CASE nict_on_response_ignored(code)
    BY <2>3 DEF nict_on_response_ignored, channel
  <2> QED BY <2>1, <2>2, <2>3
<1>3. CASE nict_on_timer_E \/ nict_on_timer_K
  BY <1>3 DEF nict_on_timer_E, nict_on_timer_K, channel
<1>4. CASE nict_on_timer_F
  <2>1. CASE nict \in Waiting /\ notify_timeout_to_channel
    <3>1. handle_error(nictTimers \ {"F"})
      BY <2>1 DEF notify_timeout_to_channel
    <3>2. alternates' \in 0..MaxAlternates /\ FailureLeads(nictTimers \ {"F"})
      BY <3>1, FailureEffect
    <3> QED BY <1>4, <2>1, <3>2
            DEF nict_on_timer_F, notify_timeout_to_channel, FailureLeads
  <2>2. CASE nict \in Waiting /\ notify_timeout_to_listener
    BY <1>4, <2>2 DEF nict_on_timer_F, notify_timeout_to_listener, GaveUp, channel
  <2>3. CASE nict \notin Waiting
    BY <1>4, <2>3 DEF nict_on_timer_F, channel
  <2> QED BY <1>4, <2>1, <2>2, <2>3 DEF nict_on_timer_F
<1>5. CASE ChannelResolved
  <2>1. CASE ~Reliable
    BY <1>5, <2>1 DEF ChannelResolved, connect, channel_ready_notified
  <2>2. CASE Reliable
    BY <1>5, <2>2 DEF ChannelResolved, connect, give_up
  <2> QED BY <2>1, <2>2
<1>6. CASE ResolutionFails
  BY <1>6 DEF ResolutionFails, give_up, client
<1>7. CASE ConnectionMade
  BY <1>7 DEF ConnectionMade, channel_ready_notified
<1>8. CASE ConnectionFails \/ ChannelFails
  <2>1. alternates' \in 0..MaxAlternates /\ FailureLeads(nictTimers)
    BY <1>8, FailureEffect DEF ConnectionFails, ChannelFails
  <2>2. UNCHANGED <<registered, timedOut, outcome, reports>>
    BY <1>8 DEF ConnectionFails, ChannelFails
  <2>3. CASE ConnectionFails
    BY <2>1, <2>2, <2>3 DEF ConnectionFails, FailureLeads
  <2>4. CASE ChannelFails
    BY <2>1, <2>2, <2>4 DEF ChannelFails, FailureLeads
  <2> QED BY <1>8, <2>3, <2>4
<1>9. CASE ChannelDisconnected
  BY <1>9 DEF ChannelDisconnected, channel_error_notified
<1>10. CASE DeferredNotice
  BY <1>10 DEF DeferredNotice, channel_error_notified
<1>11. CASE UNCHANGED <<channel, client>>
  BY <1>11 DEF channel, client
<1> QED
  BY <1>1, <1>2, <1>3, <1>4, <1>5, <1>6, <1>7, <1>8, <1>9, <1>10, <1>11,
     OneSideSteps DEF ClientStep

\* What the listener was told is counted against the state of the transaction.
LEMMA ReportsStep ==
    ASSUME CounterTypes, WaitsOnItsChannel, NoticesAreBounded,
           ReportsAreCounted,
           [Next]_vars
    PROVE  ReportsAreCounted'
<1> USE BoundsAssumption
    DEF NoticesAreBounded, ReportsAreCounted, CounterTypes, WaitsOnItsChannel,
        Waiting, Preparing, nict_send_request, nict_terminate
<1>1. CASE SendRequest
  BY <1>1, CodeFacts
     DEF SendRequest, SendRequestNoChannel, SendRequestWaiting,
         SendRequestReady, GaveUp, channel
<1>2. ASSUME NEW code \in Responses, ReceiveResponse(code) PROVE ReportsAreCounted'
  <2> USE <1>2 DEF ReceiveResponse
  <2>1. CASE nict_on_response_early(code)
    BY <2>1 DEF nict_on_response_early, channel
  <2>2. CASE nict_set_completed(code)
    BY <2>2, CodeFacts DEF nict_set_completed, channel
  <2>3. CASE nict_on_response_ignored(code)
    BY <2>3 DEF nict_on_response_ignored, channel
  <2> QED BY <2>1, <2>2, <2>3
<1>3. CASE nict_on_timer_E \/ nict_on_timer_K
  BY <1>3 DEF nict_on_timer_E, nict_on_timer_K, channel
<1>4. CASE nict_on_timer_F
  <2>1. CASE nict \in Waiting /\ notify_timeout_to_channel
    <3>1. handle_error(nictTimers \ {"F"})
      BY <2>1 DEF notify_timeout_to_channel
    <3>2. alternates' \in 0..MaxAlternates /\ FailureLeads(nictTimers \ {"F"})
      BY <3>1, FailureEffect
    <3> QED BY <1>4, <2>1, <3>2
            DEF nict_on_timer_F, notify_timeout_to_channel, FailureLeads
  <2>2. CASE nict \in Waiting /\ notify_timeout_to_listener
    BY <1>4, <2>2 DEF nict_on_timer_F, notify_timeout_to_listener, GaveUp, channel
  <2>3. CASE nict \notin Waiting
    BY <1>4, <2>3 DEF nict_on_timer_F, channel
  <2> QED BY <1>4, <2>1, <2>2, <2>3 DEF nict_on_timer_F
<1>5. CASE ChannelResolved
  <2>1. CASE ~Reliable
    BY <1>5, <2>1 DEF ChannelResolved, connect, channel_ready_notified
  <2>2. CASE Reliable
    <3>1. 0..alternates \subseteq 0..MaxAlternates
      OBVIOUS
    <3> QED BY <1>5, <2>2, <3>1 DEF ChannelResolved, connect, give_up
  <2> QED BY <2>1, <2>2
<1>6. CASE ResolutionFails
  BY <1>6 DEF ResolutionFails, give_up, client
<1>7. CASE ConnectionMade
  BY <1>7 DEF ConnectionMade, channel_ready_notified
<1>8. CASE ConnectionFails \/ ChannelFails
  <2>1. alternates' \in 0..MaxAlternates /\ FailureLeads(nictTimers)
    BY <1>8, FailureEffect DEF ConnectionFails, ChannelFails
  <2>2. UNCHANGED <<registered, timedOut, outcome, reports>>
    BY <1>8 DEF ConnectionFails, ChannelFails
  <2>3. CASE ConnectionFails
    BY <2>1, <2>2, <2>3 DEF ConnectionFails, FailureLeads
  <2>4. CASE ChannelFails
    BY <2>1, <2>2, <2>4 DEF ChannelFails, FailureLeads
  <2> QED BY <1>8, <2>3, <2>4
<1>9. CASE ChannelDisconnected
  BY <1>9 DEF ChannelDisconnected, channel_error_notified, GaveUp
<1>10. CASE DeferredNotice
  BY <1>10 DEF DeferredNotice, channel_error_notified, GaveUp
<1>11. CASE UNCHANGED <<channel, client>>
  BY <1>11 DEF channel, client
<1> QED
  BY <1>1, <1>2, <1>3, <1>4, <1>5, <1>6, <1>7, <1>8, <1>9, <1>10, <1>11,
     OneSideSteps DEF ClientStep

\* The invariant of the client always holds.
LEMMA ClientInvHolds == Spec => []ClientInv
<1>1. Init => ClientInv
  <2> SUFFICES ASSUME Init PROVE ClientInv
    OBVIOUS
  <2>1. StateTypes /\ WaitsOnItsChannel
    BY DEF Init, StateTypes, WaitsOnItsChannel, Waiting, Preparing
  <2>2. CounterTypes /\ NoticesAreBounded /\ ReportsAreCounted
    BY BoundsAssumption
       DEF Init, CounterTypes, NoticesAreBounded, ReportsAreCounted
  <2> QED BY <2>1, <2>2 DEF ClientInv
<1>2. ClientInv /\ [Next]_vars => ClientInv'
  BY StateTypesStep, CounterTypesStep, ChannelStep, NoticesStep, ReportsStep
     DEF ClientInv
<1> QED BY <1>1, <1>2, PTL DEF Spec

\* The sender's listener is given one final report, however the failures of
\* its channel, the notices of them, the answer and timer F come together;
\* only a REGISTER that held its timeout back hears of two.
THEOREM ReportedOnce == Spec => []OneReport
<1>1. ClientInv => OneReport
  BY DEF ClientInv, CounterTypes, ReportsAreCounted, OneReport
<1> QED BY <1>1, ClientInvHolds, PTL

-----------------------------------------------------------------------------
(* The server transactions and the network.                                *)

\* A final response under way, or kept to be repeated, was given.
SentWasGiven ==
    /\ \A code \in s2c : code \in Final => code \in given
    /\ lastResponse \in Final => lastResponse \in given

PeerInv == PeerTypes /\ HasResponse /\ SentWasGiven

\* The client sends, drops or hears; only the server adds responses.
LEMMA ClientNet ==
    ASSUME ClientStep, CounterTypes, PeerTypes
    PROVE  c2s' \subseteq {"REQUEST"} /\ s2c' \subseteq s2c
<1> USE DEF PeerTypes, nict_send_request
<1>1. CASE SendRequest
  BY <1>1 DEF SendRequest, SendRequestNoChannel, SendRequestWaiting,
              SendRequestReady
<1>2. CASE \E code \in Responses : ReceiveResponse(code)
  BY <1>2 DEF ReceiveResponse, AfterDelivery
<1>3. CASE nict_on_timer_E \/ nict_on_timer_K
  BY <1>3 DEF nict_on_timer_E, nict_on_timer_K
<1>4. CASE nict_on_timer_F
  <2>1. CASE notify_timeout_to_channel
    <3>1. FailureLeads(nictTimers \ {"F"})
      BY <2>1, FailureEffect DEF notify_timeout_to_channel
    <3> QED BY <3>1 DEF FailureLeads
  <2>2. CASE UNCHANGED <<c2s, s2c>>
    BY <2>2
  <2> QED
    BY <1>4, <2>1, <2>2 DEF nict_on_timer_F, notify_timeout_to_listener
<1>5. CASE ChannelResolved
  BY <1>5 DEF ChannelResolved, connect, channel_ready_notified
<1>6. CASE ResolutionFails \/ ConnectionMade
  BY <1>6 DEF ResolutionFails, ConnectionMade, channel_ready_notified
<1>7. CASE ConnectionFails \/ ChannelFails
  <2>1. FailureLeads(nictTimers)
    BY <1>7, FailureEffect DEF ConnectionFails, ChannelFails
  <2> QED BY <2>1 DEF FailureLeads
<1>8. CASE ChannelDisconnected \/ DeferredNotice
  BY <1>8 DEF ChannelDisconnected, DeferredNotice, channel_error_notified,
              ConnectionLost
<1> QED
  BY <1>1, <1>2, <1>3, <1>4, <1>5, <1>6, <1>7, <1>8 DEF ClientStep

\* Every step keeps the types of the server, and sends only what was given.
LEMMA PeerInvStep ==
    ASSUME PeerInv, CounterTypes, [Next]_vars PROVE PeerInv'
<1> USE DEF PeerInv, PeerTypes, HasResponse, SentWasGiven, Waiting
<1>1. CASE ClientStep
  <2>1. UNCHANGED server
    BY <1>1
       DEF ClientStep, SendRequest, SendRequestNoChannel, SendRequestWaiting,
           SendRequestReady, ReceiveResponse, nict_on_timer_E,
           nict_on_timer_F, nict_on_timer_K, ChannelResolved,
           ResolutionFails, ConnectionMade, ConnectionFails, ChannelFails,
           ChannelDisconnected, DeferredNotice, client
  <2>2. c2s' \subseteq {"REQUEST"} /\ s2c' \subseteq s2c
    BY <1>1, ClientNet
  <2> QED BY <2>1, <2>2 DEF server
<1>2. ASSUME NEW code \in Responses, Respond(code) PROVE PeerInv'
  <2>1. s2c' \subseteq s2c \cup {code} /\ UNCHANGED <<offers, c2s>>
    BY <1>2 DEF Respond, Reaches
  <2>2. CASE nist_send_provisional(code)
    BY <1>2, <2>1, <2>2, CodeFacts DEF Respond, nist_send_provisional
  <2>3. CASE nist_set_completed(code)
    BY <1>2, <2>1, <2>3, CodeFacts DEF Respond, nist_set_completed
  <2> QED BY <1>2, <2>2, <2>3 DEF Respond
<1>3. CASE ReceiveRequest
  <2>1. c2s' \subseteq c2s /\ UNCHANGED given
    BY <1>3 DEF ReceiveRequest, AfterDelivery
  <2>2. CASE nist_new
    <3>1. offers' \in 0..MaxOffers
      BY <2>2, BoundsAssumption DEF nist_new
    <3> QED BY <2>1, <2>2, <3>1, CodeFacts DEF nist_new
  <2>3. CASE nist_on_request_retransmission
    BY <2>1, <2>3 DEF nist_on_request_retransmission
  <2> QED BY <1>3, <2>2, <2>3 DEF ReceiveRequest
<1>4. CASE nist_on_timer_J
  BY <1>4 DEF nist_on_timer_J
<1>5. CASE LoseRequest \/ \E code \in Responses : LoseResponse(code)
  BY <1>5 DEF LoseRequest, LoseResponse, server
<1>6. CASE UNCHANGED vars
  BY <1>6 DEF vars
<1> QED
  BY <1>1, <1>2, <1>3, <1>4, <1>5, <1>6 DEF Next, Step, ClientStep

\* ... hence they always hold.
LEMMA PeerInvHolds == Spec => []PeerInv
<1>1. Init => PeerInv
  BY BoundsAssumption, CodeFacts
     DEF Init, PeerInv, PeerTypes, HasResponse, SentWasGiven, Waiting
<1>2. PeerInv /\ ClientInv /\ [Next]_vars => PeerInv'
  BY PeerInvStep DEF ClientInv
<1> QED BY <1>1, <1>2, ClientInvHolds, PTL DEF Spec

\* Every variable keeps its type.  That the notices and the reports stay
\* within their bounds takes NoticesAreBounded and ReportsAreCounted.
THEOREM TypeCorrect == Spec => []TypeOK
<1>1. ClientInv /\ PeerInv => TypeOK
  <2> SUFFICES ASSUME ClientInv, PeerInv PROVE TypeOK
    OBVIOUS
  <2>1. notices \in 0..(MaxNotices + 2) /\ reports \in 0..(MaxNotices + 4)
    BY BoundsAssumption
       DEF ClientInv, CounterTypes, NoticesAreBounded, ReportsAreCounted
  <2> QED
    BY <2>1 DEF ClientInv, PeerInv, StateTypes, CounterTypes, PeerTypes, TypeOK
<1> QED BY <1>1, ClientInvHolds, PeerInvHolds, PTL

-----------------------------------------------------------------------------
(* One offer and one answer, over UDP with punctual clocks and network.    *)

\* Nothing reaches the server before the request is sent, and when its
\* transaction is over no copy of the request is left or will be sent.
RequestIsOver ==
    /\ "J" \in nistTimers => nist = "COMPLETED"
    /\ nict = "INIT" => nist = "NONE" /\ c2s = {}
    /\ Punctual /\ ~Reliable /\ nist = "TERMINATED"
            => nict \notin Waiting /\ c2s = {}

\* The one server transaction and its answer.
OneAnswer ==
    Punctual /\ ~Reliable =>
        /\ offers = IF nist = "NONE" THEN 0 ELSE 1
        /\ nist \in {"NONE"} \cup Waiting => given = {}
        /\ given # {} => \E code \in Final : given = {code}

\* What the client may do to the request and to its own state.
LEMMA ClientRequest ==
    ASSUME ClientStep, CounterTypes, NoticesAreBounded
    PROVE  /\ UNCHANGED server
           /\ nict' = "INIT" => nict = "INIT" /\ c2s' \subseteq c2s
           /\ nict' \in Waiting => nict \in {"INIT"} \cup Waiting
           /\ c2s' \subseteq c2s \/ nict \in {"INIT"} \cup Waiting
<1> USE DEF Waiting, nict_send_request, nict_terminate, client, server
<1>1. CASE SendRequest
  BY <1>1 DEF SendRequest, SendRequestNoChannel, SendRequestWaiting,
              SendRequestReady
<1>2. ASSUME NEW code \in Responses, ReceiveResponse(code)
      PROVE  /\ UNCHANGED <<server, c2s>>
             /\ nict' # "INIT" \/ nict = "INIT"
             /\ nict' \in Waiting => nict \in Waiting
  BY <1>2 DEF ReceiveResponse, nict_on_response_early, nict_set_completed,
              nict_on_response_ignored
<1>3. CASE nict_on_timer_E \/ nict_on_timer_K
  BY <1>3 DEF nict_on_timer_E, nict_on_timer_K
<1>4. CASE nict_on_timer_F
  <2>1. CASE notify_timeout_to_channel
    <3>1. FailureLeads(nictTimers \ {"F"})
      BY <2>1, FailureEffect DEF notify_timeout_to_channel
    <3> QED
      BY <1>4, <2>1, <3>1
         DEF nict_on_timer_F, notify_timeout_to_channel, FailureLeads
  <2>2. CASE notify_timeout_to_listener \/ nict \notin Waiting
    BY <1>4, <2>2
       DEF nict_on_timer_F, notify_timeout_to_listener,
           notify_timeout_to_channel
  <2> QED BY <1>4, <2>1, <2>2 DEF nict_on_timer_F
<1>5. CASE ChannelResolved
  BY <1>5 DEF ChannelResolved, connect, channel_ready_notified
<1>6. CASE ResolutionFails \/ ConnectionMade
  BY <1>6 DEF ResolutionFails, ConnectionMade, channel_ready_notified
<1>7. CASE ConnectionFails \/ ChannelFails
  <2>1. FailureLeads(nictTimers) /\ UNCHANGED server
    BY <1>7, FailureEffect DEF ConnectionFails, ChannelFails
  <2> QED BY <2>1 DEF FailureLeads
<1>8. CASE ChannelDisconnected \/ DeferredNotice
  BY <1>8 DEF ChannelDisconnected, DeferredNotice, channel_error_notified,
              ConnectionLost
<1> QED
  BY <1>1, <1>2, <1>3, <1>4, <1>5, <1>6, <1>7, <1>8 DEF ClientStep

\* With punctual clocks no request is left when its server transaction is over.
LEMMA RequestIsOverStep ==
    ASSUME RequestIsOver, ClientInv, PeerInv, [Next]_vars
    PROVE  RequestIsOver'
<1> USE DEF RequestIsOver
<1>0. Reliable' = Reliable
  BY OneSideSteps DEF Reliable
<1>1. CASE ClientStep
  BY <1>0, <1>1, ClientRequest DEF ClientInv, server
<1>2. ASSUME NEW code \in Responses, Respond(code) PROVE RequestIsOver'
  BY <1>0, <1>2 DEF Respond, nist_send_provisional, nist_set_completed,
                    client, Waiting, PeerInv, PeerTypes
<1>3. CASE ReceiveRequest
  BY <1>0, <1>3 DEF ReceiveRequest, AfterDelivery, nist_new,
                    nist_on_request_retransmission, Matched, client
<1>4. CASE nist_on_timer_J
  BY <1>0, <1>4 DEF nist_on_timer_J, client
<1>5. CASE LoseRequest \/ \E code \in Responses : LoseResponse(code)
  BY <1>0, <1>5 DEF LoseRequest, LoseResponse, client, server
<1>6. CASE UNCHANGED vars
  BY <1>0, <1>6 DEF vars
<1> QED
  BY <1>1, <1>2, <1>3, <1>4, <1>5, <1>6 DEF Next, Step, ClientStep

\* With punctual clocks one final answer is given.
LEMMA OneAnswerStep ==
    ASSUME OneAnswer, RequestIsOver, PeerInv, [Next]_vars PROVE OneAnswer'
<1> SUFFICES ASSUME Punctual, ~Reliable PROVE OneAnswer'
  BY OneSideSteps DEF OneAnswer, Reliable
<1> USE DEF OneAnswer, Waiting
<1>1. ASSUME NEW code \in Responses, Respond(code) PROVE OneAnswer'
  BY <1>1, CodeFacts DEF Respond, nist_send_provisional, nist_set_completed
<1>2. CASE ReceiveRequest
  BY <1>2 DEF ReceiveRequest, RequestIsOver, nist_new, Matched,
              nist_on_request_retransmission
<1>3. CASE nist_on_timer_J
  BY <1>3 DEF nist_on_timer_J, RequestIsOver
<1>4. CASE UNCHANGED server
  BY <1>4 DEF server
<1> QED BY <1>1, <1>2, <1>3, <1>4, OneSideSteps DEF ServerStep

\* Over UDP, with punctual clocks and network, the receiving listener is
\* offered the request once and gives one final answer, whatever is lost,
\* repeated or sent again, on whichever address the channel goes on.
THEOREM OneOffer == Spec => []OfferedOnce
<1>1. Init => RequestIsOver /\ OneAnswer
  BY DEF Init, RequestIsOver, OneAnswer
<1>2. RequestIsOver /\ ClientInv /\ PeerInv /\ [Next]_vars => RequestIsOver'
  BY RequestIsOverStep
<1>3. OneAnswer /\ RequestIsOver /\ PeerInv /\ [Next]_vars => OneAnswer'
  BY OneAnswerStep
<1>4. OneAnswer => OfferedOnce
  <2> SUFFICES ASSUME OneAnswer, Punctual, ~Reliable
               PROVE  offers <= 1 /\ Cardinality(given) <= 1
    BY DEF OfferedOnce
  <2>1. offers <= 1
    BY DEF OneAnswer
  <2>2. CASE given = {}
    BY <2>1, <2>2, FS_EmptySet
  <2>3. CASE given # {}
    <3>1. PICK code \in Final : given = {code}
      BY <2>3 DEF OneAnswer
    <3>2. Cardinality(given) = 1
      BY <3>1, FS_Singleton
    <3> QED BY <2>1, <3>2
  <2> QED BY <2>2, <2>3
<1> QED
  BY <1>1, <1>2, <1>3, <1>4, ClientInvHolds, PeerInvHolds, PTL DEF Spec

-----------------------------------------------------------------------------
(* The transaction implements Exchange.                                    *)

\* Over TCP nothing is heard after a timeout was held back until the error
\* of the channel blamed for it ends the transaction, and then the timeout
\* is what is told last.
BlamedChannel ==
    timedOut =>
        /\ Register /\ nict # "INIT"
        /\ chan \in {"STALLED", "ERROR", "DISCONNECTED"}
        /\ outcome \in {NotHeard, TimedOut}

\* A REGISTER goes over a connection.
RegisterOverTcp == Register => Reliable

\* What the listener may be told, once.
Told ==
    \/ UNCHANGED outcome
    \/ outcome = NotHeard /\ outcome' \in GaveUp \cup given

\* A step of the client tells an outcome that was given or a failure, once.
LEMMA ClientTells ==
    ASSUME BlamedChannel, RegisterOverTcp, ClientInv, PeerInv,
           ClientStep, UNCHANGED setting
    PROVE  BlamedChannel' /\ Told
<1> USE DEF BlamedChannel, Told, ClientInv, ReportsAreCounted, Register,
            RegisterOverTcp, nict_terminate, client, channel
<1>1. CASE SendRequest
  BY <1>1 DEF SendRequest, SendRequestNoChannel, SendRequestWaiting,
              SendRequestReady, nict_send_request, GaveUp
<1>2. ASSUME NEW code \in Responses, ReceiveResponse(code)
      PROVE  BlamedChannel' /\ Told
  <2>1. code \in s2c /\ (Reliable => chan = "READY")
        /\ UNCHANGED <<timedOut, chan>>
    BY <1>2 DEF ReceiveResponse, ResponseDeliverable
  <2>2. ~timedOut
    BY <2>1
  <2>3. code \in Final => code \in given
    BY <2>1 DEF PeerInv, SentWasGiven
  <2>4. CASE nict_on_response_early(code) \/ nict_on_response_ignored(code)
    BY <2>1, <2>2, <2>4
       DEF nict_on_response_early, nict_on_response_ignored
  <2>5. CASE nict_set_completed(code)
    BY <2>1, <2>2, <2>3, <2>5, CodeFacts DEF nict_set_completed
  <2> QED BY <1>2, <2>4, <2>5 DEF ReceiveResponse
<1>3. CASE nict_on_timer_E \/ nict_on_timer_K
  BY <1>3 DEF nict_on_timer_E, nict_on_timer_K
<1>4. CASE nict_on_timer_F
  <2>1. CASE nict \in Waiting /\ notify_timeout_to_channel
    <3>1. FailureLeads(nictTimers \ {"F"})
      BY <2>1, FailureEffect DEF notify_timeout_to_channel
    <3>2. Reliable /\ nict # "INIT" /\ UNCHANGED outcome /\ nict' = nict
      BY <2>1, <3>1 DEF notify_timeout_to_channel, FailureLeads
    <3>3. chan' \in {"STALLED", "ERROR"} /\ outcome = NotHeard
      BY <2>1, <3>1, <3>2 DEF FailureLeads
    <3> QED BY <2>1, <3>2, <3>3 DEF notify_timeout_to_channel
  <2>2. CASE nict \in Waiting /\ notify_timeout_to_listener
    BY <2>2 DEF notify_timeout_to_listener, GaveUp
  <2>3. CASE nict \notin Waiting
    BY <1>4, <2>3 DEF nict_on_timer_F
  <2> QED BY <1>4, <2>1, <2>2, <2>3 DEF nict_on_timer_F
<1>5. CASE ChannelResolved \/ ResolutionFails \/ ConnectionMade
  <2>1. chan \notin {"STALLED", "ERROR", "DISCONNECTED"}
    BY <1>5 DEF ChannelResolved, ResolutionFails, ConnectionMade
  <2> QED BY <1>5, <2>1 DEF ChannelResolved, ResolutionFails, ConnectionMade
<1>6. CASE ConnectionFails \/ ChannelFails
  <2>1. UNCHANGED <<timedOut, outcome>>
    BY <1>6 DEF ConnectionFails, ChannelFails
  <2>2. timedOut => FALSE
    BY <1>6 DEF ConnectionFails, ChannelFails
  <2> QED BY <2>1, <2>2
<1>7. CASE ChannelDisconnected \/ DeferredNotice
  BY <1>7 DEF ChannelDisconnected, DeferredNotice, channel_error_notified,
              GaveUp
<1> QED BY <1>1, <1>2, <1>3, <1>4, <1>5, <1>6, <1>7 DEF ClientStep

\* Every step is a step of Exchange or leaves it alone.
LEMMA ExchangeStep ==
    ASSUME BlamedChannel, RegisterOverTcp, ClientInv, PeerInv,
           [Next]_vars
    PROVE  /\ BlamedChannel' /\ RegisterOverTcp'
           /\ [Abstract!Next]_(Abstract!vars)
<1> USE DEF Abstract!Next, Abstract!vars, Abstract!Learn, Abstract!GiveUp,
            Abstract!Answer
<1>0. UNCHANGED setting /\ RegisterOverTcp'
  BY OneSideSteps DEF RegisterOverTcp, Register, Reliable
<1>1. CASE ClientStep
  <2>1. BlamedChannel' /\ Told
    BY <1>0, <1>1, ClientTells
  <2>2. UNCHANGED given /\ given \subseteq Final
    BY <1>1, ClientRequest DEF ClientInv, PeerInv, PeerTypes, server
  <2> QED BY <1>0, <2>1, <2>2 DEF Told
<1>2. CASE UNCHANGED <<channel, client>>
  <2>1. BlamedChannel' /\ UNCHANGED outcome
    BY <1>0, <1>2 DEF BlamedChannel, Register, channel, client
  <2>2. UNCHANGED given \/ \E code \in Final : given' = given \cup {code}
    BY OneSideSteps, CodeFacts
       DEF ServerStep, Respond, nist_send_provisional, nist_set_completed,
           ReceiveRequest, nist_on_timer_J, server
  <2> QED BY <1>0, <2>1, <2>2
<1> QED BY <1>1, <1>2, OneSideSteps

\* Unless it is a REGISTER over UDP, what the sender's listener is told is
\* one answer of the receiving listener or one report of its own stack, and
\* it is never told otherwise, for all behaviours of transactions, channel
\* and network.  (Over UDP a late answer can come between the error of a
\* blamed channel and its notice, and the timeout is told all the same.)
THEOREM Refinement == Spec /\ RegisterOverTcp => ImplementsExchange
<1>1. Init => BlamedChannel /\ Abstract!Init
  BY DEF Init, BlamedChannel, Abstract!Init
<1>2. BlamedChannel /\ RegisterOverTcp /\ ClientInv /\ PeerInv /\ [Next]_vars
        => /\ BlamedChannel' /\ RegisterOverTcp'
           /\ [Abstract!Next]_(Abstract!vars)
  BY ExchangeStep
<1> QED
  BY <1>1, <1>2, ClientInvHolds, PeerInvHolds, PTL
     DEF Spec, ImplementsExchange, Abstract!Spec
=============================================================================
