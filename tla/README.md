# Verification of the call engine of linphone-android

This directory holds TLA+ models of the SIP engine under linphone-android, of
the call control on top of it and of two parts of its media path, the TLC
configurations that check them and TLAPS proofs of what matters most.
Paths below are relative to the repository; `belle-sip/` stands for
`src/submodules/belle-sip/` and `coreapi/` for
`src/submodules/linphone/coreapi/`, `mediastreamer2/` and `oRTP/` for the
directories of these names under `src/submodules/linphone/`.

## 1. The system

linphone-android is an Android SIP phone. Its own Java (`src/src/org/linphone`)
is a user interface over JNI; what decides whether a call is set up, kept and
ended is C:

| part | where | state it keeps | operations |
|---|---|---|---|
| main loop | `belle-sip/src/belle_sip_loop.c` | list of sources, batch of an iteration, `cancelled`/`expired`/`expire_ms` per source, references | add, remove, cancel, set timeout, do_later, iterate |
| channel | `belle-sip/src/channel.c`, `transports/*.c` | connection state, peer address list, queued messages, deferred error notices, inactivity timer | prepare (resolve, connect), send, read, handle_error (next address), close |
| transactions | `transaction.c`, `ict.c`, `ist.c`, `nict.c`, `nist.c` | RFC 3261 state, timers A to M, last response, `timed_out` | send request/response, receive response, match and repeat, timers, channel events, create CANCEL |
| provider | `provider.c` | lists of transactions, dialogs, channels | dispatch of requests and responses, matching, deferred notice of a deleted dialog |
| dialog | `dialog.c` | state and previous state, local and remote CSeq, `last_transaction`, `needs_ack`, last outgoing INVITE and ACK, queue of requests, 200 Ok timers | establish, update, create request/ACK, queue, handle 200 and ACK, delete |
| refresher | `refresher.c` | started/stopped, timer, current transaction, target expiry, authentication failures | start, stop, refresh, retry, response, timeout, io error, timer |
| SAL dispatch | `coreapi/bellesip_sal/sal_impl.c` | none of its own | find or create the operation of a request or response; drop what comes for one that is over |
| call operation | `coreapi/bellesip_sal/sal_op_call.c` | `SalOp.state`, dialog, pending client and server transaction, released flag | call, ring, accept, decline, update, DTMF, terminate and the five callbacks |
| other operations | `sal_op_registration.c`, `sal_op_events.c`, `sal_op_message.c`, ... | one transaction or one refresher | register, subscribe, notify, message |
| call state machine | `coreapi/callbacks.c`, `linphonecall.c`, `linphonecore.c` | `LinphoneCallState`, current call, media streams | all user commands and SAL callbacks |
| offer/answer | `coreapi/offeranswer.c` | none | match codecs and directions |
| event queue | `mediastreamer2/src/base/eventqueue.c` | ring buffer, read and write pointers, free room | write (tickers), pump and skip (main thread) |
| media engine | `mediastreamer2/src` | filter graph, ticker thread, queues, ICE check lists | process, ICE |
| RTP | `oRTP/src` | SSRC in force, receive queue, last timestamp, jitter control, scheduler | send, receive and parse, deliver, resynchronise |

**How they interact.** The SIP stack is single threaded: everything in it runs
as a callback of the main loop, or as a call of the application between two
iterations (`linphone_core_iterate`). A channel hands messages to the provider;
the provider finds the transaction and the dialog and calls them; they call the
listener, which is the SAL; the SAL calls the core (`SalCallbacks`), and from
inside those callbacks the core calls back down: it answers, acknowledges,
hangs up. Three notifications are put off to a later turn of the loop: the
error of a channel, the end of a dialog, and the release of an operation. The
media streams run in ticker threads; what they notify comes back to the main
thread through the event queue.

**What is hard.** The signalling has no data race, for it has one thread, but

* the two ends and the network interleave, over UDP with loss, repetition and
  reordering;
* user and network act between the moment something happens and its deferred
  notice (channel error, dialog end, operation release);
* one piece of state serves several purposes: `needs_ack` for both directions,
  `last_transaction` for the last request sent *or answered*, `cancelled` for a
  source that was removed and one that must not be polled;
* timers race answers, errors race retries over other addresses;
* a source may be removed, set or released by an earlier callback of the same
  iteration;
* the state of a call is changed by the user, its peer and the other calls, and
  remembered in three places (`state`, `prevstate`, the local description);
* the event queue is written by tickers and read by the main thread with a lock
  on one counter only;
* sequence numbers and timestamps wrap, come late and from new sources.

**What makes each part correct**

* transactions: one verdict, told once; nothing waits without a timer; a
  request is offered once however often it is repeated;
* dialog: every 2xx gets its ACK or a BYE; queued requests leave; the end of
  one dialog ends the other; crossing re-INVITEs are not both accepted; the
  stack does not hang up behind the user;
* call operation: a call that was given up is not connected by what was under
  way; the verdict is heard; it is released, and nothing is called afterwards;
* main loop: exact references, no callback for what was given up, nothing
  early, deferred tasks in order, what is due is served;
* refresher: a registration to keep always has a timer or a transaction that
  will say more; one given up stays given up; after failures it comes back;
* call state machine: one call has the sound card; a call that is over or on
  hold is silent whatever comes late;
* event queue: events are delivered once, in order, before they are overwritten;
* RTP: one source at a time, in the order of sending, across wraps;
* offer/answer, ICE, media graph: not modelled (section 5).

`PROJECT.json` lists every component, the ones left out included, and 40
hazards at the line where they bite.

## 2. The modules

| module | models | role |
|---|---|---|
| `Exchange` | - | abstract: answers are given, one outcome is learnt, never changed |
| `InviteTransaction` | `ict.c`, `ist.c`, `transaction.c`, matching in `provider.c` | an INVITE between two ends; implements `Exchange` |
| `NonInviteTransaction` | `nict.c`, `nist.c`, `transaction.c`, `channel.c` | any other request, with the channel's retries; implements `Exchange` |
| `CallSetup` | `sal_op_call.c`, `sal_impl.c` with what `dialog.c`, `transaction.c`, `provider.c` do until the call is established | a call from INVITE to acceptance, refusal, CANCEL or early BYE |
| `Dialog` | `dialog.c` with `sal_op_call.c`, `transaction.c`, `provider.c` | an established call: re-INVITE, INFO, BYE |
| `DoLater` | - | abstract: tasks run once, in the order asked |
| `MainLoop` | `belle_sip_loop.c`, reference counting of `belle_sip_object.c` for sources | the loop; implements `DoLater` |
| `Refresher` | `refresher.c`, with `sal_op_registration.c`, `proxy.c`, `channel.c` and `provider.c` around it | a registration kept alive, its registrar included |
| `CallControl` | `callbacks.c`, `linphonecall.c`, `linphonecore.c` with the directions of `offeranswer.c` | the calls of a core: states, current call, streams, sound card |
| `EventQueue` | `eventqueue.c` | the ring buffer between tickers and main thread |
| `RtpReceiver` | `rtpparse.c`, the queue of `rtpsession.c`, comparisons of `rtp.h`, signals of `mediastream.c`, `msrtp.c` | the receiving half of an RTP session |
| `InviteTransactionProofs`, `NonInviteTransactionProofs`, `CallSetupProofs`, `DialogProofs`, `MainLoopProofs`, `RefresherProofs`, `CallControlProofs`, `EventQueueProofs` | - | theorems about the module of that name (section 4) |
| `MCInvite`, `MCNonInvite`, `MCCallSetup`, `MCDialog`, `MCMainLoop`, `MCRefresher`, `MCCallControl`, `MCEventQueue`, `MCRtpReceiver` | - | instances for TLC |

They stack: `MainLoop` shows that deferred tasks run once and in order, which
is what the deferred notices of the other modules assume; the transaction
modules show that a request reaches the other end at most once, which is what
`CallSetup`, `Dialog` and `Refresher` assume of the messages they exchange
(there one message stands for all its repetitions). `CallSetup` and `Dialog`
say which callbacks a call operation gives its core and when, which is what
`CallControl` lets happen: it keeps of the operation a phase (not started,
inviting, early, offered, confirmed, dead, gone) and the re-INVITEs under way.

### Correspondence with the code

One action is one callback run to its end, or one call of the application.
Everything the callback calls is inside the action. `map` in `PROJECT.json`
gives the lines of each definition.

*InviteTransaction.* Variables are `base.state`, the set of armed timers,
`last_response`, the channel state and the messages under way; `outcome` is
what the listener was told last and `given` the final codes it gave. One action
per timer, message, channel event and call. Armed timers have no duration, save
that `Punctual` says H, I, L (J) outlast what SIP assumes they outlast. Channel
states between INIT and READY are one state here, PENDING; they are told apart
in `NonInviteTransaction`.

*NonInviteTransaction.* The settings are any method over UDP, any over TCP, and
REGISTER over TCP, whose timeout may be handed to its channel. Also keeps the list of addresses left, the deferred
error notices and the states of the channel. STALLED is CONNECTING with a source
that the loop no longer serves (see the finding `LoopRetry`). UDP goes from
RES_IN_PROGRESS to READY in one call; TCP waits.

*CallSetup.* One record per end holds the state of its INVITE transaction, of
the CANCEL's and the BYEs', the dialog, the operation and what the application
was told; `net` the messages under way. Handlers are operators from record to
record, named as the functions they model; `Run` is a callback of an end.
`broken` says that the connection was lost, `late` that a callback came after
`call_released`. What a later message would only be dropped for is forgotten
over UDP, which changes no behaviour and keeps the state space small.

*Dialog.* The same construction, starting while "B" is rung. The setting says
what the two applications do: send INFO (queued), send re-INVITEs, answer
re-INVITEs at once or later, wait for the end of their own re-INVITE or not,
hang up or not; `requests` bounds what they ask, `copies` the retransmissions of
the 200 Ok. `misplaced` says that a re-INVITE was taken for a new call.

*Settings.* `NonInviteTransaction`, `Dialog`, `CallControl`, `EventQueue` and
`RtpReceiver` have a constant set of settings (transport, habits of the users)
of which the initial state takes one that no step changes; `CallSetup` has
`ordered`, TCP or UDP, in the same way.

*MainLoop.* `list` is `ml->sources`, `batch` the local `to_be_notified` from
its next element on, `current` the source whose callback runs. `left` is
`expire_ms` minus the clock. Between the poll and the end of an iteration, and
between iterations, any source may be created, removed, cancelled, released,
set or added again.

*Refresher.* `ua` holds the refresher, its transaction and the channel to the
registrar. A REGISTER or response carries its age, counted back from the last
REGISTER of the refresher, so that what is late is late for ever while the CSeqs
stay few. All delays (90% of the expiry, 500 ms, 2 s, `retry_after`) are "the
timer is armed, it may ring". The registrar takes requests in the order of
their CSeq only, finds one expiry too brief, may refuse, challenge, and forget.

*CallControl.* `core` holds all calls, the list and the current call. A command
or a callback is one operator from core to core, named as the function it is, and
`set_state` is `linphone_call_set_state` with what `Released`, `End` and `Error`
do to the core. Of a description only the direction of its audio is kept.
A call that is gone may be made again in its place. An ACK reaches `call_ack`
whatever the user has done meanwhile, for a hang-up leaves the dialog confirmed
(`sal_op_call.c:414`, `:736`). The 491 for a re-INVITE that meets a pending one is
part of `Dialog`; here `Updating` waits for quiet signalling, and behind our BYE
comes only with the habit `collide`.

*EventQueue.* A cell is the smallest length of an event. `write_event` is three
steps (`Place`, `Store`, `Commit`), reading two, for the lock covers `freeroom`
only. `posted` is the history of what should come; `gap` and `raced` record the
wrap before the end and the race, after which the module promises nothing until
the queue is emptied.

*RtpReceiver.* A packet carries its place among those of its source and its
unwrapped time, from which the numbers on the wire are made; only the property
looks at them directly. Packets under way may be received again and again or
never. Which packets are due at a turn depends on averages of the jitter
control and is left open.

## 3. What is checked

| run | question | states | answer |
|---|---|---|---|
| `InviteUdp` | an INVITE over lossy, repeating, reordering UDP | 2 400 | timers complete, ACK only of refusals, one verdict, offered once, refines `Exchange`, losses survived |
| `NonInvite` | another request over UDP, over TCP, and a REGISTER over TCP whose timeout goes to the channel; channel failing, second address | 2 400 | one outcome (a REGISTER that both failed and timed out may tell both), offered once, refines `Exchange`, both transactions end |
| `CallSetup` | a call's early phase over TCP, connection lost at any time, and over UDP with loss, reordering, timeouts | 613 000 | given-up calls are never connected; no callback for a released operation; while a TCP connection lasts the ends agree on what became of the call |
| `Dialog` | an established call: busy users and a repeated 200 Ok over TCP, careful users over TCP, late answers over UDP | 974 000 | ACK timers and ACK invariants; for careful users no drop behind their back; no crossed offers, no phantom call |
| `DialogLive` | one request per user over TCP, "B" answers re-INVITEs later | 16 000 | both ends end, operations are released, queues drain |
| `MainLoop` | timer, socket that may be added again, two tasks | 480 000 | references, silence, punctuality, order, service |
| `Refresher` | a registration, four faults, two calls of the application | 182 000 | never forgotten, stays unregistered, comes back |
| `EventQueue` | two tickers and a reader, four cells, events of one and two | 791 000 | delivered once and in order until a wrap before the end or a race |
| `CallControl` | two calls with regular, hasty, crossing, refusing and offerless users and peers | 1 910 000 (symmetry) | one call has the sound card; over and held calls are silent, each under the habits named in the property |
| `RtpReceiver` | two sources, wraps and jumps, loss, repetition, delay | 229 000 | one source, in the order sent, between two synchronisations |
| `DialogHangUp` | may the user always hang up? | - | no: finding 1 |
| `LoopRetry` | is a source that is added again served? | - | no: finding 2 |

**Bounds and why they are enough.** Codes: one provisional, two of each final
kind, because the code distinguishes only the class, and two are needed to see
an answer change. One INVITE and two server transactions (`MaxOffers`) are what
a second offer takes. One spare address and two pending error notices make the
retry, its failure and a notice that finds another state. Two requests per user
let each request meet one of the other end, one that is queued and one refused;
three careful re-INVITEs let one end start again after a collision. One copy
of the 200 Ok can arrive before, between and after everything else. One timer,
one socket and two tasks make a batch in which an earlier callback acts on every
kind of later source and two tasks can be swapped; a delay of one and lateness
of one tell early, due and late apart. `CallSetup` has one call and no bound that
is reached: an end sends at most four BYEs. Four faults let a registration be
challenged, refused for a while, lose its channel and its binding in any order,
with a call of the application before and after; answers older than the last
two REGISTERs are dropped by the same test. Two calls are what the sound card
is fought over, a third would be one of them to `linphone_core_preempt_sound_resources`,
which looks at the current call only. Four cells with events of one and two
make wraps at the end and before it, with two events between reader and writer.
Three packets of each of two sources with a queue of two wrap, jump, overflow
and come late by two; the ring of sequence numbers is more than twice what is
under way, as 2^16 is.

**Fairness and why the code justifies it.** The main loop polls all sources,
notifies those that are due and runs deferred tasks (`DueIsServed`,
`TasksInOrder`), hence weak fairness of timers, of reading a connection and of
deferred callbacks. Names get resolved or not, connections get made or refused;
a channel that nobody serves is closed by the inactivity timer every channel
has. UDP keeps no message for ever (the fair loss of the request). Nothing else
is fair over UDP: a message may never arrive. The registrar answers, a channel
that is connecting gets connected and a listening point that was closed for a
change of network is opened again (`Refresher`), for faults are bounded there. Of users, fairness is assumed of
sending the request they prepared and of answering what they were offered in
the transaction modules and `Dialog`, and of nothing in `CallSetup`, where a
call may ring for ever; its liveness is stated, and its fairness assumed, over a
TCP connection while that lasts. `CallControl`, `EventQueue` and `RtpReceiver`
state safety only.

### Findings

1. `DialogHangUp`: after `belle_sip_dialog_delete` the operation stays alive
   until two deferred callbacks have run. A hang-up in between meets the
   TERMINATED dialog, and `sal_call_terminate` ends in `ms_fatal`
   (`sal_op_call.c:768`), which aborts.
2. `LoopRetry`: `belle_sip_main_loop_remove_source` sets `cancelled` and nothing
   resets it, so the source a TCP channel adds again for its next address
   (`stream_channel.c:142`) is never polled: the second address of a name
   (`channel.c:536`) is never reached over TCP.

Behaviours met while modelling that no run states, for they are limits of what
the code attempts rather than of a promise it makes. They are why a property
has the premise it has.

Signalling:

* a request that fails while there is a dialog is left alone, "dialog will
  terminated shortly" (`sal_op_call.c:112`, `:285`); after a lost CANCEL answer,
  487 or BYE answer nothing terminates it, and the operation stays;
* a REGISTER whose timeout meets a channel that is in ERROR already, with a
  second address left, is neither ended nor reported over UDP; and one over UDP
  may tell a timeout after the answer, hence `NonInvite` has REGISTER over TCP;
* over UDP an ACK that a refused re-INVITE overtakes is taken for a
  retransmission (`dialog.c:756`), and a lost BYE leaves the dialog confirmed;
* a 200 Ok repeated while a re-INVITE is pending can lead to a BYE
  (`dialog.c:725`), hence `copies` is 0 for `Careful` users; so can a 491 that
  overwrites `last_transaction` when INFO is sent too, or a re-INVITE sent while
  one of the other end is offered and unanswered, hence they send no INFO and
  defer no answers.

Registration:

* "first remove timer if any" (`refresher.c:287`) has no code behind it: two
  REGISTERs may be pending, and the transaction that was superseded runs on;
* `sal_op_release` only stops the refresher; a 401 or 503 for a REGISTER still
  pending is then submitted again or arms the timer (not modelled);
* a refresh asked of a stopped refresher is sent once and never repeated;
* `sal_op_authenticate` ignores that the REGISTER could not be sent; the io error
  of an unregistration in PROCEEDING is not reported.

Call control (`SoundIsExclusive` fails under each of hasty, collide, refuse,
busy, bare and mute alone; `StaysSilent` under refuse, bare and collide for calls
that are over, under collide, busy and mute for held ones):

* an INVITE without SDP is accepted and the user hangs up before the ACK:
  `terminate_call` (`linphonecore.c:3285`) leaves `media_pending` TRUE and the
  dialog confirmed, so the late ACK, which answers our offer, makes `call_ack`
  (`callbacks.c:431`) start the streams of a call in End, and nothing stops them.
  It needs no loss and happens over TCP too, though after a BYE one
  must "stop sending or listening for media" (`dialog.c:388`);
* a re-INVITE behind our BYE gets 491, whose transaction takes the place of the
  BYE in `last_transaction` (`dialog.c:335`), so that a second one is accepted by
  the default case of `call_updating` (`callbacks.c:517`), which starts the streams;
  the BYE must have been lost, or both re-INVITEs be under way before it;

* pausing a call that is not the current one leaves no current call though
  another holds the card; preemption fails silently when the current call is
  in the middle of a change, and the other call starts all the same;
* `_linphone_core_pause_call` sets Pausing and stops the streams even if the
  re-INVITE could not be sent; resume preempts the card before it may fail;
* a 491 restores `prevstate`, which a refused change of state may have
  overwritten, and not the streams; a 488 to a re-INVITE makes the call Error
  while its dialog stays, in which a later re-INVITE starts streams again;
* `linphone_core_update_call` does not look at the state of the call, and stays
  Updating when nothing was sent;
* a re-INVITE without an offer on a Paused call makes it StreamsRunning; an
  outgoing call answered recvonly is "Paused" with a local sendrecv;
* a call ended in OutgoingInit loses its operation and is never Released;
* `call_failure` reads `call->referer` before it looks whether there is a call
  (`callbacks.c:571`).

Media:

* `freeroom` does not count the cells left at a wrap and `endptr` never returns
  to `lim`: after a wrap before the very end a reader that has caught up reads
  what is no event (`eventqueue.c:49`, `:81`); `ms_event_queue_skip` takes no
  lock and discards the events of other calls, and when called from a callback
  of the pump leaves `rptr` and `freeroom` wrong;
* the threshold 0 that linphone sets lets one late packet of the old source take
  the session back, in spite of "must not happen if we still receive ssrc from
  the initial source" (`rtpparse.c:161`); a repeat of the packet delivered last
  is delivered again; a jump before the first delivery is not noticed;
* a late packet from before the wrap of sequence numbers makes the extended
  number count the cycle twice (`rtpparse.c:182`), and the jitter control takes
  the difference of timestamps without their wrap (`jitterctl.c:112`).

## 4. What is proved

TLC checks the small instances of section 3; the theorems below hold for every
value of the constants: any number of calls, sources, tickers, settings, codes
and events, any size of buffer, any bound. Of each module only the assumptions
on its own constants are used, which say that bounds are natural numbers, flags
are Boolean, codes are in their ranges and sets of names are disjoint. TLC
evaluates them on every run. Two ask for more: `Calls` of `CallControl` and
`Writers` of `EventQueue` are finite, for their properties count them.

Every inductive invariant below also holds of the instance that TLC checks, save
that of `EventQueue`, which quantifies over layouts TLC cannot enumerate. Proofs have the same layout everywhere: lemmas on the functions a
callback calls, one on each action, then the step and the theorems.

| module | theorem | states |
|---|---|---|
| `InviteTransactionProofs` (485 obligations) | `TypeCorrect` | `[]TypeOK` |
| | `WaitsAreTimed` | `[]EveryWaitIsTimed` |
| | `AckIsOfARefusal` | `[]AckMeansRefused` |
| | `OneOffer`, `RefusalIsOnlyVerdict` | `[]OfferedOnce`, `[]NoMixedVerdict`, with punctual clocks |
| | `Refinement` | `Spec => Abstract!Spec` of `Exchange` |
| `NonInviteTransactionProofs` (855) | `TypeCorrect` | `[]TypeOK` |
| | `ReportedOnce` | `[]OneReport` |
| | `OneOffer` | `[]OfferedOnce` |
| | `Refinement` | `Spec /\ RegisterOverTcp => Abstract!Spec` of `Exchange` |
| `CallSetupProofs` (2726) | `TypeCorrect` | `[]TypeOK`, with at most four BYEs of an end |
| | `NoLateCallback` | `[]SilentOnceReleased` |
| | `HangUpHolds` | the action property `HangUpIsFinal` |
| `DialogProofs` (4770) | `TypeCorrect` | `[]TypeOK` |
| | `Acknowledged` | `[]AckedOrHungUp` |
| | `TimersAreStopped` | `[]TimersWaitForAck` |
| | `NoNewCall` | `[]NoPhantomCall` |
| | `NotDropped` | `[]CallIsNotDropped` |
| | `OffersDoNotCross` | `[]NoCrossedOffers`, and the same of the first INVITE |
| `MainLoopProofs` (1888) | `TypeCorrect` | `[]TypeOK` |
| | `Counting` | `[]ReferencesAreCounted` |
| | `Silence` | the action property `RemovedIsSilent` |
| | `Deferred` | `Spec => Later!Spec`, the refinement of `DoLater` |
| `RefresherProofs` (1495) | `TypeCorrect` | `[]TypeOK` |
| | `KeptAlive` | `[]NeverForgotten` |
| | `GoneForGood` | `[]StaysUnregistered` |
| `CallControlProofs` (3423) | `TypeCorrect` | `[]TypeOK`, with the core's list and current call |
| | `HeldStaysSilent` | `[]StaysSilent` |
| | `OneSoundCard` | `[]SoundIsExclusive` |
| `EventQueueProofs` (1330) | `TypeCorrect` | `[]TypeOK` |
| | `InOrderOnce` | `[]DeliveredInOrder` |

**Arguments, and why the invariants are needed**

*InviteTransaction.* `TypeOK` is not inductive: what timer G and a repeated
INVITE send again must be a response. `HasResponse` says that a server
transaction that may repeat has one. The timers are split by side, for a step of
the client leaves those of the server alone and conversely (`OneSideSteps`).
`VerdictInv` says that the outcome agrees with the state of the client, that a
final response under way or stored was given, and that an ACK means a refusal.
With punctual clocks a transaction that is over has no INVITE left to match
(`InviteIsOver`), hence one offer and one verdict. Initial states map to initial
states of `Exchange`, and each step is an Answer, a Learn, a GiveUp or a stutter.

*NonInviteTransaction.* `OneReport` ties the state of the client to its channel,
the notices owed by the channel and the timeout held back: nothing was reported
while the answer is awaited, one thing until the channel is closed, and what may
follow is the timeout, at most once per notice (`ReportsAreCounted`). That needs
`WaitsOnItsChannel` (who waits has a channel that was ready) and
`NoticesAreBounded` (a channel that has not failed owes none). `RequestIsOver` and
`OneAnswer` are as above. The refinement has the premise `RegisterOverTcp`: a
REGISTER over UDP whose timeout is handed to its channel may tell a timeout
after the answer (section 3).

*CallSetup.* A callback is a composition of functions on the record of one end.
`Well(s, d, k)` says that end `s` may stop with the record `d` and still has `k`
BYEs; every function is shown to keep it. `Chances` counts the events that can
still make an end send a BYE, and `sent + Chances` never grows beyond four, which
is why no bound of the model is reached. `Silent` ties `late` to the operation being
Terminated once `released` was heard; `GivenUp` is kept by everything that may
be under way, and is what the hang-up property needs. Between the ends, `Wire` says
that the INVITE is under way once and only before the callee has it.

*Dialog.* `Fine` holds of each end by itself, over TCP and UDP: `needs_ack` and
the 200 Ok timers only in a confirmed dialog (`Waits`), and an outgoing INVITE
that was answered and is not acknowledged means that a BYE was sent (`Acked`).
`TimersWaitForAck` also is about TCP: until the callee answers both ends
are exactly as when it began to ring, the answer is then the first message
to the caller and its ACK the first one to the callee (`Opening`). Hence nothing
changes the CSeq with which `belle_sip_dialog_handle_ack` compares that ACK.

The last three properties of `Dialog` relate both ends to both inboxes. They are
about a disciplined call: over TCP, both ends answer INVITEs at once, nobody
sends INFO, and so nothing is repeated. No end sees why they hold; the
inductive invariant is `InOrder`: `FirstAck` (all of the above) and, in a
disciplined call, `Conversing`. That is, of each end by itself, `Alone`: nothing
waits in its queue, it has sent a BYE only if its user hung up, and one INVITE
at most waits for its final response. Of each end, its inbox and its peer's,
`Talk`, whose parts are what the others need to be inductive:

- `Asked`, `Replied`, `Located`: an INVITE under way is the only one, its sender
  waits for it and no answer to it is under way; an answer is one its receiver
  waits for, 100 before the final response; who waits has one of the two coming.
- `Turn`: an end that waits for the answer to its own INVITE will refuse the
  peer's with 491 for that; or has refused one, and the peer reads the INVITE
  before the refusal, while it waits itself; or hears its answer before the
  peer's next INVITE.
- `Yield`: an end that accepted an INVITE had none of its own left before it. With
  `Asked` this excludes a 200 Ok under way both ways (`NoCrossedOffers`).
- `Owed`: to an end that needs an ACK, the 200 Ok, the ACK or a BYE is under way
  before anything else about an INVITE. Hence the ACK is always of the last
  INVITE and is sent (`CallIsNotDropped`).
- `Closing`, `Told`, `Ended`: a BYE is behind every INVITE of its sender, is under
  way until the peer's dialog is deleted, and who answered one is silent. Hence
  `NoPhantomCall`.

Inboxes are spoken of by kinds of messages only (`Has`, `Once`, `Before`, `Leads`),
with one lemma for the first message read and one for a message put behind. The
lemmas on the protocol (what the ends and inboxes are after a 100, a 200, a 491,
a BYE) come first, those on the functions of `dialog.c` then reduce to them.
`Conversing` begins when the callee answers, in the same step that ends
`Opening`. The property exempts the 200 Ok of the first INVITE; the proof does not
need that.

*MainLoop.* The count is inductive with: list and batch hold a source once, the
batch no longer has the source whose callback runs (`Lists`), and what waits in
the batch uncancelled is linked and due (`BatchIsCurrent`, which also gives
`Silence`). For `DoLater`, no task is owned or cancelled while it is linked, all are
due, and the batch has the tasks in the order of the list (`TaskInv`): the task
whose callback starts is then the first of the list. The model takes sources out of a list with
`Among`, defined by ranks and cardinalities, instead of `SelectSeq`; what
it keeps, drops and where it puts the head is proved from theorems about finite
sets (`AmongSame`, `AmongAppended`, `AmongRemoved`, `AmongFirst`).

*Refresher.* `Kept` is `NeverForgotten` and why: an io error is counted once, for a
transaction that ended. `Unregistering` says that a registration given up has a
target of zero, sends nothing else and was stopped unless something is pending;
`AtRest`, `Confirmed` that after the registrar's answer nothing is left that sends.
Types need that challenges under way and authentication failures together do
not exceed the faults (`Counted`), by a count of finite sets.

*CallControl.* `Sound(core)` says of each call by itself which states go with
which phase of its operation (`Phase`), who waits for whom (`Turns`), that it is
silent when over (`Silence`) or held (`Held`), what its directions are in a
regular life (`Plain`), and that an ACK is due of a confirmed call only and, when
every INVITE has an offer, with no streams waiting for it (`Due`), which is why it
may come as late as it likes; and of the core that its list and current call are right (`Book`)
and that, in a regular life, a call which is neither new, ringing, held nor over
is the current one (`Front`). The last makes the sound card exclusive: who has it is
current, and there is one current call. The nested updates of the functions are
taken apart into updates of single fields; each function has a lemma on what it
sets.

*EventQueue.* The places of events are numbered on from `rptr` without regard to
the end of the buffer, so that place `p` is at cell `p` or `p - Size` (`Cell`).
`Laid` says that the posted events lie there one after the other, and that none
runs over the end; `InSync`, that one ticker is at work and where `wptr` is in each
of its steps. It holds as long as neither a gap nor a race occurred, and
emptying the queue restores it. `Room` bounds what the racing tickers may count
twice: one event each, by the cardinality of those at work.

**Only model-checked.** Liveness (`LossIsSurvived`, `TransactionsEnd`,
`EndsAgree`, `EndsTogether`, `QueueDrains`, `DueIsServed`, `RegistrationReturns`), for
the prover handles neither fairness nor ENABLED. Of `RtpReceiver`,
everything: its order is about sums over packets, an induction over data that
the prover cannot do. The steps that need induction elsewhere were replaced by cardinalities
and by layouts given as functions.

## 5. What is not modelled, and why

SIP parsing and building, SDP, DNS, sockets, TLS handshakes, the object system
beyond references on sources: data or I/O, little control. In the signalling:
authentication of calls (a 401 repeats the request through the same transaction
machinery; `Refresher` has it for REGISTER), 100rel, transfer, SUBSCRIBE
dialogs and PUBLISH refreshes. In the main loop: sockets with a timeout of their
own (the resolver's), an interrupted poll, the loop's destruction. In call
control: ringing streams, ICE, uPnP and ping beyond their putting off the
INVITE, conference, transfer, incoming early media, the SRTP retry after 415,
changes of codec and address. In RTP: sending, RTCP, the averages of the jitter
control, telephone events, the scheduler, which linphone does not use.
Mediastreamer's filter graph and ICE are left for later; codecs, third-party
code and user interfaces are not this program's control. Most of the repository
is of that kind: it vendors libraries (codecs, XML, SSL, WebRTC, SQLite) many
times the size of the program they serve, so the share of all its lines that is
modelled is small whatever is done here.

## 6. Plan

Done: INVITE transaction, other transactions, dialog, main loop, call set-up,
refresher, event queue, call control (checked and proved), RTP receiver
(checked). Next:

1. `CallSetupProofs`: over TCP, what the two ends may know of each other while
   the connection lasts, the invariant on which `EndsAgree` rests.
2. The refinement of `Exchange` by a REGISTER over UDP, for an abstract
   specification that lets a timeout be told after the answer.
3. Modules: `ice.c` check lists; SUBSCRIBE dialogs; `msqueue.c` and `itc.c`.

Abstract specifications to add: a call as both users see it (offered, ringing,
connected, over), which `CallSetup` and `Dialog` would implement, and a
registration (registered, refreshing, failed), which `Refresher` would.

## 7. Running

    tlc -workers 2 -config InviteUdp.cfg MCInvite.tla
    tlc -workers 2 -config CallSetup.cfg MCCallSetup.tla
    tlapm InviteTransactionProofs.tla
    tlapm CallControlProofs.tla

Every run ends in less than three minutes on two workers, and every module of
proofs is checked from nothing in less than four, save `DialogProofs`, which
takes six. `PROJECT.json` gives
the module, configuration and expected answer of each, and for each property a
mutant: a definition of the model with a plausible bug in it, under which TLC
finds the property violated.
