---------------------------- MODULE CallControl ----------------------------
(***************************************************************************)
(* The calls of a LinphoneCore: the states of LinphoneCall, the current    *)
(* call, the list of calls and their audio streams, as the commands of the *)
(* application (linphonecore.c) and the callbacks of the call operations   *)
(* (callbacks.c) drive them through linphone_call_set_state.               *)
(*                                                                         *)
(* A command or a callback is one action.  Its functions are operators     *)
(* from core to core, where core holds what the LinphoneCore and its calls *)
(* keep.  The call operation and its dialog, which CallSetup and Dialog    *)
(* model, are here what they let the core see: the phase of the operation, *)
(* the re-INVITEs under way and the next callback.  Of a media description *)
(* only the direction of its audio stream is kept; the ends agree on a     *)
(* codec and change neither it nor their addresses.                        *)
(***************************************************************************)
EXTENDS Naturals, FiniteSets

CONSTANTS
    Calls,      \* the calls there may be
    MaxCalls,   \* lc->max_calls
    None,       \* no call, no description
    Settings    \* what the user and the peers do: see Setting

Setting ==
    [hasty   : BOOLEAN,   \* the user acts while the current call is changing,
                          \* or pauses another
     collide : BOOLEAN,   \* re-INVITEs may cross each other, or our BYE, and
                          \* get a 491
     refuse  : BOOLEAN,   \* peers refuse a re-INVITE for good
     busy    : BOOLEAN,   \* another request may be pending in the dialog
     bare    : BOOLEAN,   \* peers send INVITEs without a description
     mute    : BOOLEAN]   \* peers offer, or answer a two-way offer, to
                          \* send nothing

Directions == {"sendrecv", "sendonly", "recvonly", "inactive"}

ASSUME CallsAssumption ==
    /\ None \notin Calls \cup Directions \cup {"bare"}
    /\ IsFiniteSet(Calls) /\ MaxCalls \in Nat \ {0}
    /\ Settings \subseteq Setting

VARIABLES core, setting

vars == <<core, setting>>

States ==
    {"Idle", "IncomingReceived", "OutgoingInit", "OutgoingProgress",
     "OutgoingRinging", "OutgoingEarlyMedia", "Connected", "StreamsRunning",
     "Pausing", "Paused", "Resuming", "PausedByRemote", "UpdatedByRemote",
     "Updating", "End", "Error", "Released"}

Over == {"End", "Error", "Released"}

(* op is the phase of the operation: not started, INVITE sent, with an early *)
(* dialog, INVITE received, confirmed, its end notified but not its release, *)
(* gone.  streams are absent, prepared, started on the sound card or         *)
(* without it, the microphone included.                                      *)
Call ==
    [state   : States,                \* call->state
     prev    : States,                \* call->prevstate
     op      : {"new", "inviting", "early", "offered", "confirmed", "dead", "gone"},
     giving  : BOOLEAN,               \* sal_call_terminate was called: a BYE, a
                                      \* CANCEL or a refusal is sent or meant
     mine    : BOOLEAN,               \* a re-INVITE of ours is unanswered
     theirs  : Directions \cup {None, "bare"}, \* what they offered, unanswered
     ack     : {"none", "plain", "answer"},    \* the ACK that is to come
     local   : Directions,            \* of op->base.local_media
     result  : Directions \cup {None},         \* of call->resultdesc
     streams : {"none", "ready", "card", "quiet"},
     pending : BOOLEAN,               \* call->media_pending
     defer   : BOOLEAN]               \* call->defer_update

NewCall ==
    [state |-> "Idle", prev |-> "Idle", op |-> "new", giving |-> FALSE,
     mine |-> FALSE, theirs |-> None, ack |-> "none", local |-> "sendrecv",
     result |-> None, streams |-> "none", pending |-> FALSE, defer |-> FALSE]

(* Types, and the book of the core: a call is in its list from when it       *)
(* starts until it is over, and the current call is one of the list.         *)
TypeOK ==
    /\ setting \in Settings
    /\ core \in [call : [Calls -> Call], current : Calls \cup {None},
                 list : SUBSET Calls]
    /\ core.list = {c \in Calls : core.call[c].state \notin Over \cup {"Idle"}}
    /\ core.current \in core.list \cup {None}

Init ==
    /\ setting \in Settings
    /\ core = [call |-> [c \in Calls |-> NewCall], current |-> None, list |-> {}]

Started(s) == s \in {"card", "quiet"}

-----------------------------------------------------------------------------
(* linphone_call_set_state, with linphone_call_set_terminated and what       *)
(* Released gives back.  A change that is refused has overwritten prevstate  *)
(* all the same.                                                             *)
\* Mutant: a call that fails stays the current one.
set_state_current(k, c, s) ==
    LET old   == k.call[c].state
        fixed == old \in {"End", "Error"} /\ s # "Released"
    IN  IF s = old THEN k
        ELSE IF fixed THEN [k EXCEPT !.call[c].prev = old]
        ELSE [k EXCEPT
            !.call[c].prev  = old,
            !.call[c].state = s,
            !.call[c].op    = IF s = "Released" THEN "gone" ELSE @,
            !.current = IF s = "End" /\ @ = c THEN None ELSE @,
            !.list    = IF s \in {"End", "Error"} THEN @ \ {c} ELSE @]

set_state(k, c, s) ==
    LET old   == k.call[c].state
        fixed == old \in {"End", "Error"} /\ s # "Released"
    IN  IF s = old THEN k
        ELSE IF fixed THEN [k EXCEPT !.call[c].prev = old]
        ELSE [k EXCEPT
            !.call[c].prev  = old,
            !.call[c].state = s,
            !.call[c].op    = IF s = "Released" THEN "gone" ELSE @,
            !.current = IF s \in {"End", "Error"} /\ @ = c THEN None ELSE @,
            !.list    = IF s \in {"End", "Error"} THEN @ \ {c} ELSE @]

stop_media_streams(k, c) == [k EXCEPT !.call[c].streams = "none"]

(* linphone_call_start_media_streams: the sound card is for the current      *)
(* call, or for any when there is none, and for a stream that plays.         *)
start_media_streams(k, c) ==
    [k EXCEPT !.call[c].streams =
        IF k.call[c].result = "inactive" THEN "ready"
        ELSE IF /\ k.call[c].result \in {"sendrecv", "recvonly"}
                /\ k.current \in {None, c} THEN "card"
        ELSE "quiet"]

(* linphone_core_update_streams with a description of the given direction:   *)
(* streams that run are restarted when it differs.                           *)
update_streams(k, c, dir) ==
    LET k1 == [k EXCEPT !.call[c].pending = FALSE, !.call[c].result = dir]
    IN  IF Started(k.call[c].streams) /\ k.call[c].result = dir THEN k1
        ELSE start_media_streams(k1, c)

(* offeranswer.c: the direction of the stream on our side.                   *)
compute_dir_outgoing(local, answered) ==
    CASE answered = "inactive" -> "inactive"
      [] local = "sendrecv" /\ answered = "recvonly" -> "sendonly"
      [] local = "sendrecv" /\ answered = "sendonly" -> "recvonly"
      [] OTHER -> local

compute_dir_incoming(local, offered) ==
    CASE local = "sendrecv" /\ offered = "sendonly" -> "recvonly"
      [] local = "sendrecv" /\ offered = "recvonly" -> "sendonly"
      [] local = "sendrecv" /\ offered \in {"sendrecv", "inactive"} -> offered
      [] local = "sendonly" /\ offered \in {"recvonly", "sendrecv"} -> "sendonly"
      [] local = "recvonly" /\ offered \in {"sendonly", "sendrecv"} -> "recvonly"
      [] OTHER -> "inactive"

\* sal_media_description_has_dir: an inactive stream has both one-way ones.
has_dir(dir, d) ==
    dir = d \/ (dir = "inactive" /\ d \in {"sendonly", "recvonly"})

-----------------------------------------------------------------------------
(* The call operation as the core uses it.                                   *)

(* sal_call_update: the dialog makes no request while another is pending,    *)
(* ok tells about those other than re-INVITEs.                               *)
CanUpdate(k, c, ok) ==
    /\ ok
    /\ k.call[c].op = "confirmed" /\ ~k.call[c].giving
    /\ ~k.call[c].mine /\ k.call[c].theirs = None

sal_call_update(k, c, ok) ==
    [k EXCEPT !.call[c].mine = @ \/ CanUpdate(k, c, ok)]

(* sal_call_accept: a 200 Ok with our answer, or with our offer when they    *)
(* made none, which the ACK will answer.                                     *)
sal_call_accept(k, c) ==
    [k EXCEPT
        !.call[c].op = "confirmed",
        !.call[c].theirs = None,
        !.call[c].ack = IF k.call[c].theirs = "bare" THEN "answer" ELSE "plain"]

\* What sal_call_get_final_media_description gives once it is accepted.
Answer(k, c) == compute_dir_incoming(k.call[c].local, k.call[c].theirs)

(* sal_call_terminate and sal_call_decline: a BYE, a CANCEL, the intention   *)
(* of one, or a refusal.                                                     *)
sal_call_terminate(k, c) ==
    [k EXCEPT !.call[c].giving = TRUE,
              !.call[c].op = IF @ = "offered" THEN "dead" ELSE @]

-----------------------------------------------------------------------------
(* linphonecore.c.                                                           *)

(* _linphone_core_pause_call: nothing but a warning when the re-INVITE could *)
(* not be sent, and no current call whichever call is paused.                *)
\* Mutant: a call that its peer paused is left alone.
Pausable_running(k, c) == k.call[c].state = "StreamsRunning"

Pausable(k, c) == k.call[c].state \in {"StreamsRunning", "PausedByRemote"}

pause_call(k, c, ok) ==
    LET held == [k EXCEPT !.call[c].local = "sendonly"]
        sent == [sal_call_update(held, c, ok) EXCEPT !.current = None]
    IN  IF ~Pausable(k, c) \/ k.call[c].result = "sendonly" THEN k
        ELSE stop_media_streams(set_state(sent, c, "Pausing"), c)

preempt_sound_resources(k, ok) ==
    IF k.current = None THEN k ELSE pause_call(k, k.current, ok)

can_we_add_call(k) == Cardinality(k.list) < MaxCalls

(* linphone_core_invite_address_with_params up to OutgoingInit: ICE or a     *)
(* ping may put the INVITE off to a later turn.                              *)
invite(k, c, ok) ==
    LET k1 == preempt_sound_resources(k, ok)
    IN  IF ~can_we_add_call(k1) THEN k1
        ELSE set_state([k1 EXCEPT !.list = @ \cup {c}, !.current = c],
                       c, "OutgoingInit")

(* linphone_core_start_invite; sal_call fails when no request can be made.   *)
start_invite(k, c, ok) ==
    LET k1 == [k EXCEPT !.call[c].local = "sendrecv", !.call[c].pending = TRUE]
    IN  IF ok
        THEN set_state([k1 EXCEPT !.call[c].op = "inviting",
                                  !.call[c].streams = "ready"],
                       c, "OutgoingProgress")
        ELSE set_state(stop_media_streams(k1, c), c, "Error")

(* linphone_core_accept_call: streams run whatever the direction is; without *)
(* an offer they wait for the ACK.                                           *)
accept_call(k, c, ok) ==
    LET k1 == IF k.current = c THEN k ELSE preempt_sound_resources(k, ok)
        k2 == [sal_call_accept(k1, c) EXCEPT !.current = c]
        k3 == set_state(k2, c, "Connected")
    IN  IF k.call[c].theirs = "bare"
        THEN [k3 EXCEPT !.call[c].pending = TRUE, !.call[c].streams = "ready"]
        ELSE set_state(update_streams(k3, c, Answer(k1, c)), c, "StreamsRunning")

\* terminate_call, after the operation was told.
terminate_call(k, c) == set_state(stop_media_streams(k, c), c, "End")

(* linphone_core_terminate_call; in OutgoingInit the operation is destroyed. *)
terminate(k, c) ==
    IF k.call[c].state = "OutgoingInit"
    THEN terminate_call([k EXCEPT !.call[c].op = "gone"], c)
    ELSE terminate_call(sal_call_terminate(k, c), c)

abort_call(k, c) ==
    set_state(stop_media_streams(sal_call_terminate(k, c), c), c, "Error")

sound_resources_locked(k) ==
    \E c \in k.list : k.call[c].state \in
        {"OutgoingInit", "OutgoingProgress", "OutgoingRinging",
         "OutgoingEarlyMedia", "Connected", "Updating"}

(* linphone_core_resume_call: the current call is paused before it is known  *)
(* whether this one can be resumed.                                          *)
resume_call(k, c, ok) ==
    LET k1 == [preempt_sound_resources(k, ok) EXCEPT !.call[c].local = "sendrecv"]
    IN  IF k.call[c].state # "Paused" \/ sound_resources_locked(k) THEN k
        ELSE IF ~CanUpdate(k1, c, ok) THEN k1
        ELSE [set_state(sal_call_update(k1, c, ok), c, "Resuming") EXCEPT !.current = c]

(* linphone_core_update_call with parameters: the state is not looked at,    *)
(* and stays Updating when the re-INVITE could not be sent.                  *)
update_call(k, c, ok) ==
    sal_call_update([set_state(k, c, "Updating") EXCEPT !.call[c].local = "sendrecv"], c, ok)

accept_call_update(k, c) ==
    LET k1 == [k EXCEPT !.call[c].local = "sendrecv"]
    IN  IF k.call[c].state # "UpdatedByRemote" THEN k
        ELSE set_state(update_streams(sal_call_accept(k1, c), c, Answer(k1, c)),
                       c, "StreamsRunning")

-----------------------------------------------------------------------------
(* callbacks.c.                                                              *)

(* call_received and linphone_core_notify_incoming_call.                     *)
already_a_call_pending(k) ==
    \E c \in k.list : k.call[c].state \in
        {"IncomingReceived", "OutgoingInit", "OutgoingProgress",
         "OutgoingEarlyMedia", "OutgoingRinging"}

call_received(k, c, offer) ==
    LET k1 == [k EXCEPT !.call[c].op = "offered", !.call[c].theirs = offer,
                        !.list = @ \cup {c}]
    IN  set_state([k1 EXCEPT !.current = IF k1.list = {c} THEN c ELSE @],
                  c, "IncomingReceived")

\* call_ringing without a description, and with one: early media.
call_ringing(k, c) == set_state(k, c, "OutgoingRinging")

call_ringing_early(k, c, dir) ==
    IF Started(k.call[c].streams) THEN k
    ELSE update_streams(set_state(k, c, "OutgoingEarlyMedia"), c, dir)

(* call_accepted, with the direction of the final description.               *)
call_accepted(k, c, dir) ==
    LET calling == k.call[c].state \in
            {"OutgoingProgress", "OutgoingRinging", "OutgoingEarlyMedia"}
        k1 == IF calling THEN set_state(k, c, "Connected") ELSE k
        k2 == update_streams(k1, c, dir)
    IN  CASE dir = None -> abort_call(k1, c)
          [] has_dir(dir, "sendonly") -> set_state(k2, c, "Paused")
          [] dir = "recvonly" -> set_state(k2, c, "PausedByRemote")
          [] OTHER -> set_state([k2 EXCEPT !.current = c], c, "StreamsRunning")

call_ack(k, c, dir) ==
    IF ~k.call[c].pending THEN k
    ELSE IF dir = None THEN abort_call(k, c)
    ELSE set_state(update_streams(k, c, dir), c, "StreamsRunning")

(* call_accept_update: answers with the description there is; without an     *)
(* offer the streams wait for the ACK.                                       *)
\* Mutant: the description is made anew, as for an answer to an INVITE.
call_accept_update_anew(k, c) ==
    LET k1 == [k EXCEPT !.call[c].local = "sendrecv"]
    IN  IF k.call[c].theirs = "bare" THEN sal_call_accept(k1, c)
        ELSE update_streams(sal_call_accept(k1, c), c, Answer(k1, c))

call_accept_update(k, c) ==
    IF k.call[c].theirs = "bare" THEN sal_call_accept(k, c)
    ELSE update_streams(sal_call_accept(k, c), c, Answer(k, c))

(* call_updated_by_remote: the application may defer the answer in the       *)
(* notification.                                                             *)
call_updated_by_remote(k, c, deferring) ==
    LET k1 == set_state([k EXCEPT !.call[c].defer = deferring], c, "UpdatedByRemote")
    IN  IF deferring THEN k1 ELSE accept_call_update(k1, c)

(* call_updating.                                                            *)
call_updating(k, c, offer, deferring) ==
    LET k1 == [k EXCEPT !.call[c].theirs = offer]
        paused  == k.call[c].state = "PausedByRemote"
        running == k.call[c].state \in {"StreamsRunning", "Connected"}
        resumes == offer = "sendrecv" \/ has_dir(offer, "recvonly")
        pauses  == has_dir(offer, "sendonly")
    IN  IF offer = "bare"
        THEN [call_accept_update(k1, c) EXCEPT !.call[c].pending = TRUE]
        ELSE CASE paused /\ resumes ->
                    set_state(call_accept_update(k1, c), c, "StreamsRunning")
               [] (paused /\ ~resumes) \/ (running /\ pauses) ->
                    set_state(call_accept_update(k1, c), c, "PausedByRemote")
               [] running /\ ~pauses -> call_updated_by_remote(k1, c, deferring)
               [] OTHER -> call_accept_update(k1, c)

call_terminated(k, c) ==
    IF k.call[c].state \in {"End", "Error"} THEN k
    ELSE set_state(stop_media_streams(k, c), c, "End")

(* call_failure: a 491 only gives back the state that was left last.         *)
call_failure_pending(k, c) == set_state(k, c, k.call[c].prev)

call_failure(k, c, declined) ==
    set_state(stop_media_streams(k, c), c, IF declined THEN "End" ELSE "Error")

-----------------------------------------------------------------------------
(* The commands of the application, for the calls it finds in the list.  A   *)
(* user who is not hasty lets the current call finish what it is doing.      *)
Settled(c) == core.call[c].state \in {"StreamsRunning", "Paused", "PausedByRemote"}

Calm(c) ==
    ~setting.hasty => \A d \in Calls \ {c} : d = core.current => Settled(d)

\* Another request, say an INFO, may be pending where one of ours is made.
Oks == IF setting.busy THEN BOOLEAN ELSE {TRUE}

Free(c) == core.call[c].state = "Idle" \/
           (core.call[c].state \in Over /\ core.call[c].op \in {"new", "gone"})

New(c) == [core EXCEPT !.call[c] = NewCall]

Invite(c) ==
    /\ Free(c) /\ Calm(c)
    /\ \E ok \in Oks : core' = invite(New(c), c, ok)

StartInvite(c) ==
    /\ core.call[c].state = "OutgoingInit"
    /\ \E ok \in Oks : core' = start_invite(core, c, ok)

Accept(c) ==
    /\ core.call[c].state = "IncomingReceived" /\ Calm(c)
    /\ \E ok \in Oks : core' = accept_call(core, c, ok)

(* Also the decline of a call that rings too long and the end of one that    *)
(* lasts too long, in linphone_core_iterate.                                 *)
Terminate(c) ==
    /\ c \in core.list
    /\ core' = terminate(core, c)

Pause(c) ==
    /\ Pausable(core, c) /\ Calm(c)
    /\ setting.hasty \/ c = core.current
    /\ \E ok \in Oks : core' = pause_call(core, c, ok)

Resume(c) ==
    /\ core.call[c].state = "Paused" /\ Calm(c)
    /\ \E ok \in Oks : core' = resume_call(core, c, ok)

Update(c) ==
    /\ c \in core.list /\ core.call[c].op = "confirmed"
    /\ setting.hasty \/ (Calm(c) /\ core.call[c].state = "StreamsRunning")
    /\ \E ok \in Oks : core' = update_call(core, c, ok)

AcceptUpdate(c) ==
    /\ core.call[c].state = "UpdatedByRemote" /\ core.call[c].defer
    /\ core' = accept_call_update(core, c)

-----------------------------------------------------------------------------
(* The callbacks of the operations.                                          *)
Offers ==
    (IF setting.mute THEN Directions ELSE {"sendrecv", "sendonly"})
        \cup (IF setting.bare THEN {"bare"} ELSE {})

\* What an answer makes of our offer; None is one without a common codec.
Answers(c) ==
    IF core.call[c].local = "sendonly" \/ setting.mute THEN Directions
    ELSE {"sendrecv", "sendonly"}

Results(c) ==
    {compute_dir_outgoing(core.call[c].local, d) : d \in Answers(c)}
        \cup (IF setting.refuse THEN {None} ELSE {})

Received(c) ==
    /\ Free(c) /\ can_we_add_call(core) /\ ~already_a_call_pending(core)
    /\ \E offer \in Offers : core' = call_received(New(c), c, offer)

Inviting(c) == core.call[c].op \in {"inviting", "early"}
Talking(c)  == core.call[c].op = "confirmed" /\ ~core.call[c].giving

Ringing(c) ==
    /\ Inviting(c)
    /\ LET k == [core EXCEPT !.call[c].op = "early"] IN
       IF core.call[c].giving THEN core' = k
       ELSE \/ core' = call_ringing(k, c)
            \/ \E dir \in Results(c) \ {None} : core' = call_ringing_early(k, c, dir)

\* A 2xx to an operation that is Terminating only gets a BYE.
Answered(c) ==
    /\ Inviting(c)
    /\ LET k == [core EXCEPT !.call[c].op = "confirmed"] IN
       IF core.call[c].giving THEN core' = k
       ELSE \E dir \in Results(c) : core' = call_accepted(k, c, dir)

(* The INVITE failed: without a dialog the operation is released at once;    *)
(* with one the failure is told even to a call that was given up.            *)
Refused(c) ==
    \E declined \in BOOLEAN :
        \/ /\ core.call[c].op = "inviting"
           /\ LET k == IF core.call[c].giving THEN core
                       ELSE call_failure(core, c, declined)
              IN core' = set_state(k, c, "Released")
        \/ /\ core.call[c].op = "early"
           /\ core' = call_failure([core EXCEPT !.call[c].op = "dead"], c, declined)

\* The answer to a re-INVITE reaches the core unless the call was hung up: a
\* 2xx then only gets a BYE.
Reanswered(c) ==
    /\ Talking(c) /\ core.call[c].mine
    /\ \E dir \in Results(c) :
        core' = call_accepted([core EXCEPT !.call[c].mine = FALSE], c, dir)

Rerefused(c) ==
    /\ Talking(c) /\ core.call[c].mine
    /\ LET k == [core EXCEPT !.call[c].mine = FALSE] IN
       \/ setting.collide /\ core' = call_failure_pending(k, c)
       \/ setting.refuse /\ \E declined \in BOOLEAN :
              core' = call_failure(k, c, declined)

(* The dialog lets a re-INVITE in unless its last transaction is pending; the *)
(* operation hands it on even when it is Terminating.  Our BYE is such a      *)
(* transaction until a re-INVITE that crosses it has got a 491, which takes   *)
(* its place: the next one is let in.                                         *)
Updating(c) ==
    /\ core.call[c].op = "confirmed"
    /\ \/ /\ ~core.call[c].giving /\ ~core.call[c].mine
          /\ core.call[c].theirs = None /\ core.call[c].ack = "none"
       \/ core.call[c].giving /\ setting.collide
    /\ \E offer \in Offers, deferring \in BOOLEAN :
        core' = call_updating(core, c, offer, deferring)

(* The ACK of our 200 Ok, which comes to call_ack in a confirmed dialog, also *)
(* when the call was hung up in the meantime.                                 *)
Ack(c) ==
    /\ core.call[c].op = "confirmed" /\ core.call[c].ack # "none"
    /\ LET k == [core EXCEPT !.call[c].ack = "none"] IN
       IF core.call[c].ack = "plain" THEN core' = call_ack(k, c, core.call[c].result)
       ELSE \E dir \in Results(c) : core' = call_ack(k, c, dir)

\* A BYE, the CANCEL of a call that rings, or the answer to our BYE.
Terminated(c) ==
    /\ core.call[c].op \in {"offered", "confirmed"}
    /\ core' = call_terminated([core EXCEPT !.call[c].op = "dead"], c)

Released(c) ==
    /\ core.call[c].op = "dead"
    /\ core' = set_state(core, c, "Released")

Next ==
    /\ \E c \in Calls :
        \/ Invite(c) \/ StartInvite(c) \/ Accept(c) \/ Terminate(c)
        \/ Pause(c) \/ Resume(c) \/ Update(c) \/ AcceptUpdate(c)
        \/ Received(c) \/ Ringing(c) \/ Answered(c) \/ Refused(c)
        \/ Reanswered(c) \/ Rerefused(c) \/ Updating(c) \/ Ack(c)
        \/ Terminated(c) \/ Released(c)
    /\ UNCHANGED setting

Spec == Init /\ [][Next]_vars

-----------------------------------------------------------------------------
(* The sound card is for one call at a time: whatever calls come, end, are   *)
(* paused from either end, resumed or updated, two streams never hold it.    *)
(* So as long as the user lets the current call finish what it is doing and  *)
(* pauses no other call than the current one, re-INVITEs can be sent and are *)
(* neither refused nor without an offer, and the peers send sound.           *)
Regular ==
    /\ ~setting.hasty /\ ~setting.collide /\ ~setting.refuse
    /\ ~setting.busy /\ ~setting.bare /\ ~setting.mute

SoundIsExclusive ==
    Regular => Cardinality({c \in Calls : core.call[c].streams = "card"}) <= 1

(* A call that is over has no streams, whatever message of its dialog comes  *)
(* late: also not the ACK of a 200 Ok it sent before it was hung up.  There  *)
(* are three ways to streams that outlive their call, which are left out: a  *)
(* re-INVITE that is refused for good; an ACK that answers our own offer,    *)
(* after the hang-up of a call whose INVITE had none; and a re-INVITE that   *)
(* comes after another one has crossed our BYE.                              *)
(* A call that the user has put on hold never gets the sound card back       *)
(* before it is resumed, whatever its peer offers in the meantime, as long   *)
(* as re-INVITEs can be sent and do not cross, and the peers send sound.     *)
StaysSilent ==
    \A c \in Calls :
        /\ /\ ~setting.refuse /\ ~setting.bare /\ ~setting.collide
           /\ core.call[c].state \in Over
           => core.call[c].streams = "none"
        /\ /\ ~setting.collide /\ ~setting.busy /\ ~setting.mute
           /\ core.call[c].state \in {"Pausing", "Paused"}
           => core.call[c].streams # "card"
=============================================================================
