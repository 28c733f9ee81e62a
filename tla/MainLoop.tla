------------------------------- MODULE MainLoop -------------------------------
(***************************************************************************)
(* The main loop of belle-sip (belle_sip_loop.c), on which the whole SIP   *)
(* stack runs: the list of sources (timers, sockets, deferred tasks), the  *)
(* batch of those an iteration notifies, and the references that keep a    *)
(* source alive.  The callback that runs, or the application between two   *)
(* iterations, adds, removes, cancels, releases and sets sources, those    *)
(* that wait in the batch included.                                        *)
(*                                                                         *)
(* Times are relative to now: left[s] is expire_ms minus the clock.        *)
(***************************************************************************)
EXTENDS Integers, FiniteSets, Sequences, SequencesExt

CONSTANTS
    Timers,     \* sources with a timeout
    Sockets,    \* sources with a file descriptor and no timeout
    Tasks,      \* sources of belle_sip_main_loop_do_later
    Readded,    \* sources whose owner adds them again after removing them
    Delays,     \* timeouts in use
    MaxLate,    \* bound: how late a source is notified, a callback lasts
    None        \* no source

Sources == Timers \cup Sockets \cup Tasks
Timed   == Timers \cup Tasks

ASSUME KindsAssumption ==
    /\ Timers \cap Sockets = {} /\ Timers \cap Tasks = {}
    /\ Sockets \cap Tasks = {} /\ None \notin Sources
    /\ Readded \subseteq Timers \cup Sockets
ASSUME DelaysAssumption == Delays \subseteq Nat \ {0} /\ MaxLate \in Nat

VARIABLES
    list,       \* ml->sources
    batch,      \* to_be_notified of the iteration, from its next element on
    current,    \* the source whose callback runs
    refs,       \* references on each source, 0: it does not exist
    owned,      \* sources on which their owner holds a reference
    cancelled,  \* sources with cancelled set
    expired,    \* sources with expired set
    timeout,    \* timeout of the timed sources
    left,       \* time left to expire_ms of the timed sources
    elapsed,    \* time since the poll of the iteration
    readable    \* sockets with data

lists == <<list, batch, current>>
times == <<timeout, left, elapsed>>
vars  == <<list, batch, current, refs, owned, cancelled, expired,
           timeout, left, elapsed, readable>>

Linked(s)  == \E i \in DOMAIN list : list[i] = s
Batched(s) == \E i \in DOMAIN batch : batch[i] = s

\* The elements of seq that are in ss, in their order: SelectSeq as it can be
\* reasoned about.
Among(seq, ss) ==
    LET I    == {i \in DOMAIN seq : seq[i] \in ss}
        rank == [i \in I |-> Cardinality({j \in I : j <= i})]
    IN  [k \in 1..Cardinality(I) |-> seq[CHOOSE i \in I : rank[i] = k]]

\* Where s is linked, and the list without it.
Place(s)   == CHOOSE i \in DOMAIN list : list[i] = s
Without(s) == RemoveAt(list, Place(s))

TypeOK ==
    /\ list \in Seq(Sources) /\ batch \in Seq(Sources)
    /\ current \in Sources \cup {None}
    /\ refs \in [Sources -> Nat]
    /\ owned \subseteq Sources
    /\ cancelled \subseteq Sources /\ expired \subseteq Sources
    /\ timeout \in [Timed -> Delays \cup {0}]
    /\ left \in [Timed -> Int]
    /\ elapsed \in 0..MaxLate
    /\ readable \subseteq Sockets

Init ==
    /\ list = <<>> /\ batch = <<>> /\ current = None
    /\ refs = [s \in Sources |-> 0]
    /\ owned = {} /\ cancelled = {} /\ expired = {}
    /\ timeout = [s \in Timed |-> 0] /\ left = [s \in Timed |-> 0]
    /\ elapsed = 0 /\ readable = {}

-----------------------------------------------------------------------------
(* What a callback, or the application between two iterations, may do.     *)

Iterating == current # None \/ batch # <<>>
Acting    == current # None \/ batch = <<>>

\* Memory of a new source is cleared.
fresh(s) ==
    /\ refs[s] = 0
    /\ cancelled' = cancelled \ {s}
    /\ expired' = expired \ {s}

\* Mutant: sources are taken from the wrong end.
add_source_first(s) == list' = <<s>> \o list

add_source(s) == list' = Append(list, s)

NewTimer(s, delay) ==
    /\ Acting /\ s \in Timers
    /\ fresh(s)
    /\ add_source(s)
    /\ refs' = [refs EXCEPT ![s] = 2] /\ owned' = owned \cup {s}
    /\ timeout' = [timeout EXCEPT ![s] = delay]
    /\ left' = [left EXCEPT ![s] = delay]
    /\ UNCHANGED <<batch, current, elapsed, readable>>

NewSocket(s) ==
    /\ Acting /\ s \in Sockets
    /\ fresh(s)
    /\ add_source(s)
    /\ refs' = [refs EXCEPT ![s] = 2] /\ owned' = owned \cup {s}
    /\ readable' = readable \ {s}
    /\ UNCHANGED <<batch, current, times>>

do_later(s) ==
    /\ Acting /\ s \in Tasks
    /\ fresh(s)
    /\ add_source(s)
    /\ refs' = [refs EXCEPT ![s] = 1]
    /\ timeout' = [timeout EXCEPT ![s] = 0]
    /\ left' = [left EXCEPT ![s] = 0]
    /\ UNCHANGED <<batch, current, owned, elapsed, readable>>

\* Nothing resets cancelled.
AddAgain(s) ==
    /\ Acting /\ s \in Readded \cap owned /\ ~Linked(s)
    /\ add_source(s)
    /\ refs' = [refs EXCEPT ![s] = @ + 1]
    /\ left' = IF s \in Timed THEN [left EXCEPT ![s] = timeout[s]] ELSE left
    /\ readable' = readable \ {s}
    /\ UNCHANGED <<batch, current, owned, cancelled, expired, timeout, elapsed>>

\* A source that its owner removes and that the batch holds stays alive.
\* Mutant: it is removed from the list without a mark.
remove_source_unmarked(s) ==
    /\ Acting /\ s \in owned /\ Linked(s)
    /\ list' = Without(s)
    /\ refs' = [refs EXCEPT ![s] = @ - 1]
    /\ UNCHANGED <<batch, current, owned, cancelled, expired, times, readable>>

remove_source(s) ==
    /\ Acting /\ s \in owned /\ Linked(s)
    /\ cancelled' = cancelled \cup {s}
    /\ list' = Without(s)
    /\ refs' = [refs EXCEPT ![s] = @ - 1]
    /\ UNCHANGED <<batch, current, owned, expired, times, readable>>

\* By its identifier, which also those have who released the source.
cancel_source(s) ==
    /\ Acting /\ s \notin Tasks /\ Linked(s)
    /\ cancelled' = cancelled \cup {s}
    /\ UNCHANGED <<lists, refs, owned, expired, times, readable>>

Release(s) ==
    /\ Acting /\ s \in owned
    /\ owned' = owned \ {s}
    /\ refs' = [refs EXCEPT ![s] = @ - 1]
    /\ UNCHANGED <<lists, cancelled, expired, times, readable>>

set_timeout(s, delay) ==
    /\ Acting /\ s \in Timers \cap owned
    /\ timeout' = [timeout EXCEPT ![s] = delay]
    /\ left' = IF s \in expired THEN left ELSE [left EXCEPT ![s] = delay]
    /\ UNCHANGED <<lists, refs, owned, cancelled, expired, elapsed, readable>>

-----------------------------------------------------------------------------
(* belle_sip_main_loop_iterate.                                            *)

Due(s) == IF s \in Sockets THEN s \in readable ELSE left[s] <= 0

\* The linked sources that an iteration takes.
Taken == {s \in Sources : Linked(s) /\ (s \in cancelled \/ Due(s))}

\* Mutant: the batch holds no reference.
Poll_unreferenced ==
    /\ current = None /\ batch = <<>>
    /\ \E ss \in {Taken} :
        /\ ss \ cancelled # {}
        /\ batch' = Among(list, ss)
        /\ expired' = expired \cup (ss \ cancelled)
    /\ elapsed' = 0
    /\ UNCHANGED <<list, current, refs, owned, cancelled, timeout, left, readable>>

\* Mutant: an iteration notifies one source.
Poll_one ==
    /\ current = None /\ batch = <<>>
    /\ \E ss \in {Taken} :
        /\ ss \ cancelled # {}
        /\ \E s \in {Among(list, ss)[1]} :
            /\ batch' = <<s>>
            /\ expired' = expired \cup ({s} \ cancelled)
            /\ refs' = [refs EXCEPT ![s] = @ + 1]
    /\ elapsed' = 0
    /\ UNCHANGED <<list, current, owned, cancelled, timeout, left, readable>>

\* Steps 1 and 2.  The poll wakes for what is due and not cancelled, and the
\* batch takes the cancelled sources with it.
Poll ==
    /\ current = None /\ batch = <<>>
    /\ \E ss \in {Taken} :
        /\ ss \ cancelled # {}
        /\ batch' = Among(list, ss)
        /\ refs' = [s \in Sources |-> IF s \in ss THEN refs[s] + 1 ELSE refs[s]]
        /\ expired' = expired \cup (ss \ cancelled)
    /\ elapsed' = 0
    /\ UNCHANGED <<list, current, owned, cancelled, timeout, left, readable>>

\* Mutant: belle_sip_main_loop_remove_source does not look whether the source
\* is still in the list.
unlink_unchecked(s) ==
    /\ cancelled' = cancelled \cup {s}
    /\ list' = Remove(list, s)
    /\ refs' = [refs EXCEPT ![s] = @ - 2]

\* The end of a turn of step 3: s leaves the list if it is to, and the
\* reference of the batch goes.
unlink(s) ==
    IF Linked(s)
    THEN /\ cancelled' = cancelled \cup {s}
         /\ list' = Without(s)
         /\ refs' = [refs EXCEPT ![s] = @ - 2]
    ELSE /\ refs' = [refs EXCEPT ![s] = @ - 1]
         /\ UNCHANGED <<cancelled, list>>

\* Step 3: the next source of the batch is cancelled, or its callback starts.
SkipCancelled ==
    /\ current = None /\ batch # <<>>
    /\ Head(batch) \in cancelled
    /\ batch' = Tail(batch)
    /\ unlink(Head(batch))
    /\ UNCHANGED <<current, owned, expired, times, readable>>

\* Mutant: what was due at the poll is notified.
NotifyRegardless ==
    /\ current = None /\ batch # <<>>
    /\ current' = Head(batch)
    /\ batch' = Tail(batch)
    /\ UNCHANGED <<list, refs, owned, cancelled, expired, times, readable>>

Notify ==
    /\ current = None /\ batch # <<>>
    /\ Head(batch) \notin cancelled
    /\ current' = Head(batch)
    /\ batch' = Tail(batch)
    /\ UNCHANGED <<list, refs, owned, cancelled, expired, times, readable>>

\* The callback of a socket reads some or all of its data.
Reads == readable' \in {readable, readable \ {current}}

\* BELLE_SIP_STOP, or any return of a deferred task.
ReturnStop ==
    /\ current # None
    /\ unlink(current)
    /\ current' = None /\ Reads
    /\ UNCHANGED <<batch, owned, expired, times>>

\* BELLE_SIP_CONTINUE counts the next period from the last deadline,
\* BELLE_SIP_CONTINUE_WITHOUT_CATCHUP from the poll.
ReturnContinue ==
    /\ current # None /\ current \notin Tasks
    /\ IF current \in Timers
       THEN /\ \E from \in {left[current], -elapsed} :
                    left' = [left EXCEPT ![current] = from + timeout[current]]
            /\ expired' = expired \ {current}
       ELSE UNCHANGED <<left, expired>>
    /\ refs' = [refs EXCEPT ![current] = @ - 1]
    /\ current' = None /\ Reads
    /\ UNCHANGED <<list, batch, owned, cancelled, timeout, elapsed>>

-----------------------------------------------------------------------------
(* The world.                                                              *)

\* The clock; MaxLate bounds how late the loop may be.
Tick ==
    LET running == {s \in Timed \ cancelled : Linked(s)} IN
    /\ running # {} /\ \A s \in running : left[s] > -MaxLate
    /\ left' = [s \in Timed |-> IF s \in running THEN left[s] - 1 ELSE left[s]]
    /\ IF Iterating
       THEN elapsed < MaxLate /\ elapsed' = elapsed + 1
       ELSE UNCHANGED elapsed
    /\ UNCHANGED <<lists, refs, owned, cancelled, expired, timeout, readable>>

Arrive(s) ==
    /\ s \in Sockets \ readable /\ Linked(s)
    /\ readable' = readable \cup {s}
    /\ UNCHANGED <<lists, refs, owned, cancelled, expired, times>>

-----------------------------------------------------------------------------
Next ==
    \/ \E s \in Timers, delay \in Delays :
            NewTimer(s, delay) \/ set_timeout(s, delay)
    \/ \E s \in Sockets : NewSocket(s) \/ Arrive(s)
    \/ \E s \in Tasks : do_later(s)
    \/ \E s \in Sources :
            AddAgain(s) \/ remove_source(s) \/ cancel_source(s) \/ Release(s)
    \/ Poll \/ SkipCancelled \/ Notify \/ ReturnStop \/ ReturnContinue
    \/ Tick

Spec == Init /\ [][Next]_vars

\* The loop iterates and callbacks return.
Fairness ==
    /\ WF_vars(Poll) /\ WF_vars(SkipCancelled) /\ WF_vars(Notify)
    /\ WF_vars(ReturnStop \/ ReturnContinue)

FairSpec == Spec /\ Fairness

-----------------------------------------------------------------------------
(* Properties.                                                             *)

One(b) == IF b THEN 1 ELSE 0

\* Every source has one reference of its owner, one of the list it is linked
\* in, one of the batch or the turn it has there, and no other: it is not
\* destroyed while one of them uses it (belle_sip_source_destroy would stop
\* the program), and it is when all have let go.
ReferencesAreCounted ==
    \A s \in Sources :
        refs[s] = One(s \in owned) + One(Linked(s)) + One(Batched(s))
                    + One(current = s)

\* A callback starts only for a source that is linked, was not removed or
\* cancelled since the poll, by an earlier callback of the same iteration for
\* instance, and has data or is past its deadline, however that moved while it
\* waited in the batch: nobody is called back for what it has given up.
RemovedIsSilent ==
    [][\A s \in Sources : current' = s /\ current # s =>
            Linked(s) /\ s \notin cancelled /\ Due(s)]_vars

\* Deferred tasks run once each, in the order they were asked.
Later == INSTANCE DoLater WITH asked <- Among(list, Tasks \ {current})
TasksInOrder == Later!Spec

\* What is due is notified, unless it is cancelled, removed or set again.
DueIsServed ==
    \A s \in Sources :
        Linked(s) /\ Due(s) /\ s \notin cancelled
            ~> current = s \/ s \in cancelled \/ ~Due(s)

\* channel.c:537 says of a channel whose connection failed "See if you can
\* retry on an alternate ip address": it adds its source again for that, and
\* an added source is one the loop will notify.
AddedIsServed ==
    [][\A s \in Sources : ~Linked(s) /\ Linked(s)' => s \notin cancelled']_vars
=============================================================================
