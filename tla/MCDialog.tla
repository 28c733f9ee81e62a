------------------------------ MODULE MCDialog ------------------------------
(* Dialog for TLC: the settings, each a question of its own.               *)
EXTENDS Dialog

\* TCP, both users send re-INVITEs and INFO and hang up; the 200 is repeated.
Busy ==
    [ordered |-> TRUE, infoSenders |-> Side, updaters |-> Side,
     deferrers |-> {}, patient |-> {}, leavers |-> Side,
     requests |-> 2, copies |-> 1]

\* TCP, users that let a re-INVITE end before the next and send no INFO.
Careful ==
    [Busy EXCEPT !.infoSenders = {}, !.patient = Side, !.requests = 3,
                 !.copies = 0]

\* UDP: a re-INVITE that is answered later, with losses and reordering.
Lossy ==
    [ordered |-> FALSE, infoSenders |-> {}, updaters |-> {"A"},
     deferrers |-> {"B"}, patient |-> {}, leavers |-> {"B"},
     requests |-> 1, copies |-> 1]

\* TCP, one request of each user, one of them answering re-INVITEs later.
Deferred == [Busy EXCEPT !.deferrers = {"B"}, !.requests = 1, !.copies = 0]

\* TCP, nobody hangs up.
Staying == [Careful EXCEPT !.patient = {}, !.leavers = {}, !.requests = 2]

SafetySettings  == {Busy, Careful, Lossy}
LiveSettings    == {Deferred}
StayingSettings == {Staying}
=============================================================================
