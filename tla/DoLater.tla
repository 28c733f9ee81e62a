------------------------------- MODULE DoLater -------------------------------
(***************************************************************************)
(* What belle_sip_main_loop_do_later promises the code that calls it: the  *)
(* task runs later, once, and after every task that was asked before it.   *)
(***************************************************************************)
EXTENDS Sequences

CONSTANT Tasks

VARIABLE asked      \* the tasks that are yet to run

Init == asked = <<>>

Ask(t) ==
    /\ \A i \in DOMAIN asked : asked[i] # t
    /\ asked' = Append(asked, t)

Run ==
    /\ asked # <<>>
    /\ asked' = Tail(asked)

Next == Run \/ \E t \in Tasks : Ask(t)

Spec == Init /\ [][Next]_asked
=============================================================================
