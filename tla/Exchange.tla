------------------------------ MODULE Exchange ------------------------------
(***************************************************************************)
(* What a SIP request promises to the two parties, without any             *)
(* transaction, timer, channel or network: the called party gives final    *)
(* answers (status codes), the caller is told of one outcome, which is one *)
(* of the answers given so far or its own stack's report that it gave up.  *)
(* InviteTransaction and NonInviteTransaction implement it.                *)
(***************************************************************************)
CONSTANTS
    Repeatable,     \* answers that may follow one another (2xx of an INVITE)
    Once,           \* answers after which the caller is told nothing else
    Unheard,        \* nothing yet
    Failures        \* the reports of the caller's own stack

VARIABLES
    given,          \* the answers the called party has given
    outcome         \* what the caller was told last, Unheard before

vars == <<given, outcome>>

Init == given = {} /\ outcome = Unheard

Answer(c) == given' = given \cup {c} /\ UNCHANGED outcome

Learn(c) ==
    /\ c \in given
    /\ outcome = Unheard \/ (outcome \in Repeatable /\ c \in Repeatable)
    /\ outcome' = c
    /\ UNCHANGED given

GiveUp(f) == outcome = Unheard /\ outcome' = f /\ UNCHANGED given

Next == \/ \E c \in Repeatable \cup Once : Answer(c) \/ Learn(c)
        \/ \E f \in Failures : GiveUp(f)

Spec == Init /\ [][Next]_vars
=============================================================================
