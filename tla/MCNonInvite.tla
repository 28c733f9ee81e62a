----------------------------- MODULE MCNonInvite -----------------------------
(* Instances of NonInviteTransaction for TLC: a provisional code and two   *)
(* final ones, so that answers can differ.                                 *)
EXTENDS NonInviteTransaction

OneProvisional == {100}
TwoFinals      == {200, 403}

AnyOverUdp     == [reliable |-> FALSE, register |-> FALSE]
AnyOverTcp     == [reliable |-> TRUE, register |-> FALSE]
RegisterTcp    == [reliable |-> TRUE, register |-> TRUE]
MCSettings     == {AnyOverUdp, AnyOverTcp, RegisterTcp}
=============================================================================
