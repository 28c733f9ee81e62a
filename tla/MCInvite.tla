------------------------------ MODULE MCInvite ------------------------------
(* Instances of InviteTransaction for TLC: one code of each kind that the  *)
(* code tells apart, two of the final kinds so that answers can differ.    *)
EXTENDS InviteTransaction

OneProvisional == {180}
TwoSuccesses   == {200, 202}
TwoFailures    == {486, 487}
=============================================================================
