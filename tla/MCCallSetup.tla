---------------------------- MODULE MCCallSetup ----------------------------
(* CallSetup for TLC.                                                      *)
EXTENDS CallSetup
=============================================================================
