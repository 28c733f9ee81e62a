--------------------------- MODULE MCEventQueue ---------------------------
(* A buffer of four cells and events of one and of two: alone, so that every  *)
(* wrap is at the end, or mixed, so that some are not.                        *)
EXTENDS EventQueue, TLC

KindsValue == {"tone", "eof", "dtmf"}
LengthsValue == ("tone" :> 1) @@ ("eof" :> 1) @@ ("dtmf" :> 2)
SettingsValue ==
  { [kinds |-> {"tone", "eof"}, writers |-> {"audio"}],
    [kinds |-> {"tone", "eof", "dtmf"}, writers |-> {"audio"}],
    [kinds |-> {"tone", "dtmf"}, writers |-> {"audio", "video"}] }
===========================================================================
