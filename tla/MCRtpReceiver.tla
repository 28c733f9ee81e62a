--------------------------- MODULE MCRtpReceiver ---------------------------
(* RtpReceiver for TLC: sequence numbers and timestamps of the first source *)
(* wrap; timestamps stand still, advance and jump.  Linphone's streams have *)
(* the threshold 0, which oRTP sets to 50 before.                           *)
EXTENDS RtpReceiver

FirstValue    == <<9, 3>>
StartValue    == <<62, 11>>
StepsValue    == {0, 1, 6}
SettingsValue == {[permissive |-> FALSE, threshold |-> 0],
                  [permissive |-> TRUE, threshold |-> 1]}
============================================================================
