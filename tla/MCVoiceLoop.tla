----------------------------- MODULE MCVoiceLoop ----------------------------
(***************************************************************************)
(* Instances of VoiceLoop for TLC.  The constants are numbers, given in    *)
(* the configurations.                                                     *)
(***************************************************************************)
EXTENDS VoiceLoop
=============================================================================
