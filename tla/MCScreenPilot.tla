---------------------------- MODULE MCScreenPilot ----------------------------
(***************************************************************************)
(* An instance of ScreenPilot for TLC: two places, so that the pointer can *)
(* be elsewhere, and two steps, so that one can leave something behind.    *)
(***************************************************************************)
EXTENDS ScreenPilot

CONSTANTS here, there

Places == {here, there}
=============================================================================
