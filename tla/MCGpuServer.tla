----------------------------- MODULE MCGpuServer -----------------------------
(***************************************************************************)
(* An instance of GpuServer for TLC: the pilot with its two routes, and a  *)
(* client that asks once; for the speech server both ask once.             *)
(***************************************************************************)
EXTENDS GpuServer

CONSTANTS pilot, daemon

Clients == {pilot, daemon}

Pilots == {pilot}
=============================================================================
