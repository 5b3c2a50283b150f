---------------------------- MODULE MCMemoryStore ----------------------------
(***************************************************************************)
(* An instance of MemoryStore for TLC: two processes that do the same      *)
(* operations and may be exchanged, since each can be the daemon.          *)
(***************************************************************************)
EXTENDS MemoryStore, TLC

CONSTANTS daemon, cloud

Processes == {daemon, cloud}

Symmetry == Permutations(Proc)
=============================================================================
