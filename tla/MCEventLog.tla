----------------------------- MODULE MCEventLog -----------------------------
(***************************************************************************)
(* Instances of EventLog for TLC: lines that a cut can split, and lines of *)
(* different lengths, so that an offset may fall inside one.               *)
(***************************************************************************)
EXTENDS EventLog

TwoBytes == {2}

OneOrTwoBytes == {1, 2}
=============================================================================
