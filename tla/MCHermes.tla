------------------------------ MODULE MCHermes ------------------------------
(***************************************************************************)
(* Instances of Hermes for TLC: the voice loop and one lathe-cloud process *)
(* over the environments and the requests the router tells apart.          *)
(***************************************************************************)
EXTENDS HermesConsent

\* The cloud switched on as shipped; the gate opted out, with deep local
\* answers; the cloud switched off.
MCConfigs ==
    {[router |-> TRUE, cloud |-> TRUE,  gate |-> TRUE,  deep |-> FALSE],
     [router |-> TRUE, cloud |-> TRUE,  gate |-> FALSE, deep |-> TRUE],
     [router |-> TRUE, cloud |-> FALSE, gate |-> FALSE, deep |-> FALSE]}

\* The gate on, as local-llm.nix ships it.
GateOnly == {[router |-> TRUE, cloud |-> TRUE, gate |-> TRUE, deep |-> FALSE]}

\* An OS action that also names deep work, deep work, and neither.
MCPrompts ==
    {[localWord |-> TRUE,  cloudWord |-> TRUE],
     [localWord |-> FALSE, cloudWord |-> TRUE],
     [localWord |-> FALSE, cloudWord |-> FALSE]}

DeepWork == {[localWord |-> FALSE, cloudWord |-> TRUE]}
=============================================================================
