---------------------------- MODULE CloudConsent ----------------------------
(***************************************************************************)
(* What LatheOS promises of the cloud, with no engine, router or memory in *)
(* it: a turn leaves the device only while it is open, and only after the  *)
(* consent given in that turn, unless the owner of the box opted out of    *)
(* being asked.  Hermes implements it under the mapping of HermesConsent.  *)
(***************************************************************************)
CONSTANT Turns   \* identifiers of turns

VARIABLES
    open,      \* turns begun and not ended
    exempt,    \* turns begun with the confirm gate switched off
    consent,   \* turns whose user approved the cloud
    left,      \* turns that left the device
    done       \* turns that ended

vars == <<open, exempt, consent, left, done>>

Init ==
    /\ open = {}
    /\ exempt = {}
    /\ consent = {}
    /\ left = {}
    /\ done = {}

Open(t) ==
    /\ t \notin open \cup done
    /\ open' = open \cup {t}
    /\ exempt' \in {exempt, exempt \cup {t}}
    /\ UNCHANGED <<consent, left, done>>

Approve(t) ==
    /\ t \in open \ (left \cup exempt)
    /\ consent' = consent \cup {t}
    /\ UNCHANGED <<open, exempt, left, done>>

Leave(t) ==
    /\ t \in open \cap (consent \cup exempt)
    /\ t \notin left
    /\ left' = left \cup {t}
    /\ UNCHANGED <<open, exempt, consent, done>>

Close(t) ==
    /\ t \in open
    /\ open' = open \ {t}
    /\ done' = done \cup {t}
    /\ UNCHANGED <<exempt, consent, left>>

Next == \E t \in Turns : Open(t) \/ Approve(t) \/ Leave(t) \/ Close(t)

Spec == Init /\ [][Next]_vars
=============================================================================
