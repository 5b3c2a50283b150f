---------------------------- MODULE HermesConsent ---------------------------
(***************************************************************************)
(* The mapping under which Hermes implements CloudConsent.                 *)
(***************************************************************************)
EXTENDS Hermes

OpenTurns == {cur[c] : c \in {d \in Callers : pc[d] # "idle"}}

DoneTurns == {r.turn : r \in closed}

ExemptTurns ==
    {cur[c] : c \in {d \in Callers : pc[d] # "idle" /\ ~cfg[d].gate}}
    \cup {r.turn : r \in {q \in closed : ~cfg[q.by].gate}}

Consent == INSTANCE CloudConsent WITH
    Turns   <- 1..MaxTurns,
    open    <- OpenTurns,
    exempt  <- ExemptTurns,
    consent <- {g.turn : g \in {h \in gate : h.approved}},
    left    <- {sent[i].turn : i \in DOMAIN sent},
    done    <- DoneTurns

\* Every turn of every caller keeps the promise of CloudConsent: it leaves the
\* device while it is open, after its own consent, and never once it has ended.
ImplementsConsent == Consent!Spec
=============================================================================
