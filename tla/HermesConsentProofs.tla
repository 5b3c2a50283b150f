------------------------- MODULE HermesConsentProofs ------------------------
(***************************************************************************)
(* Proof that Hermes implements CloudConsent, for every value of the       *)
(* constants.                                                              *)
(***************************************************************************)
EXTENDS HermesConsent, HermesProofs

USE DEF Goto

Approved == {g.turn : g \in {h \in gate : h.approved}}

Left == {sent[i].turn : i \in DOMAIN sent}

\* The mapping only looks at the place of the turns and at the histories.
LEMMA QuietMaps ==
    ASSUME TypeOK, NEW c \in Callers, NEW to \in Stages \ {"idle"}, Active(c),
           pc' = [pc EXCEPT ![c] = to], UNCHANGED <<cfg, cur, gate, sent, closed>>
    PROVE  UNCHANGED Consent!vars
<1>1. \A d \in Callers : pc'[d] # "idle" <=> pc[d] # "idle"
  BY DEF TypeOK, Active
<1>2. OpenTurns' = OpenTurns
  BY <1>1 DEF OpenTurns
<1>3. ExemptTurns' = ExemptTurns
  BY <1>1 DEF ExemptTurns
<1>4. DoneTurns' = DoneTurns
  BY DEF DoneTurns
<1> QED BY <1>2, <1>3, <1>4 DEF Consent!vars

\* An open turn has a number of its own, and belongs to one caller.
LEMMA OpenTurn ==
    ASSUME TurnInv, NEW c \in Callers, Active(c)
    PROVE  /\ cur[c] \in 1..MaxTurns /\ cur[c] \in OpenTurns /\ cur[c] \notin DoneTurns
           /\ cur[c] \in ExemptTurns <=> ~cfg[c].gate
<1> USE DEF TurnInv, History
<1>1. cur[c] \in 1..MaxTurns
  BY HermesAssumption DEF TurnsAreOwn, TypeOK
<1>2. cur[c] \in OpenTurns
  BY DEF OpenTurns, Active
<1>3. cur[c] \notin DoneTurns
  BY DEF DoneTurns, TurnsAreOwn
<1>4. cur[c] \in ExemptTurns <=> ~cfg[c].gate
  <2>1. ASSUME ~cfg[c].gate PROVE cur[c] \in ExemptTurns
    BY <2>1 DEF ExemptTurns, Active
  <2>2. ASSUME cur[c] \in ExemptTurns PROVE ~cfg[c].gate
    <3>1. PICK d \in Callers : Active(d) /\ ~cfg[d].gate /\ cur[d] = cur[c]
      BY <2>2 DEF ExemptTurns, Active, TurnsAreOwn
    <3> QED BY <3>1 DEF TurnsAreOwn
  <2> QED BY <2>1, <2>2
<1> QED BY <1>1, <1>2, <1>3, <1>4

\* A request opens its turn, exempt if the gate is off.
LEMMA AskMaps ==
    ASSUME TurnInv, NEW c \in Callers, NEW p \in Prompts, Ask(c, p)
    PROVE  Consent!Open(asked + 1) /\ asked + 1 \in 1..MaxTurns
<1> USE DEF TurnInv, History
<1>1. /\ cur' = [cur EXCEPT ![c] = asked + 1] /\ pc[c] = "idle"
      /\ pc' = [pc EXCEPT ![c] = "assemble"]
      /\ UNCHANGED <<cfg, gate, sent, closed>>
      /\ asked \in Nat /\ asked < MaxTurns
      /\ cur \in [Callers -> Nat] /\ pc \in [Callers -> Stages]
  BY HermesAssumption DEF TypeOK, Ask
<1>2. /\ \A d \in Callers : cur[d] # asked + 1
      /\ \A r \in closed : r.turn # asked + 1
  BY <1>1, HistoryType DEF TurnsAreOwn, TypeOK
<1>3. asked + 1 \notin OpenTurns \cup DoneTurns
  BY <1>2 DEF OpenTurns, DoneTurns
<1>4. OpenTurns' = OpenTurns \cup {asked + 1}
  BY <1>1 DEF OpenTurns
<1>5. ExemptTurns' = IF cfg[c].gate THEN ExemptTurns ELSE ExemptTurns \cup {asked + 1}
  BY <1>1 DEF ExemptTurns
<1>6. DoneTurns' = DoneTurns
  BY <1>1 DEF DoneTurns
<1> QED BY <1>1, <1>3, <1>4, <1>5, <1>6, HermesAssumption DEF Consent!Open

\* A yes at the gate is the consent of the turn; any other answer is nothing.
LEMMA ConfirmMaps ==
    ASSUME TurnInv, TypeOK', NEW c \in Callers, Confirm(c)
    PROVE  Consent!Approve(cur[c]) \/ UNCHANGED Consent!vars
<1> USE DEF TurnInv, History
<1> PICK a \in Heard(c) :
      /\ pc' = [pc EXCEPT ![c] = IF Approves(c, a) THEN "send" ELSE "local"]
      /\ gate' = gate \cup {[turn |-> cur[c], heard |-> a, approved |-> Approves(c, a)]}
  BY DEF Confirm
<1> DEFINE g0 == [turn |-> cur[c], heard |-> a, approved |-> Approves(c, a)]
<1>1. /\ pc[c] = "confirm" /\ Active(c) /\ pc \in [Callers -> Stages] /\ cfg[c].gate
      /\ UNCHANGED <<cfg, cur, sent, closed>>
  BY DEF Confirm, TypeOK, Active
<1>2. /\ gate' = gate \cup {g0}
      /\ g0.turn = cur[c] /\ g0.approved = Approves(c, a)
  OBVIOUS
<1> HIDE DEF g0
<1>3. \A d \in Callers : pc'[d] # "idle" <=> pc[d] # "idle"
  BY <1>1
<1>4. UNCHANGED <<OpenTurns, ExemptTurns, DoneTurns, Left>>
  <2>1. OpenTurns' = OpenTurns
    BY <1>1, <1>3 DEF OpenTurns
  <2>2. ExemptTurns' = ExemptTurns
    BY <1>1, <1>3 DEF ExemptTurns
  <2>3. DoneTurns' = DoneTurns /\ Left' = Left
    BY <1>1 DEF DoneTurns, Left
  <2> QED BY <2>1, <2>2, <2>3
<1>5. cur[c] \notin Left
  BY <1>1 DEF Left, StageIsHonest, Unsent
<1>6. cur[c] \in OpenTurns /\ cur[c] \notin ExemptTurns
  BY <1>1, OpenTurn
<1>7. Approved' = IF Approves(c, a) THEN Approved \cup {cur[c]} ELSE Approved
  BY <1>2 DEF Approved
<1> QED
  BY <1>4, <1>5, <1>6, <1>7 DEF Consent!Approve, Consent!vars, Approved, Left

\* The payload that leaves is the departure of its turn.
LEMMA GenerateMaps ==
    ASSUME TurnInv, TypeOK', NEW c \in Callers, Generate(c)
    PROVE  Consent!Leave(cur[c])
<1> USE DEF TurnInv, History
<1>1. /\ pc[c] = "send" /\ Active(c)
      /\ \A d \in Callers : pc'[d] # "idle" <=> pc[d] # "idle"
      /\ UNCHANGED <<cfg, cur, gate, closed>>
  BY DEF Generate, TypeOK, Active
<1>2. /\ DOMAIN sent' = DOMAIN sent \cup {Len(sent) + 1}
      /\ \A i \in DOMAIN sent : i # Len(sent) + 1 /\ sent'[i] = sent[i]
      /\ sent'[Len(sent) + 1].turn = cur[c]
  BY DEF Generate, Payload, TypeOK
<1>3. UNCHANGED <<OpenTurns, ExemptTurns, DoneTurns, Approved>>
  <2>1. OpenTurns' = OpenTurns
    BY <1>1 DEF OpenTurns
  <2>2. ExemptTurns' = ExemptTurns
    BY <1>1 DEF ExemptTurns
  <2>3. DoneTurns' = DoneTurns /\ Approved' = Approved
    BY <1>1 DEF DoneTurns, Approved
  <2> QED BY <2>1, <2>2, <2>3
<1>4. Left' = Left \cup {cur[c]}
  BY <1>2 DEF Left
<1>5. cur[c] \notin Left
  BY <1>1 DEF Left, StageIsHonest, Unsent
<1>6. cur[c] \in OpenTurns /\ cur[c] \in Approved \cup ExemptTurns
  <2>1. CASE cfg[c].gate
    <3>1. Granted(cur[c])
      BY <1>1, <2>1 DEF StageIsHonest
    <3>2. cur[c] \in Approved
      BY <3>1 DEF Granted, Approved
    <3> QED BY <1>1, <3>2, OpenTurn
  <2>2. CASE ~cfg[c].gate
    BY <1>1, <2>2, OpenTurn
  <2> QED BY <2>1, <2>2
<1> QED
  BY <1>3, <1>4, <1>5, <1>6 DEF Consent!Leave, Approved, Left

\* The end of a turn closes it; it stays exempt if it was.
LEMMA FinishMaps ==
    ASSUME TurnInv, TypeOK', NEW c \in Callers, Reply(c) \/ Raised(c)
    PROVE  Consent!Close(cur[c])
<1> USE DEF TurnInv, History
<1> DEFINE Ended(r) == closed' = closed \cup {r} /\ r.turn = cur[c] /\ r.by = c
<1> PICK r0 : Ended(r0)
  <2>1. CASE Reply(c)
    <3> DEFINE r == [turn |-> cur[c], by |-> c, engine |-> engine[c], result |-> result[c]]
    <3>1. Ended(r)
      BY <2>1 DEF Reply
    <3> QED BY <3>1
  <2>2. CASE Raised(c)
    <3> DEFINE r == [turn |-> cur[c], by |-> c, engine |-> "none", result |-> "error"]
    <3>1. Ended(r)
      BY <2>2 DEF Raised
    <3> QED BY <3>1
  <2> QED BY <2>1, <2>2
<1>1. /\ Active(c) /\ pc \in [Callers -> Stages] /\ pc' = [pc EXCEPT ![c] = "idle"]
      /\ UNCHANGED <<cfg, cur, gate, sent>>
  BY DEF Reply, Raised, Return, Active, TypeOK
<1>2. OpenTurns' = OpenTurns \ {cur[c]}
  <2>1. \A d \in Callers : pc[d] # "idle" /\ d # c => cur[d] # cur[c]
    BY <1>1 DEF TurnsAreOwn, Active
  <2> QED BY <1>1, <2>1 DEF OpenTurns
<1>3. DoneTurns' = DoneTurns \cup {cur[c]}
  BY <1>1 DEF DoneTurns
<1>4. ExemptTurns' = ExemptTurns
  BY <1>1 DEF ExemptTurns, Active
<1>5. Approved' = Approved /\ Left' = Left
  BY <1>1 DEF Approved, Left
<1>6. cur[c] \in OpenTurns
  BY <1>1, OpenTurn
<1> QED BY <1>2, <1>3, <1>4, <1>5, <1>6 DEF Consent!Close, Approved, Left

\* Hermes implements CloudConsent: every step of every caller is a step of the
\* promise or none.
THEOREM HermesImplementsConsent == Spec => ImplementsConsent
<1>1. Init => Consent!Init
  BY DEF Init, Consent!Init, OpenTurns, ExemptTurns, DoneTurns
<1>2. TurnInv /\ [Next]_vars => [Consent!Next]_Consent!vars
  <2> SUFFICES ASSUME TurnInv, [Next]_vars PROVE [Consent!Next]_Consent!vars
    OBVIOUS
  <2>0. TypeOK /\ TypeOK'
    BY TypeStep DEF TurnInv
  <2>1. ASSUME NEW c \in Callers, NEW p \in Prompts, Ask(c, p) PROVE Consent!Next
    BY <2>1, AskMaps DEF Consent!Next
  <2>2. ASSUME NEW c \in Callers, Confirm(c) PROVE [Consent!Next]_Consent!vars
    <3>1. cur[c] \in 1..MaxTurns
      BY <2>2, OpenTurn DEF Confirm, Active
    <3>2. Consent!Approve(cur[c]) \/ UNCHANGED Consent!vars
      BY <2>0, <2>2, ConfirmMaps
    <3> QED BY <3>1, <3>2 DEF Consent!Next, Consent!Approve
  <2>3. ASSUME NEW c \in Callers, Generate(c) PROVE Consent!Next
    <3>1. cur[c] \in 1..MaxTurns
      BY <2>3, OpenTurn DEF Generate, Active
    <3>2. Consent!Leave(cur[c])
      BY <2>0, <2>3, GenerateMaps
    <3> QED BY <3>1, <3>2 DEF Consent!Next, Consent!Leave
  <2>4. ASSUME NEW c \in Callers, Reply(c) \/ Raised(c) PROVE Consent!Next
    <3>1. cur[c] \in 1..MaxTurns
      BY <2>4, OpenTurn DEF Reply, Raised, Active
    <3> QED BY <2>0, <2>4, <3>1, FinishMaps DEF Consent!Next
  <2>5. ASSUME NEW c \in Callers,
               \/ Assemble(c) \/ AssembleRaises(c) \/ Route(c) \/ Available(c)
               \/ SkipConfirm(c) \/ ConfirmRaises(c) \/ GenerateUnsent(c)
        PROVE  UNCHANGED Consent!vars
    <3>1. \E to \in Stages \ {"idle"} : pc' = [pc EXCEPT ![c] = to]
      BY <2>5 DEF Assemble, AssembleRaises, Route, Available, SkipConfirm,
                  ConfirmRaises, GenerateUnsent, Stages
    <3>2. Active(c) /\ UNCHANGED <<cfg, cur, gate, sent, closed>>
      BY <2>5 DEF Assemble, AssembleRaises, Route, Available, SkipConfirm,
                  ConfirmRaises, GenerateUnsent, Active
    <3> QED BY <2>0, <3>1, <3>2, QuietMaps
  <2>6. ASSUME NEW c \in Callers, RunAgents(c) \/ RunLocal(c) \/ Remember(c)
        PROVE  UNCHANGED Consent!vars
    <3>1. \E to \in Stages \ {"idle"} : pc' = [pc EXCEPT ![c] = to]
      BY <2>6 DEF RunAgents, RunLocal, Remember, Stages
    <3>2. Active(c) /\ UNCHANGED <<cfg, cur, gate, sent, closed>>
      BY <2>6 DEF RunAgents, RunLocal, Remember, Active
    <3> QED BY <2>0, <3>1, <3>2, QuietMaps
  <2>7. CASE UNCHANGED vars
    BY <2>7 DEF vars, Consent!vars, OpenTurns, ExemptTurns, DoneTurns
  <2> QED
    BY <2>1, <2>2, <2>3, <2>4, <2>5, <2>6, <2>7 DEF Next, Step
<1> QED BY <1>1, <1>2, TurnInvariant, PTL DEF Spec, ImplementsConsent, Consent!Spec
=============================================================================
