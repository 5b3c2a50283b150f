---------------------------- MODULE HermesProofs ----------------------------
(***************************************************************************)
(* Proofs about Hermes for every set of command lines, every set of        *)
(* environments and requests, and every number of turns.                   *)
(***************************************************************************)
EXTENDS Hermes, TLAPS

\* The actions of a caller, and what they all say about its place in the turn.
USE DEF Goto

(***************************************************************************)
(* Type correctness.                                                       *)
(***************************************************************************)

\* A decision of the router is a record of the two fields.
LEMMA DecisionsType ==
    ASSUME NEW k, NEW p, NEW d \in Decisions(k, p)
    PROVE  d.engine \in {"local", "cloud"} /\ d.intent \in Intents
BY DEF Decisions, Decide, Intents

\* The Trend tier names turns of the log.
LEMMA TrendType ==
    ASSUME bus \in Seq(LogLines)
    PROVE  Trend \subseteq Nat
<1> SUFFICES ASSUME NEW i \in DOMAIN bus PROVE bus[i].turn \in Nat
  BY DEF Trend
<1>1. bus[i] \in LogLines
  OBVIOUS
<1> QED BY <1>1 DEF LogLines

\* Publishing a line keeps the log a log.
LEMMA PublishType ==
    ASSUME bus \in Seq(LogLines), NEW t \in Nat,
           NEW type \in {"user", "cloud_confirm", "cam"}
    PROVE  Append(bus, Event(type, t)) \in Seq(LogLines)
<1>1. Event(type, t) \in LogLines
  BY DEF Event, LogLines
<1> QED BY <1>1

\* No step of a turn takes a variable out of its type.
LEMMA TypeStep == TypeOK /\ [Next]_vars => TypeOK'
<1> SUFFICES ASSUME TypeOK, [Next]_vars PROVE TypeOK'
  OBVIOUS
<1> USE DEF TypeOK
<1>1. ASSUME NEW c \in Callers, NEW p \in Prompts, Ask(c, p) PROVE TypeOK'
  <2>1. asked' \in 0..MaxTurns
    BY <1>1, HermesAssumption DEF Ask
  <2>2. pc' \in [Callers -> Stages] /\ cur' \in [Callers -> Nat]
        /\ req' \in [Callers -> PromptType]
    BY <1>1, HermesAssumption DEF Ask, Stages
  <2>3. bus' \in Seq(LogLines)
    BY <1>1, HermesAssumption, PublishType DEF Ask
  <2> QED BY <1>1, <2>1, <2>2, <2>3 DEF Ask
<1>2. ASSUME NEW c \in Callers, Assemble(c) PROVE TypeOK'
  <2> PICK rows \in SUBSET memory, recent \in {Trend, {}} :
        ctx' = [ctx EXCEPT ![c] = rows \cup recent]
    BY <1>2 DEF Assemble
  <2>1. rows \cup recent \subseteq Nat
    BY TrendType
  <2>2. ctx' \in [Callers -> SUBSET Nat]
    BY <2>1
  <2> QED BY <1>2, <2>2 DEF Assemble, Stages
<1>3. ASSUME NEW c \in Callers, AssembleRaises(c) PROVE TypeOK'
  BY <1>3 DEF AssembleRaises, Stages
<1>4. ASSUME NEW c \in Callers, Route(c) PROVE TypeOK'
  <2> PICK d \in Decisions(cfg[c], req[c]) :
        /\ pc' = [pc EXCEPT ![c] = IF d.engine = "cloud" THEN "available" ELSE "local"]
        /\ intent' = [intent EXCEPT ![c] = d.intent]
    BY <1>4 DEF Route
  <2>1. d.intent \in Intents
    BY DecisionsType
  <2> QED BY <1>4, <2>1 DEF Route, Stages
<1>5. ASSUME NEW c \in Callers, Available(c) PROVE TypeOK'
  BY <1>5 DEF Available, Stages
<1>6. ASSUME NEW c \in Callers, SkipConfirm(c) PROVE TypeOK'
  BY <1>6 DEF SkipConfirm, Stages
<1>7. ASSUME NEW c \in Callers, Confirm(c) PROVE TypeOK'
  <2> PICK a \in Heard(c) :
        /\ pc' = [pc EXCEPT ![c] = IF Approves(c, a) THEN "send" ELSE "local"]
        /\ gate' = gate \cup {[turn |-> cur[c], heard |-> a, approved |-> Approves(c, a)]}
    BY <1>7 DEF Confirm
  <2>1. a \in Answers /\ Approves(c, a) \in BOOLEAN
    <3>1. a \in Answers
      BY DEF Heard
    <3>2. Approves(c, a) \in BOOLEAN
      BY DEF Approves
    <3> QED BY <3>1, <3>2
  <2>2. gate' \subseteq [turn : Nat, heard : Answers, approved : BOOLEAN]
    BY <2>1
  <2>3. bus' \in Seq(LogLines)
    BY <1>7, PublishType DEF Confirm
  <2> QED BY <1>7, <2>2, <2>3 DEF Confirm, Stages
<1>8. ASSUME NEW c \in Callers, ConfirmRaises(c) PROVE TypeOK'
  <2>1. bus' \in Seq(LogLines)
    BY <1>8, PublishType DEF ConfirmRaises
  <2> QED BY <1>8, <2>1 DEF ConfirmRaises, Stages
<1>9. ASSUME NEW c \in Callers, GenerateUnsent(c) PROVE TypeOK'
  BY <1>9 DEF GenerateUnsent, Stages
<1>10. ASSUME NEW c \in Callers, Generate(c) PROVE TypeOK'
  <2>1. sent' \in Seq([turn : Nat, by : Callers, about : SUBSET Nat])
    BY <1>10 DEF Generate, Payload
  <2>2. wrote' \subseteq [turn : Nat, engine : Engines, result : Results]
    <3>1. \A r \in {"text", "empty"} :
            Answer(c, "cloud", r) \in [turn : Nat, engine : Engines, result : Results]
      BY DEF Answer, Results, Engines
    <3> QED BY <1>10, <3>1 DEF Generate
  <2> QED BY <1>10, <2>1, <2>2 DEF Generate, Stages, Results, Engines
<1>11. ASSUME NEW c \in Callers, RunAgents(c) PROVE TypeOK'
  <2>1. wrote' \subseteq [turn : Nat, engine : Engines, result : Results]
    BY <1>11 DEF RunAgents, Answer, Results, Engines
  <2> QED BY <1>11, <2>1 DEF RunAgents, Stages, Results, Engines
<1>12. ASSUME NEW c \in Callers, RunLocal(c) PROVE TypeOK'
  <2>1. wrote' \subseteq [turn : Nat, engine : Engines, result : Results]
    BY <1>12 DEF RunLocal, LocalModel, Answer, Results, Engines
  <2> QED BY <1>12, <2>1 DEF RunLocal, LocalModel, Stages, Results, Engines
<1>13. ASSUME NEW c \in Callers, Remember(c) PROVE TypeOK'
  BY <1>13 DEF Remember, Stages
<1>14. ASSUME NEW c \in Callers, Reply(c) PROVE TypeOK'
  <2>1. bus' \in Seq(LogLines)
    BY <1>14, PublishType DEF Reply
  <2> QED BY <1>14, <2>1 DEF Reply, Return, Stages, Results, Engines, Intents
<1>15. ASSUME NEW c \in Callers, Raised(c) PROVE TypeOK'
  BY <1>15 DEF Raised, Return, Stages, Results, Engines, Intents
<1>16. CASE UNCHANGED vars
  BY <1>16 DEF vars
<1> QED
  BY <1>1, <1>2, <1>3, <1>4, <1>5, <1>6, <1>7, <1>8, <1>9, <1>10, <1>11,
     <1>12, <1>13, <1>14, <1>15, <1>16 DEF Next, Step

\* Every variable keeps its type, on any path of any turn.
THEOREM TypeCorrect == Spec => []TypeOK
<1>1. Init => TypeOK
  BY HermesAssumption DEF Init, TypeOK, Stages, Intents, Results, Engines, PromptType
<1> QED BY <1>1, TypeStep, PTL DEF Spec

-----------------------------------------------------------------------------
(***************************************************************************)
(* The inductive invariant.  SendIsGranted, SendAtMostOnce, ReplyIsHonest  *)
(* and MemoryIsAnswered speak of the histories only; what makes them hold  *)
(* is where each open turn stands.                                         *)
(***************************************************************************)

Active(c) == pc[c] # "idle"

Unsent == {"assemble", "route", "available", "confirm", "send"}
Unasked == {"assemble", "route", "available", "confirm"}
Unanswered == Unsent \cup {"local", "raised"}

\* Turns are numbered as they are asked: no two callers work on the same one, and
\* the histories only know turns that were asked, the closed ones apart.
TurnsAreOwn ==
    /\ \A c \in Callers : cur[c] <= asked /\ (Active(c) => cur[c] # 0)
    /\ \A c, d \in Callers : Active(c) /\ Active(d) /\ cur[c] = cur[d] => c = d
    /\ \A g \in gate : g.turn <= asked
    /\ \A i \in DOMAIN sent : sent[i].turn <= asked
    /\ \A r \in closed : r.turn <= asked
    /\ \A c \in Callers, r \in closed : Active(c) => r.turn # cur[c]

\* A turn that has not passed the cloud stage has sent nothing; one that has not
\* passed the gate was not asked about; one that passed it was approved.
StageIsHonest ==
    /\ \A c \in Callers, i \in DOMAIN sent :
          pc[c] \in Unsent => sent[i].turn # cur[c]
    /\ \A c \in Callers, g \in gate :
          pc[c] \in Unasked => g.turn # cur[c]
    /\ \A c \in Callers, g \in gate :
          pc[c] = "send" /\ g.turn = cur[c] => g.approved
    /\ \A c \in Callers :
          pc[c] = "send" /\ cfg[c].gate => Granted(cur[c])

\* No engine has answered a turn before it is past the local engines; from there on
\* the turn carries the answer of the one engine that did.
AnswersAreOwn ==
    /\ \A a \in wrote : a.turn <= asked
    /\ \A c \in Callers, a \in wrote : pc[c] \in Unanswered => a.turn # cur[c]
    /\ \A c \in Callers : pc[c] \in {"remember", "reply"} =>
          \E a \in wrote : a.turn = cur[c] /\ a.engine = engine[c] /\ a.result = result[c]
    /\ \A c \in Callers, a \in wrote :
          pc[c] \in {"remember", "reply"} /\ a.turn = cur[c] => a.engine = engine[c]

\* Only the router leads to the cloud stages, and only a configured cloud to the
\* gate.
StageIsRouted ==
    /\ \A c \in Callers : pc[c] \in {"available", "confirm", "send"} =>
          cfg[c].router /\ ~req[c].localWord
    /\ \A c \in Callers : pc[c] \in {"confirm", "send"} => cfg[c].cloud

History == TurnsAreOwn /\ StageIsHonest /\ AnswersAreOwn /\ StageIsRouted
           /\ SendIsGranted /\ SendAtMostOnce /\ ReplyIsHonest /\ MemoryIsAnswered

TurnInv == TypeOK /\ History

\* No turn is open, and the histories are empty.
LEMMA InitTurn == Init => History
BY DEF Init, History, TurnsAreOwn, StageIsHonest, AnswersAreOwn, StageIsRouted,
       SendIsGranted, SendAtMostOnce, ReplyIsHonest, MemoryIsAnswered, Active, Unsent,
       Unasked

\* A step inside a turn that writes no history keeps the invariant, provided it
\* comes before the answer, does not go back to a stage of the cloud, and enters one
\* only as the router and the gate allow.
LEMMA QuietKeeps ==
    ASSUME TurnInv, TypeOK', NEW c \in Callers, NEW to \in Unanswered,
           pc[c] \in Unanswered, pc' = [pc EXCEPT ![c] = to],
           UNCHANGED <<cfg, cur, asked, req, result, engine, memory, gate, sent,
                       wrote, closed>>,
           to \in Unsent => pc[c] \in Unsent,
           to \in Unasked => pc[c] \in Unasked,
           to = "send" => pc[c] = "confirm" /\ ~cfg[c].gate,
           to \in {"available", "confirm", "send"} => cfg[c].router /\ ~req[c].localWord,
           to \in {"confirm", "send"} => cfg[c].cloud
    PROVE  History'
<1> USE DEF TurnInv, History
<1>0. pc[c] \notin {"idle", "remember", "reply"} /\ to \notin {"idle", "remember", "reply"}
  BY DEF Unanswered, Unsent
<1>1. TurnsAreOwn'
  BY <1>0 DEF TurnsAreOwn, Active, TypeOK
<1>2. StageIsHonest'
  <2>1. \A d \in Callers, i \in DOMAIN sent : pc'[d] \in Unsent => sent[i].turn # cur[d]
    BY DEF StageIsHonest, TypeOK
  <2>2. \A d \in Callers, g \in gate : pc'[d] \in Unasked => g.turn # cur[d]
    BY DEF StageIsHonest, TypeOK
  <2>3. \A d \in Callers, g \in gate : pc'[d] = "send" /\ g.turn = cur[d] => g.approved
    BY DEF StageIsHonest, Unasked, TypeOK
  <2>4. \A d \in Callers : pc'[d] = "send" /\ cfg[d].gate => Granted(cur[d])
    BY DEF StageIsHonest, TypeOK
  <2> QED BY <2>1, <2>2, <2>3, <2>4 DEF StageIsHonest, Granted
<1>3. AnswersAreOwn'
  BY <1>0 DEF AnswersAreOwn, TypeOK
<1>4. StageIsRouted'
  BY DEF StageIsRouted, TypeOK
<1>5. SendIsGranted'
  BY DEF SendIsGranted, Granted
<1>6. SendAtMostOnce'
  BY DEF SendAtMostOnce
<1>7. ReplyIsHonest'
  BY DEF ReplyIsHonest
<1>8. MemoryIsAnswered'
  BY <1>0 DEF MemoryIsAnswered, TypeOK
<1> QED BY <1>1, <1>2, <1>3, <1>4, <1>5, <1>6, <1>7, <1>8

\* The turns the histories name are numbers.
LEMMA HistoryType ==
    ASSUME TypeOK
    PROVE  /\ \A c \in Callers : cur[c] \in Nat
           /\ \A g \in gate : g.turn \in Nat
           /\ \A i \in DOMAIN sent : sent[i].turn \in Nat /\ sent[i].by \in Callers
           /\ \A a \in wrote : a.turn \in Nat
           /\ \A r \in closed : r.turn \in Nat
<1>1. ASSUME NEW i \in DOMAIN sent PROVE sent[i].turn \in Nat /\ sent[i].by \in Callers
  <2> DEFINE Payloads == [turn : Nat, by : Callers, about : SUBSET Nat]
  <2>1. sent \in Seq(Payloads)
    BY DEF TypeOK
  <2>2. ASSUME NEW S, sent \in Seq(S) PROVE sent[i] \in S
    BY <2>2
  <2>3. sent[i] \in Payloads
    BY <2>1, <2>2
  <2> QED BY <2>3
<1>2. \A g \in gate : g.turn \in Nat
  BY DEF TypeOK
<1>3. \A r \in closed : r.turn \in Nat
  BY DEF TypeOK
<1>4. \A c \in Callers : cur[c] \in Nat
  BY DEF TypeOK
<1>5. \A a \in wrote : a.turn \in Nat
  BY DEF TypeOK
<1> QED BY <1>1, <1>2, <1>3, <1>4, <1>5

\* The answer of an engine is the first of its turn, and the turn carries it on.
LEMMA AnswerKeeps ==
    ASSUME TurnInv, NEW c \in Callers, NEW a0,
           pc[c] \in Unanswered, pc'[c] \in {"remember", "reply"},
           \A d \in Callers \ {c} : pc'[d] = pc[d] /\ engine'[d] = engine[d]
                                     /\ result'[d] = result[d],
           UNCHANGED <<cur, asked, closed>>, wrote' = wrote \cup {a0},
           a0.turn = cur[c] /\ a0.engine = engine'[c] /\ a0.result = result'[c]
    PROVE  AnswersAreOwn' /\ ReplyIsHonest'
<1> USE DEF TurnInv, History
<1>1. Active(c) /\ cur[c] <= asked
  BY DEF Active, Unanswered, Unsent, TurnsAreOwn
<1>2. \A d \in Callers : d # c /\ Active(d) => cur[d] # cur[c]
  BY <1>1 DEF TurnsAreOwn
<1>3. \A r \in closed : r.turn # cur[c]
  BY <1>1 DEF TurnsAreOwn
<1>4. AnswersAreOwn'
  <2>1. \A a \in wrote' : a.turn <= asked
    BY <1>1 DEF AnswersAreOwn
  <2>2. ASSUME NEW d \in Callers, NEW a \in wrote', pc'[d] \in Unanswered
        PROVE  a.turn # cur[d]
    <3>1. d # c /\ Active(d)
      BY <2>2 DEF Active, Unanswered, Unsent
    <3> QED BY <1>2, <2>2, <3>1 DEF AnswersAreOwn
  <2>3. ASSUME NEW d \in Callers, pc'[d] \in {"remember", "reply"}
        PROVE  \E a \in wrote' : a.turn = cur[d] /\ a.engine = engine'[d]
                                 /\ a.result = result'[d]
    BY <2>3 DEF AnswersAreOwn
  <2>4. ASSUME NEW d \in Callers, NEW a \in wrote',
               pc'[d] \in {"remember", "reply"}, a.turn = cur[d]
        PROVE  a.engine = engine'[d]
    <3>1. CASE d = c
      BY <2>4, <3>1 DEF AnswersAreOwn
    <3>2. CASE d # c
      BY <1>2, <2>4, <3>2 DEF AnswersAreOwn, Active
    <3> QED BY <3>1, <3>2
  <2> QED BY <2>1, <2>2, <2>3, <2>4 DEF AnswersAreOwn
<1>5. ReplyIsHonest'
  BY <1>3 DEF ReplyIsHonest
<1> QED BY <1>4, <1>5

\* A request opens a turn with a number that no history knows.
LEMMA AskKeeps ==
    ASSUME TurnInv, TypeOK', NEW c \in Callers, NEW p \in Prompts, Ask(c, p)
    PROVE  History'
<1> USE DEF TurnInv, History, Ask
<1>1. /\ cur' = [cur EXCEPT ![c] = asked + 1] /\ pc[c] = "idle"
      /\ pc' = [pc EXCEPT ![c] = "assemble"]
      /\ UNCHANGED <<cfg, engine, result, memory, gate, sent, wrote, closed>>
      /\ asked \in Nat /\ asked' = asked + 1
      /\ cur \in [Callers -> Nat] /\ pc \in [Callers -> Stages]
  BY DEF TypeOK
<1>2. /\ \A d \in Callers : cur[d] # asked + 1
      /\ \A g \in gate : g.turn # asked + 1
      /\ \A i \in DOMAIN sent : sent[i].turn # asked + 1
      /\ \A a \in wrote : a.turn # asked + 1
      /\ \A r \in closed : r.turn # asked + 1
  BY <1>1, HistoryType DEF TurnsAreOwn, AnswersAreOwn
<1>3. TurnsAreOwn'
  <2>1. /\ \A d \in Callers : cur'[d] <= asked' /\ (pc'[d] # "idle" => cur'[d] # 0)
        /\ \A g \in gate : g.turn <= asked'
        /\ \A i \in DOMAIN sent : sent[i].turn <= asked'
        /\ \A r \in closed : r.turn <= asked'
    BY <1>1, HistoryType DEF TurnsAreOwn, Active
  <2>2. \A d, e \in Callers :
          pc'[d] # "idle" /\ pc'[e] # "idle" /\ cur'[d] = cur'[e] => d = e
    BY <1>1, <1>2 DEF TurnsAreOwn, Active
  <2>3. \A d \in Callers, r \in closed : pc'[d] # "idle" => r.turn # cur'[d]
    BY <1>1, <1>2 DEF TurnsAreOwn, Active
  <2> QED BY <1>1, <2>1, <2>2, <2>3 DEF TurnsAreOwn, Active
<1>4. StageIsHonest'
  <2>1. \A d \in Callers, i \in DOMAIN sent : pc'[d] \in Unsent => sent[i].turn # cur'[d]
    BY <1>1, <1>2 DEF StageIsHonest
  <2>2. \A d \in Callers, g \in gate : pc'[d] \in Unasked => g.turn # cur'[d]
    BY <1>1, <1>2 DEF StageIsHonest
  <2>3. \A d \in Callers, g \in gate : pc'[d] = "send" /\ g.turn = cur'[d] => g.approved
    BY <1>1 DEF StageIsHonest
  <2>4. \A d \in Callers : pc'[d] = "send" /\ cfg[d].gate => Granted(cur'[d])
    BY <1>1 DEF StageIsHonest
  <2> QED BY <1>1, <2>1, <2>2, <2>3, <2>4 DEF StageIsHonest, Granted
<1>5. StageIsRouted'
  BY <1>1 DEF StageIsRouted, TypeOK
<1>6. SendIsGranted' /\ SendAtMostOnce' /\ ReplyIsHonest'
  BY <1>1 DEF SendIsGranted, Granted, SendAtMostOnce, ReplyIsHonest
<1>7. MemoryIsAnswered'
  <2>1. \A d \in Callers : pc[d] = "reply" => pc'[d] = "reply" /\ cur'[d] = cur[d]
    BY <1>1
  <2> QED BY <1>1, <2>1 DEF MemoryIsAnswered
<1>8. AnswersAreOwn'
  <2>1. \A a \in wrote : a.turn <= asked'
    BY <1>1, HistoryType DEF AnswersAreOwn
  <2>2. \A d \in Callers, a \in wrote : pc'[d] \in Unanswered => a.turn # cur'[d]
    BY <1>1, <1>2 DEF AnswersAreOwn
  <2>3. ASSUME NEW d \in Callers, pc'[d] \in {"remember", "reply"}
        PROVE  pc[d] = pc'[d] /\ cur'[d] = cur[d]
    BY <1>1, <2>3
  <2>4. ASSUME NEW d \in Callers, pc'[d] \in {"remember", "reply"}
        PROVE  /\ \E a \in wrote : a.turn = cur'[d] /\ a.engine = engine[d]
                                   /\ a.result = result[d]
               /\ \A a \in wrote : a.turn = cur'[d] => a.engine = engine[d]
    BY <2>3, <2>4 DEF AnswersAreOwn
  <2> QED BY <1>1, <2>1, <2>2, <2>4 DEF AnswersAreOwn
<1> QED BY <1>3, <1>4, <1>5, <1>6, <1>7, <1>8

\* The gate decides for the turn it is asked about, and for no other.
LEMMA ConfirmKeeps ==
    ASSUME TurnInv, TypeOK', NEW c \in Callers, Confirm(c)
    PROVE  History'
<1> USE DEF TurnInv, History
<1> PICK a \in Heard(c) :
      /\ pc' = [pc EXCEPT ![c] = IF Approves(c, a) THEN "send" ELSE "local"]
      /\ gate' = gate \cup {[turn |-> cur[c], heard |-> a, approved |-> Approves(c, a)]}
  BY DEF Confirm
<1> DEFINE g0 == [turn |-> cur[c], heard |-> a, approved |-> Approves(c, a)]
<1>1. /\ pc[c] = "confirm" /\ pc \in [Callers -> Stages] /\ pc' \in [Callers -> Stages]
      /\ UNCHANGED <<cfg, cur, asked, req, engine, result, memory, sent, wrote, closed>>
      /\ Approves(c, a) \in BOOLEAN
  BY DEF Confirm, TypeOK, Approves
<1>2. /\ gate' = gate \cup {g0}
      /\ g0.turn = cur[c] /\ g0.approved = Approves(c, a)
  OBVIOUS
<1> HIDE DEF g0
<1>3. \A d \in Callers : d # c /\ Active(d) => cur[d] # cur[c]
  BY <1>1 DEF TurnsAreOwn, Active
<1>4. TurnsAreOwn'
  BY <1>1, <1>2 DEF TurnsAreOwn, Active
<1>5. StageIsHonest'
  <2>1. \A d \in Callers, i \in DOMAIN sent : pc'[d] \in Unsent => sent[i].turn # cur[d]
    BY <1>1 DEF StageIsHonest, Unsent
  <2>2. \A d \in Callers, g \in gate' : pc'[d] \in Unasked => g.turn # cur[d]
    BY <1>1, <1>2, <1>3 DEF StageIsHonest, Unasked, Active
  <2>3. \A d \in Callers, g \in gate' : pc'[d] = "send" /\ g.turn = cur[d] => g.approved
    BY <1>1, <1>2, <1>3 DEF StageIsHonest, Unasked, Active
  <2>4. \A d \in Callers : pc'[d] = "send" /\ cfg[d].gate =>
          \E g \in gate' : g.turn = cur[d] /\ g.approved
    BY <1>1, <1>2 DEF StageIsHonest, Granted
  <2> QED BY <1>1, <2>1, <2>2, <2>3, <2>4 DEF StageIsHonest, Granted
<1>6. StageIsRouted'
  BY <1>1 DEF StageIsRouted
<1>7. SendIsGranted'
  BY <1>1, <1>2 DEF SendIsGranted, Granted
<1>8. SendAtMostOnce'
  BY <1>1, <1>2 DEF SendAtMostOnce, StageIsHonest, Unsent
<1>9. ReplyIsHonest'
  BY <1>1 DEF ReplyIsHonest
<1>10. MemoryIsAnswered'
  BY <1>1 DEF MemoryIsAnswered
<1>11. AnswersAreOwn'
  BY <1>1 DEF AnswersAreOwn, Unanswered, Unsent
<1> QED BY <1>4, <1>5, <1>6, <1>7, <1>8, <1>9, <1>10, <1>11

\* The payload that leaves is the first of its turn, and the turn was approved.
LEMMA GenerateKeeps ==
    ASSUME TurnInv, TypeOK', NEW c \in Callers, Generate(c)
    PROVE  History'
<1> USE DEF TurnInv, History
<1> DEFINE n == Len(sent) + 1
<1>1. /\ pc[c] = "send" /\ pc' \in [Callers -> Stages]
      /\ \A d \in Callers \ {c} : pc'[d] = pc[d] /\ engine'[d] = engine[d]
                                    /\ result'[d] = result[d]
      /\ pc'[c] \in {"local", "remember"}
      /\ UNCHANGED <<cfg, cur, asked, req, memory, gate, closed>>
  BY DEF Generate, TypeOK
<1>2. /\ DOMAIN sent' = DOMAIN sent \cup {n}
      /\ \A i \in DOMAIN sent : i # n /\ sent'[i] = sent[i]
      /\ sent'[n] = Payload(c)
  BY DEF Generate, Payload, TypeOK
<1> HIDE DEF n
<1>3. sent'[n].turn = cur[c] /\ sent'[n].by = c
  BY <1>2 DEF Payload
<1>4. \A d \in Callers : d # c /\ Active(d) => cur[d] # cur[c]
  BY <1>1 DEF TurnsAreOwn, Active
<1>5. TurnsAreOwn'
  BY <1>1, <1>2, <1>3 DEF TurnsAreOwn, Active
<1>6. StageIsHonest'
  <2>1. \A d \in Callers, i \in DOMAIN sent' : pc'[d] \in Unsent => sent'[i].turn # cur[d]
    BY <1>1, <1>2, <1>3, <1>4 DEF StageIsHonest, Unsent, Active
  <2>2. \A d \in Callers, g \in gate : pc'[d] \in Unasked => g.turn # cur[d]
    BY <1>1 DEF StageIsHonest, Unasked
  <2>3. \A d \in Callers, g \in gate : pc'[d] = "send" /\ g.turn = cur[d] => g.approved
    BY <1>1 DEF StageIsHonest
  <2>4. \A d \in Callers : pc'[d] = "send" /\ cfg[d].gate => Granted(cur[d])
    BY <1>1 DEF StageIsHonest
  <2> QED BY <1>1, <2>1, <2>2, <2>3, <2>4 DEF StageIsHonest, Granted
<1>7. StageIsRouted'
  BY <1>1 DEF StageIsRouted
<1>8. SendIsGranted'
  BY <1>1, <1>2, <1>3 DEF SendIsGranted, StageIsHonest, Granted
<1>9. SendAtMostOnce'
  BY <1>1, <1>2, <1>3 DEF SendAtMostOnce, StageIsHonest, Unsent
<1>10. AnswersAreOwn' /\ ReplyIsHonest'
  <2>1. CASE pc'[c] = "local"
    <3>1. UNCHANGED <<engine, result, wrote>>
      BY <1>1, <2>1 DEF Generate, TypeOK
    <3>2. AnswersAreOwn'
      BY <1>1, <2>1, <3>1 DEF AnswersAreOwn, Unanswered, Unsent
    <3> QED BY <1>1, <3>1, <3>2 DEF ReplyIsHonest
  <2>2. CASE pc'[c] = "remember"
    <3> PICK r \in {"text", "empty"} :
          /\ engine' = [engine EXCEPT ![c] = "cloud"]
          /\ result' = [result EXCEPT ![c] = r]
          /\ wrote' = wrote \cup {Answer(c, "cloud", r)}
      BY <2>2 DEF Generate, TypeOK
    <3>1. /\ Answer(c, "cloud", r).turn = cur[c]
          /\ Answer(c, "cloud", r).engine = engine'[c]
          /\ Answer(c, "cloud", r).result = result'[c]
      BY DEF Answer, TypeOK
    <3>2. pc[c] \in Unanswered
      BY <1>1 DEF Unanswered, Unsent
    <3> QED BY <1>1, <2>2, <3>1, <3>2, AnswerKeeps
  <2> QED BY <1>1, <2>1, <2>2
<1>11. MemoryIsAnswered'
  BY <1>1 DEF MemoryIsAnswered
<1> QED BY <1>5, <1>6, <1>7, <1>8, <1>9, <1>10, <1>11

\* The answer of a local engine or of the agent pool.
LEMMA LocalKeeps ==
    ASSUME TurnInv, TypeOK', NEW c \in Callers, RunAgents(c) \/ RunLocal(c)
    PROVE  History'
<1> USE DEF TurnInv, History
<1>1. PICK e \in Engines, r \in Results, to \in {"remember", "reply"} :
        /\ engine' = [engine EXCEPT ![c] = e]
        /\ result' = [result EXCEPT ![c] = r]
        /\ wrote' = wrote \cup {Answer(c, e, r)}
        /\ pc' = [pc EXCEPT ![c] = to]
  <2>1. CASE RunAgents(c)
    BY <2>1 DEF RunAgents, Engines, Results
  <2>2. CASE RunLocal(c)
    BY <2>2 DEF RunLocal, LocalModel, Engines, Results
  <2> QED BY <2>1, <2>2
<1>2. /\ pc[c] = "local" /\ pc \in [Callers -> Stages] /\ pc'[c] = to
      /\ \A d \in Callers \ {c} : pc'[d] = pc[d] /\ engine'[d] = engine[d]
                                    /\ result'[d] = result[d]
      /\ UNCHANGED <<cfg, cur, asked, req, memory, gate, sent, closed>>
  BY <1>1 DEF RunAgents, RunLocal, TypeOK
<1>3. AnswersAreOwn' /\ ReplyIsHonest'
  <2>1. /\ Answer(c, e, r).turn = cur[c]
        /\ Answer(c, e, r).engine = engine'[c]
        /\ Answer(c, e, r).result = result'[c]
    BY <1>1 DEF Answer, TypeOK
  <2>2. pc[c] \in Unanswered
    BY <1>2 DEF Unanswered
  <2> QED BY <1>1, <1>2, <2>1, <2>2, AnswerKeeps
<1>4. TurnsAreOwn'
  BY <1>2 DEF TurnsAreOwn, Active
<1>5. StageIsHonest'
  BY <1>2 DEF StageIsHonest, Granted, Unsent, Unasked
<1>6. StageIsRouted'
  BY <1>2 DEF StageIsRouted
<1>7. SendIsGranted' /\ SendAtMostOnce'
  BY <1>2 DEF SendIsGranted, Granted, SendAtMostOnce
<1>8. MemoryIsAnswered'
  BY <1>2 DEF MemoryIsAnswered
<1> QED BY <1>3, <1>4, <1>5, <1>6, <1>7, <1>8

\* A row is written only for a turn about to be answered with a text.
LEMMA RememberKeeps ==
    ASSUME TurnInv, TypeOK', NEW c \in Callers, Remember(c)
    PROVE  History'
<1> USE DEF TurnInv, History
<1>1. /\ pc[c] = "remember" /\ pc \in [Callers -> Stages] /\ pc' = [pc EXCEPT ![c] = "reply"]
      /\ UNCHANGED <<cfg, cur, asked, req, engine, result, gate, sent, wrote, closed>>
      /\ \A t \in memory' : t \in memory \/ (t = cur[c] /\ result[c] = "text")
  BY DEF Remember, TypeOK
<1>2. TurnsAreOwn'
  BY <1>1 DEF TurnsAreOwn, Active
<1>3. StageIsHonest'
  BY <1>1 DEF StageIsHonest, Granted, Unsent, Unasked
<1>4. StageIsRouted'
  BY <1>1 DEF StageIsRouted
<1>5. SendIsGranted' /\ SendAtMostOnce' /\ ReplyIsHonest'
  BY <1>1 DEF SendIsGranted, Granted, SendAtMostOnce, ReplyIsHonest
<1>6. MemoryIsAnswered'
  BY <1>1 DEF MemoryIsAnswered
<1>7. AnswersAreOwn'
  BY <1>1 DEF AnswersAreOwn, Unanswered, Unsent
<1> QED BY <1>2, <1>3, <1>4, <1>5, <1>6, <1>7

\* A turn ends once, with the engine and the result it had.
LEMMA FinishKeeps ==
    ASSUME TurnInv, TypeOK', NEW c \in Callers, Reply(c) \/ Raised(c)
    PROVE  History'
<1> USE DEF TurnInv, History
<1> DEFINE Ended(r) ==
      /\ closed' = closed \cup {r} /\ r.turn = cur[c]
      /\ \/ pc[c] = "reply" /\ r.engine = engine[c] /\ r.result = result[c]
         \/ pc[c] = "raised" /\ r.engine = "none"
<1> PICK r0 : Ended(r0)
  <2>1. CASE Reply(c)
    <3> DEFINE r == [turn |-> cur[c], by |-> c, engine |-> engine[c], result |-> result[c]]
    <3>1. Ended(r)
      BY <2>1 DEF Reply
    <3> QED BY <3>1
  <2>2. CASE Raised(c)
    <3> DEFINE r == [turn |-> cur[c], by |-> c, engine |-> "none", result |-> "error"]
    <3>1. Ended(r)
      BY <2>2 DEF Raised
    <3> QED BY <3>1
  <2> QED BY <2>1, <2>2
<1>1. /\ Active(c) /\ pc \in [Callers -> Stages] /\ pc' = [pc EXCEPT ![c] = "idle"]
      /\ \A d \in Callers \ {c} : engine'[d] = engine[d] /\ result'[d] = result[d]
      /\ UNCHANGED <<cfg, cur, asked, req, memory, gate, sent, wrote>>
  BY DEF Reply, Raised, Return, Active, TypeOK
<1>2. TurnsAreOwn'
  <2>1. /\ \A d \in Callers : cur[d] <= asked /\ (pc'[d] # "idle" => cur[d] # 0)
        /\ \A r \in closed' : r.turn <= asked
    BY <1>1 DEF TurnsAreOwn, Active
  <2>2. \A d \in Callers, r \in closed' : pc'[d] # "idle" => r.turn # cur[d]
    BY <1>1 DEF TurnsAreOwn, Active
  <2> QED BY <1>1, <2>1, <2>2 DEF TurnsAreOwn, Active
<1>3. StageIsHonest'
  <2>1. \A d \in Callers, i \in DOMAIN sent : pc'[d] \in Unsent => sent[i].turn # cur[d]
    BY <1>1 DEF StageIsHonest, Unsent
  <2>2. \A d \in Callers, g \in gate : pc'[d] \in Unasked => g.turn # cur[d]
    BY <1>1 DEF StageIsHonest, Unasked
  <2>3. \A d \in Callers, g \in gate : pc'[d] = "send" /\ g.turn = cur[d] => g.approved
    BY <1>1 DEF StageIsHonest
  <2>4. \A d \in Callers : pc'[d] = "send" /\ cfg[d].gate => Granted(cur[d])
    BY <1>1 DEF StageIsHonest
  <2> QED BY <1>1, <2>1, <2>2, <2>3, <2>4 DEF StageIsHonest, Granted
<1>4. StageIsRouted'
  BY <1>1 DEF StageIsRouted
<1>5. SendIsGranted' /\ SendAtMostOnce'
  BY <1>1 DEF SendIsGranted, Granted, SendAtMostOnce
<1>6. ReplyIsHonest'
  <2>1. \A r \in closed : r.turn # cur[c]
    BY <1>1 DEF TurnsAreOwn
  <2>2. r0.engine # "none" => \E a \in wrote : a.turn = r0.turn /\ a.engine = r0.engine
                                              /\ a.result = r0.result
    BY DEF AnswersAreOwn
  <2>3. \A a \in wrote : a.turn = r0.turn => a.engine = r0.engine
    BY DEF AnswersAreOwn, Unanswered
  <2> QED BY <1>1, <2>1, <2>2, <2>3 DEF ReplyIsHonest
<1>7. MemoryIsAnswered'
  <2> SUFFICES ASSUME NEW t \in memory
               PROVE  \/ \E r \in closed' : r.turn = t /\ r.result = "text"
                      \/ \E d \in Callers :
                            cur[d] = t /\ pc'[d] = "reply" /\ result'[d] = "text"
    BY <1>1 DEF MemoryIsAnswered
  <2>1. CASE \E r \in closed : r.turn = t /\ r.result = "text"
    BY <2>1
  <2>2. CASE \E d \in Callers : cur[d] = t /\ pc[d] = "reply" /\ result[d] = "text"
    BY <2>2, <1>1
  <2> QED BY <2>1, <2>2 DEF MemoryIsAnswered
<1>8. AnswersAreOwn'
  BY <1>1 DEF AnswersAreOwn, Unanswered, Unsent
<1> QED BY <1>2, <1>3, <1>4, <1>5, <1>6, <1>7, <1>8

\* TurnInv is inductive.
LEMMA TurnStep == TurnInv /\ [Next]_vars => TurnInv'
<1> SUFFICES ASSUME TurnInv, [Next]_vars PROVE History'
  BY TypeStep DEF TurnInv
<1>0. TypeOK /\ TypeOK'
  BY TypeStep DEF TurnInv
<1>1. ASSUME NEW c \in Callers, NEW p \in Prompts, Ask(c, p) PROVE History'
  BY <1>0, <1>1, AskKeeps
<1>2. ASSUME NEW c \in Callers, Assemble(c) PROVE History'
  BY <1>0, <1>2, QuietKeeps DEF Assemble, Unanswered, Unsent, Unasked
<1>3. ASSUME NEW c \in Callers, AssembleRaises(c) PROVE History'
  BY <1>0, <1>3, QuietKeeps DEF AssembleRaises, Unanswered, Unsent, Unasked
<1>4. ASSUME NEW c \in Callers, Route(c) PROVE History'
  <2> PICK d \in Decisions(cfg[c], req[c]) :
        pc' = [pc EXCEPT ![c] = IF d.engine = "cloud" THEN "available" ELSE "local"]
    BY <1>4 DEF Route
  <2>1. d.engine = "cloud" => cfg[c].router /\ ~req[c].localWord
    BY DEF Decisions, Decide
  <2> QED BY <1>0, <1>4, <2>1, QuietKeeps DEF Route, Unanswered, Unsent, Unasked
<1>5. ASSUME NEW c \in Callers, Available(c) PROVE History'
  <2>1. cfg[c].router /\ ~req[c].localWord
    BY <1>5 DEF TurnInv, History, StageIsRouted, Available
  <2> QED BY <1>0, <1>5, <2>1, QuietKeeps DEF Available, Unanswered, Unsent, Unasked
<1>6. ASSUME NEW c \in Callers, SkipConfirm(c) PROVE History'
  <2>1. cfg[c].router /\ ~req[c].localWord /\ cfg[c].cloud
    BY <1>6 DEF TurnInv, History, StageIsRouted, SkipConfirm
  <2> QED BY <1>0, <1>6, <2>1, QuietKeeps DEF SkipConfirm, Unanswered, Unsent, Unasked
<1>7. ASSUME NEW c \in Callers, Confirm(c) PROVE History'
  BY <1>0, <1>7, ConfirmKeeps
<1>8. ASSUME NEW c \in Callers, ConfirmRaises(c) PROVE History'
  BY <1>0, <1>8, QuietKeeps DEF ConfirmRaises, Unanswered, Unsent, Unasked
<1>9. ASSUME NEW c \in Callers, GenerateUnsent(c) PROVE History'
  BY <1>0, <1>9, QuietKeeps DEF GenerateUnsent, Unanswered, Unsent, Unasked
<1>10. ASSUME NEW c \in Callers, Generate(c) PROVE History'
  BY <1>0, <1>10, GenerateKeeps
<1>11. ASSUME NEW c \in Callers, RunAgents(c) \/ RunLocal(c) PROVE History'
  BY <1>0, <1>11, LocalKeeps
<1>12. ASSUME NEW c \in Callers, Remember(c) PROVE History'
  BY <1>0, <1>12, RememberKeeps
<1>13. ASSUME NEW c \in Callers, Reply(c) \/ Raised(c) PROVE History'
  BY <1>0, <1>13, FinishKeeps
<1>14. CASE UNCHANGED vars
  <2>1. TurnsAreOwn' /\ StageIsHonest' /\ AnswersAreOwn' /\ StageIsRouted'
    BY <1>14 DEF vars, TurnInv, History, TurnsAreOwn, StageIsHonest, AnswersAreOwn,
                 StageIsRouted, Granted, Active
  <2>2. SendIsGranted' /\ SendAtMostOnce' /\ ReplyIsHonest' /\ MemoryIsAnswered'
    BY <1>14 DEF vars, TurnInv, History, SendIsGranted, SendAtMostOnce, ReplyIsHonest,
                 MemoryIsAnswered, Granted
  <2> QED BY <2>1, <2>2 DEF History
<1> QED
  BY <1>1, <1>2, <1>3, <1>4, <1>5, <1>6, <1>7, <1>8, <1>9, <1>10, <1>11,
     <1>12, <1>13, <1>14 DEF Next, Step

\* Every reachable state satisfies the invariant.
THEOREM TurnInvariant == Spec => []TurnInv
<1>1. Init => TurnInv
  BY InitTurn, HermesAssumption
     DEF Init, TurnInv, TypeOK, Stages, Intents, Results, Engines, PromptType
<1> QED BY <1>1, TurnStep, PTL DEF Spec

\* No payload leaves the device without the approval of its own turn, for callers
\* with the gate on, whatever the other callers do.
THEOREM SendIsGrantedHolds == Spec => []SendIsGranted
<1>1. TurnInv => SendIsGranted
  BY DEF TurnInv, History
<1> QED BY <1>1, TurnInvariant, PTL

\* A turn contacts the cloud at most once, and never after it was declined.
THEOREM SendAtMostOnceHolds == Spec => []SendAtMostOnce
<1>1. TurnInv => SendAtMostOnce
  BY DEF TurnInv, History
<1> QED BY <1>1, TurnInvariant, PTL

\* Every reply is the answer of the engine it names to its own turn, the only engine
\* that answered it, and no turn ends twice.
THEOREM ReplyIsHonestHolds == Spec => []ReplyIsHonest
<1>1. TurnInv => ReplyIsHonest
  BY DEF TurnInv, History
<1> QED BY <1>1, TurnInvariant, PTL

\* The General store holds only turns whose user got the answer.
THEOREM MemoryIsAnsweredHolds == Spec => []MemoryIsAnswered
<1>1. TurnInv => MemoryIsAnswered
  BY DEF TurnInv, History
<1> QED BY <1>1, TurnInvariant, PTL

\* What the router keeps local is never sent: only Generate appends a payload,
\* and no turn reaches it that was not routed to a configured cloud.
THEOREM OnlyRoutedIsSentHolds == Spec => OnlyRoutedIsSent
<1> DEFINE Routed(i) == LET c == sent'[i].by
                        IN  cfg[c].router /\ cfg[c].cloud /\ ~req[c].localWord
           Kept == \A i \in DOMAIN sent' \ DOMAIN sent : Routed(i)
<1>1. TurnInv /\ [Next]_vars => [Kept]_vars
  <2> SUFFICES ASSUME TurnInv, [Next]_vars, NEW i \in DOMAIN sent' \ DOMAIN sent
               PROVE  Routed(i)
    OBVIOUS
  <2>1. ASSUME NEW c \in Callers, Generate(c) PROVE Routed(i)
    <3>1. sent'[i] = Payload(c)
      BY <2>1 DEF Generate, Payload, TurnInv, TypeOK
    <3> QED BY <2>1, <3>1 DEF Generate, Payload, TurnInv, History, StageIsRouted
  <2>2. sent' # sent
    OBVIOUS
  <2> QED
    BY <2>1, <2>2 DEF Next, Step, Ask, Assemble, AssembleRaises, Route, Available,
       SkipConfirm, Confirm, ConfirmRaises, GenerateUnsent, RunAgents, RunLocal,
       Remember, Reply, Raised, Return, vars
<1> QED BY <1>1, TurnInvariant, PTL DEF Spec, OnlyRoutedIsSent
=============================================================================
