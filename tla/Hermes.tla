------------------------------- MODULE Hermes -------------------------------
(***************************************************************************)
(* One assistant turn, from the request to the reply, as hermes.py runs it *)
(* for every caller of the same brain: the voice loop of cam-daemon and    *)
(* each invocation of the lathe-cloud command.  Every await of the code is *)
(* the end of a step, so turns of different callers interleave there; they *)
(* share the General memory database and the event log that the Trend tier *)
(* is read from.                                                           *)
(*                                                                         *)
(* A turn is an identifier: what a memory row, a log line or a cloud       *)
(* payload says is abstracted to the set of turns whose words it contains. *)
(***************************************************************************)
EXTENDS Naturals, Sequences, FiniteSets

CONSTANTS
    Voice,      \* the voice loop of the daemon
    Clis,       \* concurrent lathe-cloud processes
    Configs,    \* environments a caller may have started with
    Prompts,    \* classes of requests
    MaxTurns,   \* bound on the requests of a behaviour
    GeneralK,   \* memory.py general_k: rows recalled per turn
    TrendTail   \* memory.py trend_turns * 2: log lines read per turn

Callers == Clis \cup {Voice}

\* Environment switches read once by HermesConfig, RouterConfig and CloudConfig.
ConfigType == [router : BOOLEAN, cloud : BOOLEAN, gate : BOOLEAN, deep : BOOLEAN]

\* What the keyword stages of the router can tell about a request.  It is never
\* blank: both callers turn a blank request away before respond().
PromptType == [localWord : BOOLEAN, cloudWord : BOOLEAN]

ASSUME HermesAssumption ==
    /\ Voice \notin Clis
    /\ Configs \subseteq ConfigType
    /\ Prompts \subseteq PromptType
    /\ MaxTurns \in Nat
    /\ GeneralK \in Nat
    /\ TrendTail \in Nat

\* Decision.intent: "quick" is os_action or simple, "deep" is one of coding,
\* research and architecture.  The code tells no more of it apart.
Intents == {"quick", "deep"}

Stages == {"idle", "assemble", "route", "available", "confirm", "send",
           "local", "remember", "reply", "raised"}

\* What the caller says when asked.  "no" stands for silence and an unheard reply
\* too; "no_with_yes_word" is a refusal whose transcript contains one of the
\* approving words ("no, not the cloud"); "auto" is --yes on the command line.
Answers == {"yes", "no", "no_with_yes_word", "auto"}

Results == {"none", "text", "empty", "error"}
Engines == {"none", "cloud", "voice_model", "heavy_model", "agents"}

VARIABLES
    cfg,      \* cfg[c]: the configuration of caller c, from the same llm.env
    pc,       \* pc[c]: the await the caller's turn has reached
    cur,      \* cur[c]: the caller's turn
    asked,    \* number of turns begun
    req,      \* req[c]: the class of the request
    ctx,      \* ctx[c]: turns whose words are in the assembled system prompt
    intent,   \* intent[c]: Decision.intent
    result,   \* result[c]: what the engine answered
    engine,   \* engine[c]: the engine that answered
    memory,   \* turns with a row in the General store
    bus,      \* the event log: [type, turn] in order
    gate,     \* history: what each confirm callback heard and returned
    sent,     \* history: the payloads that left the device, in order
    wrote,    \* history: the answers that engines gave and respond() went on with
    closed    \* history: how each finished turn ended

vars == <<cfg, pc, cur, asked, req, ctx, intent, result, engine, memory, bus,
          gate, sent, wrote, closed>>

-----------------------------------------------------------------------------

LogLines == [type : {"user", "cloud_confirm", "cam"}, turn : Nat]

Event(type, t) == [type |-> type, turn |-> t]

\* load_trend: the words of the user and of the assistant in the last lines.
Trend ==
    {bus[i].turn : i \in {j \in DOMAIN bus :
        /\ j + TrendTail > Len(bus)
        /\ bus[j].type \in {"user", "cam"}}}

\* Faulty: the two fields of Decision swapped.
DecideSwapped(e, i) == [engine |-> i, intent |-> e]

\* Decision.
Decide(e, i) == [engine |-> e, intent |-> i]

\* Faulty: the cloud keywords are tried before the local ones.
DecisionsCloudFirst(k, p) ==
    IF ~k.router THEN {Decide("local", "quick")}
    ELSE IF p.cloudWord THEN {Decide("local", "deep"), Decide("cloud", "deep")}
    ELSE {Decide("local", "quick"), Decide("cloud", "deep")}

\* route: every decision the three stages can reach for a request.
Decisions(k, p) ==
    IF ~k.router \/ p.localWord THEN {Decide("local", "quick")}
    ELSE {Decide("local", "quick")}                   \* an error while routing
         \cup (IF p.cloudWord
               THEN {Decide("local", "deep"),         \* offline
                     Decide("cloud", "deep")}         \* any label, or none
               ELSE {Decide("local", "quick"),        \* offline, no label, quick
                     Decide("cloud", "deep")})        \* a deep label

\* What a caller can be heard to answer: --yes answers before it is asked.
Heard(c) == IF c = Voice THEN Answers \ {"auto"} ELSE Answers

\* The voice gate looks for an approving word anywhere in the transcript, the
\* terminal gate compares the whole answer.
Approves(c, a) ==
    a \in {"yes", "auto"} \/ (c = Voice /\ a = "no_with_yes_word")

\* The body cloud.generate posts: the assembled system prompt and the request.
Payload(c) == [turn |-> cur[c], by |-> c, about |-> ctx[c] \cup {cur[c]}]

\* local_model_for.
LocalModel(i) == IF i = "quick" THEN "voice_model" ELSE "heavy_model"

\* The answer of an engine to the request of c.
Answer(c, e, r) == [turn |-> cur[c], engine |-> e, result |-> r]

Goto(c, from, to) ==
    /\ pc[c] = from
    /\ pc' = [pc EXCEPT ![c] = to]

-----------------------------------------------------------------------------

Init ==
    /\ \E k \in Configs : cfg = [c \in Callers |-> k]
    /\ pc = [c \in Callers |-> "idle"]
    /\ cur = [c \in Callers |-> 0]
    /\ asked = 0
    /\ req = [c \in Callers |-> [localWord |-> FALSE, cloudWord |-> FALSE]]
    /\ ctx = [c \in Callers |-> {}]
    /\ intent = [c \in Callers |-> "quick"]
    /\ result = [c \in Callers |-> "none"]
    /\ engine = [c \in Callers |-> "none"]
    /\ memory = {}
    /\ bus = <<>>
    /\ gate = {}
    /\ sent = <<>>
    /\ wrote = {}
    /\ closed = {}

\* A caller hands a request to respond(); the voice loop publishes it first.
Ask(c, p) ==
    /\ asked < MaxTurns
    /\ Goto(c, "idle", "assemble")
    /\ asked' = asked + 1
    /\ cur' = [cur EXCEPT ![c] = asked + 1]
    /\ req' = [req EXCEPT ![c] = p]
    /\ bus' = IF c = Voice THEN Append(bus, Event("user", asked + 1)) ELSE bus
    /\ UNCHANGED <<cfg, ctx, intent, result, engine, memory, gate, sent, wrote, closed>>

\* memory.assemble: at most k rows of the General store and the Trend tail (an
\* unreadable log has none).
Assemble(c) ==
    /\ Goto(c, "assemble", "route")
    /\ \E rows \in {s \in SUBSET memory : Cardinality(s) <= GeneralK},
          recent \in {Trend, {}} :
          ctx' = [ctx EXCEPT ![c] = rows \cup recent]
    /\ UNCHANGED <<cfg, cur, asked, req, intent, result, engine, memory, bus,
                   gate, sent, wrote, closed>>

\* assemble() lets an error of the Trend reader through, and respond() with it.
AssembleRaises(c) ==
    /\ Goto(c, "assemble", "raised")
    /\ UNCHANGED <<cfg, cur, asked, req, ctx, intent, result, engine, memory,
                   bus, gate, sent, wrote, closed>>

Route(c) ==
    /\ \E d \in Decisions(cfg[c], req[c]) :
          /\ Goto(c, "route", IF d.engine = "cloud" THEN "available" ELSE "local")
          /\ intent' = [intent EXCEPT ![c] = d.intent]
    /\ UNCHANGED <<cfg, cur, asked, req, ctx, result, engine, memory, bus,
                   gate, sent, wrote, closed>>

\* Faulty: an available cloud is used at once.
AvailableSends(c) ==
    /\ \/ cfg[c].cloud /\ Goto(c, "available", "send")
       \/ Goto(c, "available", "local")
    /\ UNCHANGED <<cfg, cur, asked, req, ctx, intent, result, engine, memory,
                   bus, gate, sent, wrote, closed>>

\* cloud.available: the switch, and a key that may or may not resolve.
Available(c) ==
    /\ \/ cfg[c].cloud /\ Goto(c, "available", "confirm")
       \/ Goto(c, "available", "local")
    /\ UNCHANGED <<cfg, cur, asked, req, ctx, intent, result, engine, memory,
                   bus, gate, sent, wrote, closed>>

\* LATHEOS_CLOUD_CONFIRM=0: the callback is not consulted.
SkipConfirm(c) ==
    /\ ~cfg[c].gate
    /\ Goto(c, "confirm", "send")
    /\ UNCHANGED <<cfg, cur, asked, req, ctx, intent, result, engine, memory,
                   bus, gate, sent, wrote, closed>>

Confirm(c) ==
    /\ cfg[c].gate
    /\ \E a \in Heard(c) :
          /\ Goto(c, "confirm", IF Approves(c, a) THEN "send" ELSE "local")
          /\ gate' = gate \cup {[turn |-> cur[c], heard |-> a,
                                 approved |-> Approves(c, a)]}
    /\ bus' = IF c = Voice THEN Append(bus, Event("cloud_confirm", cur[c])) ELSE bus
    /\ UNCHANGED <<cfg, cur, asked, req, ctx, intent, result, engine, memory,
                   sent, wrote, closed>>

\* Faulty: an error of the callback is swallowed after approved was set to TRUE.
ConfirmRaisesApproves(c) ==
    /\ cfg[c].gate
    /\ Goto(c, "confirm", "send")
    /\ UNCHANGED <<cfg, cur, asked, req, ctx, intent, result, engine, memory,
                   bus, gate, sent, wrote, closed>>

\* The callback records and transcribes outside any try block of respond().
ConfirmRaises(c) ==
    /\ cfg[c].gate
    /\ Goto(c, "confirm", "raised")
    /\ bus' = IF c = Voice THEN Append(bus, Event("cloud_confirm", cur[c])) ELSE bus
    /\ UNCHANGED <<cfg, cur, asked, req, ctx, intent, result, engine, memory,
                   gate, sent, wrote, closed>>

\* cloud.generate fails before the request is written: no key any more, or no
\* connection.
GenerateUnsent(c) ==
    /\ Goto(c, "send", "local")
    /\ UNCHANGED <<cfg, cur, asked, req, ctx, intent, result, engine, memory,
                   bus, gate, sent, wrote, closed>>

\* Faulty: a lost answer is retried.
GenerateRetries(c) ==
    /\ sent' = Append(sent, Payload(c))
    /\ Len(sent) < 2 * MaxTurns
    /\ \/ /\ Goto(c, "send", "send")
          /\ UNCHANGED <<result, engine, wrote>>
       \/ /\ Goto(c, "send", "remember")
          /\ engine' = [engine EXCEPT ![c] = "cloud"]
          /\ result' = [result EXCEPT ![c] = "text"]
          /\ wrote' = wrote \cup {Answer(c, "cloud", "text")}
    /\ UNCHANGED <<cfg, cur, asked, req, ctx, intent, memory, bus, gate, closed>>

\* The payload leaves the device; the answer may be lost, refused or malformed, and
\* the local engine has to answer instead.
Generate(c) ==
    /\ sent' = Append(sent, Payload(c))
    /\ \/ /\ Goto(c, "send", "local")
          /\ UNCHANGED <<result, engine, wrote>>
       \/ /\ Goto(c, "send", "remember")
          /\ engine' = [engine EXCEPT ![c] = "cloud"]
          /\ \E r \in {"text", "empty"} :
                /\ result' = [result EXCEPT ![c] = r]
                /\ wrote' = wrote \cup {Answer(c, "cloud", r)}
    /\ UNCHANGED <<cfg, cur, asked, req, ctx, intent, memory, bus, gate, closed>>

\* _run_local through the agent pool: only a non-empty summary is used.
RunAgents(c) ==
    /\ cfg[c].deep
    /\ intent[c] = "deep"
    /\ Goto(c, "local", "remember")
    /\ engine' = [engine EXCEPT ![c] = "agents"]
    /\ result' = [result EXCEPT ![c] = "text"]
    /\ wrote' = wrote \cup {Answer(c, "agents", "text")}
    /\ UNCHANGED <<cfg, cur, asked, req, ctx, intent, memory, bus, gate, sent, closed>>

\* Faulty: the reply is tagged with the engine that was sent the request.
RunLocalTagsSent(c) ==
    /\ engine' = [engine EXCEPT ![c] = IF \E i \in DOMAIN sent : sent[i].turn = cur[c]
                                       THEN "cloud" ELSE LocalModel(intent[c])]
    /\ \E r \in {"text", "empty", "error"} :
          /\ result' = [result EXCEPT ![c] = r]
          /\ wrote' = wrote \cup {Answer(c, LocalModel(intent[c]), r)}
          /\ Goto(c, "local", IF r = "error" THEN "reply" ELSE "remember")
    /\ UNCHANGED <<cfg, cur, asked, req, ctx, intent, memory, bus, gate, sent, closed>>

\* _run_local through one model, directly or after the pool came back empty.
RunLocal(c) ==
    /\ engine' = [engine EXCEPT ![c] = LocalModel(intent[c])]
    /\ \E r \in {"text", "empty", "error"} :
          /\ result' = [result EXCEPT ![c] = r]
          /\ wrote' = wrote \cup {Answer(c, LocalModel(intent[c]), r)}
          /\ Goto(c, "local", IF r = "error" THEN "reply" ELSE "remember")
    /\ UNCHANGED <<cfg, cur, asked, req, ctx, intent, memory, bus, gate, sent, closed>>

\* Faulty: an empty answer is remembered too.
RememberAnything(c) ==
    /\ Goto(c, "remember", "reply")
    /\ memory' \in {memory, memory \cup {cur[c]}}
    /\ UNCHANGED <<cfg, cur, asked, req, ctx, intent, result, engine, bus, gate,
                   sent, wrote, closed>>

\* _remember: nothing for an empty answer; a short exchange is skipped and a
\* failed write is ignored.
Remember(c) ==
    /\ Goto(c, "remember", "reply")
    /\ \/ /\ result[c] = "text"
          /\ memory' = memory \cup {cur[c]}
       \/ UNCHANGED memory
    /\ UNCHANGED <<cfg, cur, asked, req, ctx, intent, result, engine, bus, gate,
                   sent, wrote, closed>>

\* respond() returns: its locals are gone.
Return(c) ==
    /\ ctx' = [ctx EXCEPT ![c] = {}]
    /\ intent' = [intent EXCEPT ![c] = "quick"]
    /\ result' = [result EXCEPT ![c] = "none"]
    /\ engine' = [engine EXCEPT ![c] = "none"]
    /\ UNCHANGED <<cfg, cur, asked, req, memory, gate, sent, wrote>>

\* HermesReply reaches the caller; the voice loop publishes and speaks it.
Reply(c) ==
    /\ Goto(c, "reply", "idle")
    /\ closed' = closed \cup {[turn |-> cur[c], by |-> c, engine |-> engine[c],
                               result |-> result[c]]}
    /\ bus' = IF c = Voice THEN Append(bus, Event("cam", cur[c])) ELSE bus
    /\ Return(c)

\* Faulty: only the command line ends when respond() raises.
RaisedOnCli(c) ==
    /\ c # Voice
    /\ Goto(c, "raised", "idle")
    /\ closed' = closed \cup {[turn |-> cur[c], by |-> c, engine |-> "none",
                               result |-> "error"]}
    /\ bus' = bus
    /\ Return(c)

\* respond() raised: the voice loop apologises aloud, the command line aborts.
Raised(c) ==
    /\ Goto(c, "raised", "idle")
    /\ closed' = closed \cup {[turn |-> cur[c], by |-> c, engine |-> "none",
                               result |-> "error"]}
    /\ bus' = bus
    /\ Return(c)

\* The steps of a turn that has begun.
Step(c) ==
    \/ Assemble(c) \/ AssembleRaises(c)
    \/ Route(c)
    \/ Available(c)
    \/ SkipConfirm(c) \/ Confirm(c) \/ ConfirmRaises(c)
    \/ GenerateUnsent(c) \/ Generate(c)
    \/ RunAgents(c) \/ RunLocal(c)
    \/ Remember(c)
    \/ Reply(c) \/ Raised(c)

Next == \E c \in Callers : Step(c) \/ \E p \in Prompts : Ask(c, p)

\* Inside a spoken turn every network call and every recording has a timeout, and
\* whisper and piper are processes that end; nobody is obliged to ask anything,
\* nor to answer a prompt in a terminal.
Fairness == WF_vars(Step(Voice))

Spec     == Init /\ [][Next]_vars
FairSpec == Spec /\ Fairness

-----------------------------------------------------------------------------

\* Every variable has its type.
TypeOK ==
    /\ cfg \in [Callers -> Configs]
    /\ pc \in [Callers -> Stages]
    /\ cur \in [Callers -> Nat]
    /\ asked \in 0..MaxTurns
    /\ req \in [Callers -> PromptType]
    /\ ctx \in [Callers -> SUBSET Nat]
    /\ intent \in [Callers -> Intents]
    /\ result \in [Callers -> Results]
    /\ engine \in [Callers -> Engines]
    /\ memory \subseteq Nat
    /\ bus \in Seq(LogLines)
    /\ gate \subseteq [turn : Nat, heard : Answers, approved : BOOLEAN]
    /\ sent \in Seq([turn : Nat, by : Callers, about : SUBSET Nat])
    /\ wrote \subseteq [turn : Nat, engine : Engines, result : Results]
    /\ closed \subseteq [turn : Nat, by : Callers, engine : Engines, result : Results]

\* The gate was consulted for turn t and returned True.
Granted(t) == \E g \in gate : g.turn = t /\ g.approved

\* "Nothing leaves the device unless that callback returns True" (hermes.py 20),
\* for callers that run with the gate on: a payload was approved in the very turn
\* that sent it, never by another turn's yes, whatever the other callers do.
SendIsGranted ==
    \A i \in DOMAIN sent : cfg[sent[i].by].gate => Granted(sent[i].turn)

\* A turn contacts the cloud at most once, and a turn whose gate said no never
\* does: no error, retry or fallback of respond() sends a payload again.
SendAtMostOnce ==
    /\ \A i, j \in DOMAIN sent : sent[i].turn = sent[j].turn => i = j
    /\ \A i \in DOMAIN sent, g \in gate : sent[i].turn = g.turn => g.approved

\* The engine named in a reply is the one that wrote it, also when the cloud was sent
\* the request and its answer was lost: the reply is the answer of that engine to this
\* very turn, no other engine's answer was used, and each turn ends exactly once.
ReplyIsHonest ==
    /\ \A r \in closed : r.engine # "none" =>
          \E a \in wrote : a.turn = r.turn /\ a.engine = r.engine /\ a.result = r.result
    /\ \A r \in closed, a \in wrote : a.turn = r.turn => a.engine = r.engine
    /\ \A r1, r2 \in closed : r1.turn = r2.turn => r1 = r2

\* The General store only learns turns that ended with an answer the user got:
\* no row for a turn that raised, failed or came back empty.
MemoryIsAnswered ==
    \A t \in memory :
        \/ \E r \in closed : r.turn = t /\ r.result = "text"
        \/ \E c \in Callers : cur[c] = t /\ pc[c] = "reply" /\ result[c] = "text"

\* Only the router can make a turn leave the device: what it keeps local (the
\* switch is off, the request names an OS action, the cloud is disabled) is
\* never sent, on any path through the later stages.
OnlyRoutedIsSent ==
    [][\A i \in DOMAIN sent' \ DOMAIN sent :
          LET c == sent'[i].by
          IN  cfg[c].router /\ cfg[c].cloud /\ ~req[c].localWord]_vars

\* A spoken turn ends: respond() returns, or its error is caught and the voice loop
\* apologises.  (That the reply is published after it can fail is EventLog's matter.)
VoiceTurnEnds == pc[Voice] # "idle" ~> pc[Voice] = "idle"

\* __main__.py 256: "stay quiet to keep it on device".  The words of a turn the
\* user declined are in no payload, of this turn or of a later one.
DeclinedStaysOnDevice ==
    \A g \in gate, i \in DOMAIN sent : ~g.approved => g.turn \notin sent[i].about
=============================================================================
