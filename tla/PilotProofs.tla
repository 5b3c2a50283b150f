----------------------------- MODULE PilotProofs -----------------------------
(***************************************************************************)
(* Proofs about ScreenPilot for every set of places and every bound on the *)
(* steps of a plan.                                                        *)
(***************************************************************************)
EXTENDS ScreenPilot, TLAPS

\* The loop has a plan, and nothing before it has; only three commands shoot the screen.
PlanIsThere ==
    /\ pc = "grab" => conf.cmd \in {"guide", "point", "capture"}
    /\ pc \in {"probe", "grab", "plan"} => plan = <<>>
    /\ pc \in {"step", "regrab", "ask", "click"} => plan # <<>>

\* The calls of a step from the move of the pointer on.
Shown == {"card", "start", "say", "ask", "click"}

\* A point belongs to the step it was located in, and none is left from the last.
PointIsOfStep ==
    /\ found <= i
    /\ plan # <<>> =>
          /\ pc \in {"regrab", "locate"} => plan[i] /\ point = Nowhere
          /\ pc \in {"step", "regrab", "locate"} => found < i
          /\ pc \in {"warp"} \cup Shown =>
                IF point = Nowhere THEN found < i ELSE found = i /\ plan[i]

\* The pointer is where it was moved until the user moves it.
PointerIsMoved ==
    /\ pc \in {"probe", "grab", "plan", "regrab", "locate", "warp"} => ~moved
    /\ pc \in Shown /\ moved =>
          point # Nowhere /\ conf.move /\ (pointer = point \/ nudged)

\* What was said is what the step has found out.
SaidIsKnown ==
    pc \in {"ask", "click"} =>
        /\ said = "moved" => moved
        /\ said = "look" => point = Nowhere

\* The step in hand has no click yet, and only a confirmed one gets any.
ClicksAreBehind ==
    /\ pc = "click" => conf.tty /\ conf.click /\ point # Nowhere
    /\ pc \notin {"shut", "done"} => \A k \in clicks : k.step < i

LoopInv ==
    PlanIsThere /\ PointIsOfStep /\ PointerIsMoved /\ SaidIsKnown /\ ClicksAreBehind

\* A screenshot is on the disk only in the calls that need it; the overlay is up only
\* once a card was shown, and its daemon is known unless the call was unwound.
Leftovers ==
    /\ conf.cmd = "guide" /\ shot =>
          pc \in {"grab", "plan", "regrab", "locate"} \/ cut \cap {"grab", "regrab"} # {}
    /\ eww.daemon => eww.started \/ pc = "start" \/ cut \cap {"start", "shut"} # {}
    /\ pc \in {"probe", "grab", "plan"} => eww = NoEww
    /\ conf.cmd = "guide" /\ pc = "done" => (eww.dir => "shut" \in cut)
                                            /\ (eww.daemon => cut \cap {"start", "shut"} # {})

-----------------------------------------------------------------------------

\* The plans are sequences, none of them empty.
LEMMA PlanTypes ==
    ASSUME NEW p \in Plans
    PROVE  p \in Seq(BOOLEAN) /\ p # <<>> /\ Len(p) \in Nat \ {0} /\ DOMAIN p = 1..Len(p)
<1>1. PICK n \in 1..MaxSteps : p \in [1..n -> BOOLEAN]
  BY DEF Plans
<1>2. n \in Nat \ {0} /\ p \in Seq(BOOLEAN) /\ Len(p) = n
  BY <1>1, ScreenPilotAssumption
<1> QED BY <1>1, <1>2

\* The step is one of the plan.
LEMMA StepTypes ==
    ASSUME TypeOK
    PROVE  /\ Len(plan) \in Nat /\ i \in Nat /\ i <= Len(plan)
           /\ plan # <<>> => i \in 1..Len(plan) /\ plan[i] \in BOOLEAN /\ Len(plan) > 0
<1>1. plan \in Plans \cup {<<>>} /\ i \in 0..Len(plan) /\ (i = 0 <=> plan = <<>>)
  BY DEF TypeOK
<1>2. CASE plan = <<>>
  <2>1. Len(plan) = 0 /\ i = 0
    BY <1>1, <1>2
  <2> QED BY <1>2, <2>1
<1>3. CASE plan # <<>>
  <2>1. plan \in Seq(BOOLEAN) /\ Len(plan) \in Nat \ {0} /\ DOMAIN plan = 1..Len(plan)
    BY <1>1, <1>3, PlanTypes
  <2>2. i \in 1..Len(plan)
    BY <1>1, <1>3, <2>1
  <2> QED BY <2>1, <2>2
<1> QED BY <1>2, <1>3

\* The configuration has its fields.
LEMMA ConfTypes ==
    ASSUME TypeOK
    PROVE  /\ conf.cmd \in Commands
           /\ conf.tty \in BOOLEAN /\ conf.click \in BOOLEAN /\ conf.move \in BOOLEAN
           /\ conf.vision \in BOOLEAN /\ conf.eww \in BOOLEAN
<1>1. PICK c \in Commands, t \in BOOLEAN, s \in Switches, k \in Capabilities :
         conf = [cmd |-> c, tty |-> t, click |-> s.click, move |-> s.move,
                 vision |-> k.vision, eww |-> k.eww /\ s.overlay]
  BY DEF TypeOK, Conf
<1> QED BY <1>1 DEF Switches, Capabilities

\* The next step of the plan, or the end of it.
LEMMA AfterStepType ==
    ASSUME TypeOK, plan # <<>>, AfterStep
    PROVE  /\ pc' \in {"step", "shut"} /\ i' \in 1..Len(plan) /\ i' >= i
           /\ pc' = "step" => i' = i + 1
           /\ pc' = "shut" => i' = i
BY StepTypes DEF AfterStep

\* A step that touches only the place in the call, the screenshot and the overlay
\* keeps every type as soon as it keeps theirs.
LEMMA TypeKept ==
    ASSUME TypeOK, UNCHANGED <<conf, step, target, screen, said>>,
           pc' \in {"probe", "grab", "plan", "step", "regrab", "locate", "warp", "card",
                   "start", "say", "ask", "click", "shut", "done"},
           shot' \in BOOLEAN,
           eww' \in [dir: BOOLEAN, daemon: BOOLEAN, started: BOOLEAN],
           cut' \subseteq {"probe", "grab", "plan", "step", "regrab", "locate", "warp",
                          "card", "start", "say", "ask", "click", "shut"}
    PROVE  TypeOK'
BY DEF TypeOK, step, target, screen

\* The overlay's flags are Booleans.
LEMMA EwwTypes ==
    ASSUME TypeOK
    PROVE  eww.dir \in BOOLEAN /\ eww.daemon \in BOOLEAN /\ eww.started \in BOOLEAN
BY DEF TypeOK

\* The steps that clear what is left over keep every type.
LEMMA ClearingKeepsTypes ==
    ASSUME TypeOK, Regrab \/ Shutdown \/ Unwind
    PROVE  TypeOK'
<1>1. /\ shot \in BOOLEAN
      /\ pc # "done" => pc \in {"probe", "grab", "plan", "step",
           "regrab", "locate", "warp", "card", "start", "say", "ask", "click", "shut"}
      /\ eww \in [dir : BOOLEAN, daemon : BOOLEAN, started : BOOLEAN]
      /\ cut \subseteq {"probe", "grab", "plan", "step", "regrab", "locate", "warp",
                        "card", "start", "say", "ask", "click", "shut"}
  BY DEF TypeOK
<1>2. CASE Regrab
  <2>1. pc' \in {"locate", "warp"} /\ shot' \in {shot, FALSE}
    BY <1>2 DEF Regrab
  <2>2. shot' \in BOOLEAN
    BY <1>1, <2>1
  <2>3. UNCHANGED <<conf, step, target, screen, said>> /\ eww' = eww /\ cut' = cut
    BY <1>2 DEF Regrab
  <2> QED BY <1>1, <2>1, <2>2, <2>3, TypeKept
<1>3. CASE Shutdown
  <2>1. /\ UNCHANGED <<conf, step, target, screen, said>> /\ shot' = shot /\ cut' = cut
        /\ pc' = "done"
    BY <1>3 DEF Shutdown
  <2>2. (eww.daemon /\ ~eww.started) \in BOOLEAN
    BY ZenonT(30), EwwTypes
  <2>3. eww' = [NoEww EXCEPT !.daemon = eww.daemon /\ ~eww.started]
    BY <1>3 DEF Shutdown
  <2>4. eww' \in [dir : BOOLEAN, daemon : BOOLEAN, started : BOOLEAN]
    BY <2>2, <2>3 DEF NoEww
  <2> QED BY <1>1, <2>1, <2>4, TypeKept
<1>4. CASE Unwind
  <2>1. /\ UNCHANGED <<conf, step, target, screen, said>> /\ pc # "done"
        /\ cut' = cut \cup {pc} /\ pc' \in {"done", "shut"}
    BY <1>4 DEF Unwind
  <2>2. shot' = (shot /\ (pc \in {"grab", "regrab"} \/ conf.cmd # "guide"))
    BY <1>4 DEF Unwind
  <2>3. shot' \in BOOLEAN
    BY ZenonT(30), <2>2
  <2>4. eww' = eww \/ eww' = [eww EXCEPT !.daemon = FALSE]
    BY <1>4 DEF Unwind
  <2>5. eww' \in [dir : BOOLEAN, daemon : BOOLEAN, started : BOOLEAN]
    BY <1>1, <2>4
  <2>6. cut' \subseteq {"probe", "grab", "plan", "step", "regrab", "locate", "warp",
                       "card", "start", "say", "ask", "click", "shut"}
    BY <1>1, <2>1
  <2> QED BY <2>1, <2>3, <2>5, <2>6, TypeKept
<1> QED BY <1>2, <1>3, <1>4

\* No step takes a variable out of its type.
LEMMA TypeStep == TypeOK /\ PlanIsThere /\ [Next]_vars => TypeOK'
<1> SUFFICES ASSUME TypeOK, PlanIsThere, [Next]_vars PROVE TypeOK'
  OBVIOUS
<1> USE StepTypes, ConfTypes DEF TypeOK, step, target, screen, remains, Commands
<1>1. CASE Probe
  <2>1. pc' \in {"grab", "card", "locate", "done"} /\ shot' \in BOOLEAN
    BY <1>1 DEF Probe, Shoot
  <2> QED BY <1>1, <2>1 DEF Probe
<1>2. CASE MoveOnly
  BY <1>2 DEF MoveOnly
<1>3. CASE CardOnly
  BY <1>3 DEF CardOnly
<1>4. CASE Grab
  <2>1. pc' \in {"plan", "card", "locate", "done"} /\ shot' \in BOOLEAN
    BY <1>4 DEF Grab, PlanIsThere
  <2> QED BY <1>4, <2>1 DEF Grab
<1>5. CASE Plan
  <2>1. plan = <<>> /\ clicks = {} /\ found = 0
    BY <1>5 DEF Plan, PlanIsThere
  <2>2. plan' \in Plans /\ Len(plan') \in Nat \ {0} /\ plan' # <<>>
    BY <1>5, PlanTypes DEF Plan
  <2>3. i' = 1 /\ i' \in 0..Len(plan') /\ (i' = 0 <=> plan' = <<>>)
    BY <1>5, <2>2 DEF Plan
  <2>4. clicks' = {} /\ found' = 0 /\ 0 \in 0..Len(plan')
    BY <1>5, <2>1, <2>2 DEF Plan
  <2> QED BY <1>5, <2>2, <2>3, <2>4 DEF Plan
<1>6. CASE Step
  BY <1>6 DEF Step, Shoot
<1>7. CASE Regrab
  BY <1>7, ClearingKeepsTypes
<1>8. CASE Locate
  <2>1. pc' \in {"warp", "done"} /\ shot' \in BOOLEAN
    BY <1>8 DEF Locate
  <2>2. point' \in Place \cup {Nowhere} /\ found' \in 0..Len(plan)
    BY <1>8 DEF Locate
  <2> QED BY <1>8, <2>1, <2>2 DEF Locate
<1>9. CASE Warp
  BY <1>9 DEF Warp
<1>10. CASE Card
  BY <1>10 DEF Card
<1>11. CASE Started
  BY <1>11 DEF Started
<1>12. CASE Say
  BY <1>12 DEF Say
<1>13. CASE Advance
  BY <1>13, AfterStepType DEF Advance, PlanIsThere
<1>14. CASE Click
  BY <1>14, AfterStepType DEF Click, PlanIsThere
<1>15. CASE Shutdown
  BY <1>15, ClearingKeepsTypes
<1>16. CASE Unwind
  BY <1>16, ClearingKeepsTypes
<1>17. CASE Nudge
  BY <1>17 DEF Nudge
<1>18. CASE UNCHANGED vars
  BY <1>18 DEF vars
<1> QED BY <1>1, <1>2, <1>3, <1>4, <1>5, <1>6, <1>7, <1>8, <1>9, <1>10, <1>11, <1>12,
           <1>13, <1>14, <1>15, <1>16, <1>17, <1>18 DEF Next, Guide

\* A step keeps what is known of its point, its pointer and its clicks.
LEMMA LoopStep == TypeOK /\ LoopInv /\ [Next]_vars => LoopInv'
<1> SUFFICES ASSUME TypeOK, LoopInv, [Next]_vars PROVE LoopInv'
  OBVIOUS
<1>1. /\ Len(plan) \in Nat /\ i \in Nat /\ i <= Len(plan) /\ found \in Nat
      /\ plan # <<>> => i \in 1..Len(plan) /\ plan[i] \in BOOLEAN
      /\ moved \in BOOLEAN /\ nudged \in BOOLEAN /\ conf.cmd \in Commands
      /\ conf.tty \in BOOLEAN /\ conf.click \in BOOLEAN /\ conf.move \in BOOLEAN
      /\ point \in Place \cup {Nowhere} /\ Nowhere \notin Place
      /\ \A k \in clicks : k.step \in 1..Len(plan)
  BY StepTypes, ConfTypes, ScreenPilotAssumption DEF TypeOK
<1> USE <1>1 DEF LoopInv, PlanIsThere, PointIsOfStep, PointerIsMoved, SaidIsKnown,
                 ClicksAreBehind, Shown, step, target, screen, remains, Commands
<1>2. CASE Probe \/ Grab
  <2>1. /\ pc \in {"probe", "grab"} /\ plan = <<>> /\ ~moved
        /\ pc' \in {"grab", "plan", "card", "locate", "done"}
        /\ pc' = "grab" => conf.cmd \in {"guide", "point", "capture"}
        /\ UNCHANGED <<conf, step, target, screen, said>>
    <3>1. CASE Probe
      BY <3>1 DEF Probe, Shoot
    <3>2. CASE Grab
      BY <3>2 DEF Grab
    <3> QED BY <1>2, <3>1, <3>2
  <2> QED BY <2>1
<1>3. CASE MoveOnly \/ CardOnly
  <2>1. pc = "probe" /\ plan = <<>> /\ ~moved /\ pc' \in {"warp", "card", "done"}
        /\ UNCHANGED <<conf, step, moved, found, screen, said>>
    BY <1>3 DEF MoveOnly, CardOnly
  <2> QED BY <2>1
<1>4. CASE Plan
  <2>1. Len(plan) = 0
    BY <1>4 DEF Plan
  <2>2. clicks = {} /\ found = 0
    BY <2>1
  <2>3. pc' = "step" /\ i' = 1 /\ UNCHANGED <<conf, target, screen, said>>
    BY <1>4 DEF Plan
  <2>4. plan' # <<>>
    BY <1>4, PlanTypes DEF Plan
  <2> QED BY <2>2, <2>3, <2>4
<1>5. CASE Step
  BY <1>5 DEF Step, Shoot
<1>6. CASE Regrab
  BY <1>6 DEF Regrab
<1>7. CASE Locate
  BY <1>7 DEF Locate
<1>8. CASE Warp
  BY <1>8 DEF Warp
<1>9. CASE Card
  BY <1>9 DEF Card
<1>10. CASE Started
  BY <1>10 DEF Started
<1>11. CASE Say
  BY <1>11 DEF Say
<1>12. CASE Advance
  BY <1>12 DEF Advance, AfterStep
<1>13. CASE Click
  BY <1>13 DEF Click, AfterStep
<1>14. CASE Shutdown
  BY <1>14 DEF Shutdown
<1>15. CASE Unwind
  BY <1>15 DEF Unwind
<1>16. CASE Nudge
  BY <1>16 DEF Nudge
<1>17. CASE UNCHANGED vars
  BY <1>17 DEF vars
<1> QED BY <1>2, <1>3, <1>4, <1>5, <1>6, <1>7, <1>8, <1>9, <1>10, <1>11,
           <1>12, <1>13, <1>14, <1>15, <1>16, <1>17 DEF Next, Guide

\* A step leaves nothing behind that the unwound calls do not explain.
LEMMA CleanStep == TypeOK /\ PlanIsThere /\ Leftovers /\ [Next]_vars => Leftovers'
<1> SUFFICES ASSUME TypeOK, PlanIsThere, Leftovers, [Next]_vars PROVE Leftovers'
  OBVIOUS
<1>1. /\ eww \in [dir : BOOLEAN, daemon : BOOLEAN, started : BOOLEAN]
      /\ shot \in BOOLEAN /\ conf.cmd \in Commands
      /\ pc = "grab" => conf.cmd \in {"guide", "point", "capture"}
      /\ NoEww = [dir |-> FALSE, daemon |-> FALSE, started |-> FALSE]
  BY ConfTypes DEF TypeOK, PlanIsThere, NoEww
<1> USE <1>1 DEF Leftovers, step, target, screen, remains, Commands
<1>2. CASE Probe
  BY <1>2 DEF Probe, Shoot
<1>3. CASE MoveOnly \/ CardOnly
  BY <1>3 DEF MoveOnly, CardOnly
<1>4. CASE Grab
  BY <1>4 DEF Grab
<1>5. CASE Plan
  BY <1>5 DEF Plan
<1>6. CASE Step
  BY <1>6 DEF Step, Shoot
<1>7. CASE Regrab
  BY <1>7 DEF Regrab
<1>8. CASE Locate
  BY <1>8 DEF Locate
<1>9. CASE Warp
  BY <1>9 DEF Warp
<1>10. CASE Card
  BY <1>10 DEF Card
<1>11. CASE Started
  BY <1>11 DEF Started
<1>12. CASE Say
  BY <1>12 DEF Say
<1>13. CASE Advance
  BY <1>13 DEF Advance, AfterStep
<1>14. CASE Click
  BY <1>14 DEF Click, AfterStep
<1>15. CASE Shutdown
  BY <1>15 DEF Shutdown
<1>16. CASE Unwind
  <2>1. cut' = cut \cup {pc} /\ conf' = conf
        /\ eww' \in {eww, [eww EXCEPT !.daemon = FALSE]}
        /\ (eww' # eww => pc = "shut") /\ pc' \in {"done", "shut"}
    BY <1>16 DEF Unwind
  <2>2. conf.cmd = "guide" =>
           /\ shot' => shot /\ pc \in {"grab", "regrab"}
           /\ pc' = "done" => pc \in {"probe", "grab", "plan", "shut"}
    BY <1>16 DEF Unwind
  <2>3. eww'.dir = eww.dir /\ eww'.started = eww.started /\ (eww'.daemon => eww.daemon)
    BY <2>1
  <2>4. conf'.cmd = "guide" /\ shot' => cut' \cap {"grab", "regrab"} # {}
    BY <2>1, <2>2
  <2>5. eww'.daemon => eww'.started \/ cut' \cap {"start", "shut"} # {}
    BY <2>1, <2>3
  <2>6. conf'.cmd = "guide" /\ pc' = "done" => (eww'.dir => "shut" \in cut')
                                  /\ (eww'.daemon => cut' \cap {"start", "shut"} # {})
    BY <2>1, <2>2, <2>3
  <2> QED BY <2>1, <2>4, <2>5, <2>6
<1>17. CASE Nudge
  BY <1>17 DEF Nudge
<1>18. CASE UNCHANGED vars
  BY <1>18 DEF vars
<1> QED BY <1>2, <1>3, <1>4, <1>5, <1>6, <1>7, <1>8, <1>9, <1>10, <1>11, <1>12,
           <1>13, <1>14, <1>15, <1>16, <1>17, <1>18 DEF Next, Guide

\* Only a click of the step in hand is added, of a target that was located in it.
LEMMA ClicksStep ==
    ASSUME TypeOK, LoopInv, ClicksHitTheTarget, [Next]_vars
    PROVE  ClicksHitTheTarget'
<1> USE DEF step, target, screen, remains
<1>1. CASE Click
  <2>1. /\ conf.tty /\ conf.click /\ plan # <<>> /\ point # Nowhere
        /\ plan[i] /\ found = i /\ moved \in BOOLEAN /\ nudged \in BOOLEAN
        /\ moved /\ ~nudged => pointer = point
        /\ i \in Nat /\ \A k \in clicks : k.step \in Nat /\ k.step < i
    BY <1>1, StepTypes
    DEF Click, LoopInv, PlanIsThere, PointIsOfStep, PointerIsMoved, ClicksAreBehind,
        Shown, TypeOK
  <2> DEFINE new == [step |-> i, at |-> pointer, point |-> point,
                     moved |-> moved, found |-> found, nudged |-> nudged]
  <2>2. clicks' \in {clicks, clicks \cup {new}} /\ UNCHANGED <<conf, plan>>
    BY <1>1 DEF Click
  <2>3. /\ new.step = i /\ new.found = i
        /\ new.moved /\ ~new.nudged => new.at = new.point
    BY <2>1
  <2> HIDE DEF new
  <2> QED BY <2>1, <2>2, <2>3 DEF ClicksHitTheTarget
<1>2. CASE Plan
  <2>1. Len(plan) = 0
    BY <1>2 DEF Plan, LoopInv, PlanIsThere
  <2>2. clicks = {} /\ clicks' = clicks
    BY <1>2, <2>1 DEF Plan, TypeOK
  <2> QED BY <2>2 DEF ClicksHitTheTarget
<1>3. ASSUME UNCHANGED <<conf, plan, clicks>> PROVE ClicksHitTheTarget'
  BY <1>3 DEF ClicksHitTheTarget
<1>4. CASE Probe \/ MoveOnly \/ CardOnly \/ Grab \/ Step \/ Regrab \/ Locate
  BY <1>3, <1>4 DEF Probe, MoveOnly, CardOnly, Grab, Step, Regrab, Locate
<1>5. CASE Warp \/ Card \/ Started \/ Say \/ Advance \/ Shutdown \/ Unwind \/ Nudge
  BY <1>3, <1>5 DEF Warp, Card, Started, Say, Advance, Shutdown, Unwind, Nudge
<1>6. CASE UNCHANGED vars
  BY <1>3, <1>6 DEF vars
<1> QED BY <1>1, <1>2, <1>4, <1>5, <1>6 DEF Next, Guide

-----------------------------------------------------------------------------

Invariant == TypeOK /\ LoopInv /\ ClicksHitTheTarget /\ Leftovers

\* A run starts with nothing planned, moved, clicked or left behind.
LEMMA InitInvariant == Init => Invariant
<1> SUFFICES ASSUME Init PROVE Invariant
  OBVIOUS
<1>1. TypeOK
  <2>1. /\ plan \in Plans \cup {<<>>} /\ i \in 0..Len(plan) /\ (i = 0 <=> plan = <<>>)
        /\ found \in 0..Len(plan) /\ \A k \in clicks : k.step \in 1..Len(plan)
    <3>1. Len(plan) = 0 /\ plan = <<>> /\ i = 0 /\ found = 0 /\ clicks = {}
      BY DEF Init
    <3> QED BY <3>1
  <2>2. eww \in [dir : BOOLEAN, daemon : BOOLEAN, started : BOOLEAN]
    BY DEF Init, NoEww
  <2>3. /\ conf \in Conf /\ pc = "probe" /\ point = Nowhere /\ pointer \in Place
        /\ moved = FALSE /\ nudged = FALSE /\ shot = FALSE /\ said = "nothing" /\ cut = {}
    BY DEF Init
  <2> QED BY <2>1, <2>2, <2>3 DEF TypeOK
<1>2. LoopInv
  BY DEF Init, LoopInv, PlanIsThere, PointIsOfStep, PointerIsMoved, SaidIsKnown,
         ClicksAreBehind, Shown
<1>3. Leftovers
  BY DEF Init, Leftovers, NoEww
<1>4. ClicksHitTheTarget
  BY DEF Init, ClicksHitTheTarget
<1> QED BY <1>1, <1>2, <1>3, <1>4 DEF Invariant

\* What the pilot knows of its step holds with any plan, any number of places, and
\* whatever fails or is unwound in pilot.py.
THEOREM PilotInvariant == Spec => []Invariant
<1>1. Invariant /\ [Next]_vars => Invariant'
  BY TypeStep, LoopStep, ClicksStep, CleanStep DEF Invariant, LoopInv
<1> QED BY InitInvariant, <1>1, PTL DEF Spec

\* No call of the pilot takes a variable out of its type.
THEOREM TypeCorrect == Spec => []TypeOK
<1>1. Invariant => TypeOK
  BY DEF Invariant
<1> QED BY PilotInvariant, <1>1, PTL

\* A click of cursor.py is confirmed, for a step whose target was located in it, at most
\* one per step, and at the target but for the user's hand or a failed warp.
THEOREM Clicks == Spec => []ClicksHitTheTarget
<1>1. Invariant => ClicksHitTheTarget
  BY DEF Invariant
<1> QED BY PilotInvariant, <1>1, PTL

\* The user is told of a move, or to look for the target, only when that is so.
THEOREM Narration == Spec => []NarrationIsTrue
<1>1. ASSUME Invariant PROVE NarrationIsTrue
  <2>1. found \in Nat /\ i \in Nat
    BY <1>1, StepTypes DEF Invariant, TypeOK
  <2> QED BY <1>1, <2>1 DEF Invariant, LoopInv, PlanIsThere, PointIsOfStep,
             PointerIsMoved, SaidIsKnown, Shown, NarrationIsTrue
<1> QED BY PilotInvariant, <1>1, PTL

\* Nothing of guide stays on the disk or on the screen but by the call that was unwound.
THEOREM CleanedUp == Spec => []GuideCleansUp
<1>1. ASSUME Invariant PROVE GuideCleansUp
  BY <1>1 DEF Invariant, Leftovers, GuideCleansUp
<1> QED BY PilotInvariant, <1>1, PTL
=============================================================================
