----------------------------- MODULE ScreenPilot -----------------------------
(***************************************************************************)
(* One run of lathe-pilot: guide, which plans a walkthrough from a         *)
(* screenshot and goes through its steps, or one of the commands that do a *)
(* single thing of it.  Each step shoots the screen again, has its target  *)
(* located, warps the pointer there, shows a card, speaks, and then dwells *)
(* or asks.                                                                *)
(*                                                                         *)
(* Whatever is outside may fail: grim, the planner, the grounding server,  *)
(* ydotool, eww, the voice.  The user may move the pointer at any time,    *)
(* and Ctrl-C, or an exception nobody catches, may unwind any call.        *)
(***************************************************************************)
EXTENDS Naturals, Sequences, FiniteSets

CONSTANTS
    Place,     \* places on the screen
    Nowhere,   \* no place
    MaxSteps   \* LATHEOS_PILOT_MAX_STEPS

ASSUME ScreenPilotAssumption ==
    /\ Nowhere \notin Place
    /\ MaxSteps \in Nat \ {0}

VARIABLES
    conf,     \* the command, its flags and what probe() found
    pc,       \* the call the pilot is in
    plan,     \* for each step whether it has a target; <<>> while there is none
    i,        \* the step
    point,    \* what point_at returned for it, or Nowhere
    moved,    \* its warp succeeded
    pointer,  \* where the mouse pointer is
    shot,     \* a screenshot is on the disk
    eww,      \* the config directory and the eww daemon exist, overlay._started
    said,     \* what the step was told to the user
    clicks,   \* history: the clicks made, and what was known of each
    found,    \* history: the step that point was located in
    nudged,   \* history: the user moved the pointer since that
    cut       \* history: the calls that were unwound

vars == <<conf, pc, plan, i, point, moved, pointer, shot, eww, said, clicks, found,
          nudged, cut>>

step    == <<plan, i>>
target  == <<point, moved, found>>
screen  == <<pointer, nudged, clicks>>
remains == <<shot, eww>>

-----------------------------------------------------------------------------

\* What the switches of PilotConfig leave the pilot free to do: click, with
\* --allow-click too, move, and draw cards.
Switches == [click : BOOLEAN, move : BOOLEAN, overlay : BOOLEAN]

\* What probe() may find: grounding with a GPU, and eww.
Capabilities == [vision : BOOLEAN, eww : BOOLEAN]

Commands == {"guide", "point", "capture", "move", "card"}

\* tty: not --auto, and stdin is a terminal.
Conf == {[cmd |-> c, tty |-> t, click |-> s.click, move |-> s.move,
          vision |-> k.vision, eww |-> k.eww /\ s.overlay] :
             c \in Commands, t \in BOOLEAN, s \in Switches, k \in Capabilities}

NoEww == [dir |-> FALSE, daemon |-> FALSE, started |-> FALSE]

Init ==
    /\ conf \in Conf
    /\ pc = "probe"
    /\ plan = <<>>
    /\ i = 0
    /\ point = Nowhere
    /\ moved = FALSE
    /\ pointer \in Place
    /\ shot = FALSE
    /\ eww = NoEww
    /\ said = "nothing"
    /\ clicks = {}
    /\ found = 0
    /\ nudged = FALSE
    /\ cut = {}

\* The calls that capture_screen, with its temporary file made, comes to.
Shoot(next) == pc' = next /\ shot' = TRUE

\* probe(), and capture_screen up to grim; without grim only a card that says so.
Probe ==
    /\ pc = "probe"
    /\ conf.cmd \in {"guide", "point", "capture"}
    /\ \/ Shoot("grab")
       \/ /\ pc' = CASE conf.cmd = "guide"   -> "card"
                     [] conf.cmd = "point"   -> "locate"   \* in a given image
                     [] conf.cmd = "capture" -> "done"
          /\ UNCHANGED shot
    /\ UNCHANGED <<conf, step, target, screen, eww, said, cut>>

\* lathe-pilot move: one warp, when moving is allowed.
MoveOnly ==
    /\ pc = "probe" /\ conf.cmd = "move"
    /\ IF conf.move
       THEN pc' = "warp" /\ point' \in Place
       ELSE pc' = "done" /\ UNCHANGED point
    /\ UNCHANGED <<conf, step, moved, found, screen, remains, said, cut>>

\* lathe-pilot card: one card, when there is eww.
CardOnly ==
    /\ pc = "probe" /\ conf.cmd = "card"
    /\ pc' = IF conf.eww THEN "card" ELSE "done"
    /\ UNCHANGED <<conf, step, target, screen, remains, said, cut>>

\* grim returns.  Failure is a card for guide, and the end for the others.
Grab ==
    /\ pc = "grab"
    /\ \/ /\ pc' = CASE conf.cmd = "guide"   -> "plan"
                     [] conf.cmd = "point"   -> "locate"
                     [] conf.cmd = "capture" -> "done"
          /\ UNCHANGED shot
       \/ /\ pc' = IF conf.cmd = "guide" THEN "card" ELSE "done"
          /\ shot' = FALSE
    /\ UNCHANGED <<conf, step, target, screen, eww, said, cut>>

\* What plan_steps may return: what the model planned, cut to max_steps, or one
\* step without a target.
Plans == UNION {[1..n -> BOOLEAN] : n \in 1..MaxSteps}

\* plan_steps, and the screenshot goes whatever came of it.
Plan ==
    /\ pc = "plan"
    /\ plan' \in Plans
    /\ i' = 1
    /\ shot' = FALSE
    /\ pc' = "step"
    /\ UNCHANGED <<conf, target, screen, eww, said, cut>>

\* Faulty: the last step's point is kept when this one has none.
StepKeepsPoint ==
    /\ pc = "step"
    /\ moved' = FALSE /\ said' = "nothing"
    /\ IF plan[i] /\ conf.vision
       THEN Shoot("regrab")
       ELSE pc' = "warp" /\ UNCHANGED shot
    /\ UNCHANGED <<conf, step, screen, eww, cut, found, point>>

\* _run_step: a step with a target shoots the screen again, when grounding was up.
Step ==
    /\ pc = "step"
    /\ point' = Nowhere /\ moved' = FALSE /\ said' = "nothing"
    /\ IF plan[i] /\ conf.vision
       THEN Shoot("regrab")
       ELSE pc' = "warp" /\ UNCHANGED shot
    /\ UNCHANGED <<conf, step, screen, eww, cut, found>>

Regrab ==
    /\ pc = "regrab"
    /\ \/ pc' = "locate" /\ UNCHANGED shot
       \/ pc' = "warp" /\ shot' = FALSE
    /\ UNCHANGED <<conf, step, target, screen, eww, said, cut>>

\* point_at, and in guide the screenshot goes.  point prints and leaves it.
Locate ==
    /\ pc = "locate"
    /\ \/ UNCHANGED <<point, found>>
       \/ point' \in Place /\ found' = i
    /\ IF conf.cmd = "guide"
       THEN pc' = "warp" /\ shot' = FALSE
       ELSE pc' = "done" /\ UNCHANGED shot
    /\ UNCHANGED <<conf, step, moved, screen, eww, said, cut>>

\* Faulty: a warp that failed counts as one.
WarpAssumed ==
    /\ pc = "warp"
    /\ pc' = IF conf.cmd = "move" THEN "done" ELSE "card"
    /\ IF point # Nowhere /\ conf.move
       THEN /\ moved' = TRUE
            /\ nudged' = FALSE
            /\ pointer' \in {pointer, point}
       ELSE UNCHANGED <<moved, nudged, pointer>>
    /\ UNCHANGED <<conf, step, point, found, clicks, remains, said, cut>>

\* move_absolute: a failure may have moved the pointer all the same.
Warp ==
    /\ pc = "warp"
    /\ pc' = IF conf.cmd = "move" THEN "done" ELSE "card"
    /\ nudged' = FALSE
    /\ \/ /\ point # Nowhere /\ conf.move
          /\ moved' = TRUE
          /\ pointer' = point
       \/ /\ UNCHANGED moved
          /\ IF point # Nowhere /\ conf.move
             THEN pointer' \in {pointer, point}
             ELSE UNCHANGED pointer
    /\ UNCHANGED <<conf, step, point, found, clicks, remains, said, cut>>

\* overlay.show; start() makes the directory and may, or may not, get a daemon.
Card ==
    /\ pc = "card"
    /\ IF conf.eww /\ ~eww.started
       THEN /\ pc' = "start"
            /\ \E d \in BOOLEAN : eww' = [eww EXCEPT !.dir = TRUE, !.daemon = d]
       ELSE pc' = "say" /\ UNCHANGED eww
    /\ UNCHANGED <<conf, step, target, screen, shot, said, cut>>

\* eww daemon has returned.
Started ==
    /\ pc = "start"
    /\ pc' = "say"
    /\ eww' = [eww EXCEPT !.started = TRUE]
    /\ UNCHANGED <<conf, step, target, screen, shot, said, cut>>

\* The step, spoken with its note: that the user may look for the target, or that the
\* pointer was moved there, or none; a message without a plan ends here,
\* and so does a card, which only --hold takes off the screen.
Say ==
    /\ pc = "say"
    /\ \/ /\ plan = <<>>
          /\ pc' = "shut" \/ (conf.cmd = "card" /\ pc' = "done")
          /\ UNCHANGED said
       \/ /\ plan # <<>>
          /\ pc' = "ask"
          /\ said' = CASE plan[i] /\ point = Nowhere -> "look"
                       [] moved                      -> "moved"
                       [] OTHER                      -> "instruction"
    /\ UNCHANGED <<conf, step, target, screen, remains, cut>>

\* Faulty: one step too many.
AfterStepLate ==
    IF i <= Len(plan) THEN pc' = "step" /\ i' = i + 1 ELSE pc' = "shut" /\ UNCHANGED i

\* Faulty: a step whose target was not located is gone through again.
AfterStepRetries ==
    CASE plan[i] /\ point = Nowhere -> pc' = "step" /\ UNCHANGED i
      [] i < Len(plan)              -> pc' = "step" /\ i' = i + 1
      [] OTHER                      -> pc' = "shut" /\ UNCHANGED i

\* The next step, or the end of the loop.
AfterStep ==
    IF i < Len(plan) THEN pc' = "step" /\ i' = i + 1 ELSE pc' = "shut" /\ UNCHANGED i

\* _advance.  Without a terminal a dwell; with one, Enter, q, end of input or c.
Advance ==
    /\ pc = "ask"
    /\ \/ AfterStep
       \/ conf.tty /\ pc' = "shut" /\ UNCHANGED i
       \/ conf.tty /\ conf.click /\ point # Nowhere /\ pc' = "click" /\ UNCHANGED i
    /\ UNCHANGED <<conf, plan, target, screen, remains, said, cut>>

\* cursor.click() where the pointer is, or no click at all.
Click ==
    /\ pc = "click"
    /\ AfterStep
    /\ \/ clicks' = clicks \cup {[step |-> i, at |-> pointer, point |-> point,
                                  moved |-> moved, found |-> found, nudged |-> nudged]}
       \/ UNCHANGED clicks
    /\ UNCHANGED <<conf, plan, target, pointer, nudged, remains, said, cut>>

\* Faulty: the directory goes, the daemon stays.
ShutdownForgets ==
    /\ pc = "shut"
    /\ pc' = "done"
    /\ eww' = [NoEww EXCEPT !.daemon = eww.daemon]
    /\ UNCHANGED <<conf, step, target, screen, shot, said, cut>>

\* overlay.shutdown(): the daemon is killed only when it is known to be started.  The
\* kill and the removals are taken to succeed; overlay.py 160-172 looks at no status.
Shutdown ==
    /\ pc = "shut"
    /\ pc' = "done"
    /\ eww' = [NoEww EXCEPT !.daemon = eww.daemon /\ ~eww.started]
    /\ UNCHANGED <<conf, step, target, screen, shot, said, cut>>

\* Ctrl-C, or an exception, unwinds the call through its finally clauses; inside
\* shutdown() it may come at any of its parts.
Unwind ==
    /\ pc # "done"
    /\ cut' = cut \cup {pc}
    /\ pc' = IF pc \in {"probe", "grab", "plan", "shut"} \/ conf.cmd # "guide"
             THEN "done" ELSE "shut"
    /\ shot' = (shot /\ (pc \in {"grab", "regrab"} \/ conf.cmd # "guide"))
    /\ \/ UNCHANGED eww
       \/ pc = "shut" /\ eww' = [eww EXCEPT !.daemon = FALSE]
    /\ UNCHANGED <<conf, step, target, screen, said>>

\* The user moves the mouse.
Nudge ==
    /\ pc # "done"
    /\ pointer' \in Place \ {pointer}
    /\ nudged' = TRUE
    /\ UNCHANGED <<conf, pc, step, target, clicks, remains, said, cut>>

Guide ==
    \/ Probe \/ MoveOnly \/ CardOnly \/ Grab \/ Plan
    \/ Step \/ Regrab \/ Locate \/ Warp \/ Card \/ Started \/ Say \/ Advance \/ Click
    \/ Shutdown

Next == Guide \/ Unwind \/ Nudge

\* Every call has a timeout; only the prompt waits for the user, who need not answer.
Fairness == WF_vars(Guide /\ ~(pc = "ask" /\ conf.tty))

Spec     == Init /\ [][Next]_vars
FairSpec == Spec /\ Fairness

-----------------------------------------------------------------------------

\* Every variable has its type, and inside the loop there is a step.
TypeOK ==
    /\ conf \in Conf
    /\ pc \in {"probe", "grab", "plan", "step", "regrab", "locate", "warp", "card",
               "start", "say", "ask", "click", "shut", "done"}
    /\ plan \in Plans \cup {<<>>}
    /\ i \in 0..Len(plan) /\ (i = 0 <=> plan = <<>>)
    /\ point \in Place \cup {Nowhere}
    /\ moved \in BOOLEAN /\ nudged \in BOOLEAN /\ shot \in BOOLEAN
    /\ pointer \in Place
    /\ eww \in [dir : BOOLEAN, daemon : BOOLEAN, started : BOOLEAN]
    /\ said \in {"nothing", "look", "moved", "instruction"}
    /\ \A k \in clicks : k.step \in 1..Len(plan)
    /\ found \in 0..Len(plan)
    /\ cut \subseteq {"probe", "grab", "plan", "step", "regrab", "locate", "warp",
                      "card", "start", "say", "ask", "click", "shut"}

\* cursor.py 16: click() only "after an explicit per-step user confirmation".  A click
\* is made at a terminal, at most once per step, for a target located in that very
\* step, and it lands there unless the warp failed or was off, or the user moved the
\* pointer.
ClicksHitTheTarget ==
    \A k \in clicks :
        /\ conf.tty /\ conf.click
        /\ plan[k.step] /\ k.found = k.step
        /\ k.moved /\ ~k.nudged => k.at = k.point
        /\ \A l \in clicks : l.step = k.step => l = k

\* The user is told the pointer was moved there only when it is there, or was until
\* the user moved it; and is told to look for it only when it was not located.
NarrationIsTrue ==
    pc \in {"ask", "click"} =>
        /\ said = "moved" =>
              found = i /\ conf.move /\ (pointer = point \/ nudged)
        /\ said = "look" => found # i

\* pilot.py 129 and 152: however guide ends, by q, Ctrl-C, a failure or its last step,
\* neither a screenshot nor the overlay stays behind, unless the very call that makes
\* or removes it was unwound.
GuideCleansUp ==
    pc = "done" /\ conf.cmd = "guide" =>
        /\ shot => cut \cap {"grab", "regrab"} # {}
        /\ eww.daemon => cut \cap {"start", "shut"} # {}
        /\ eww.dir => "shut" \in cut

\* Started by the daemon or a key, the pilot comes to its end, whatever fails and
\* whatever the user does with the mouse.
AutoGuideEnds ==
    conf.tty \/ <>(pc = "done")
=============================================================================
