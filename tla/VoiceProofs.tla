---------------------------- MODULE VoiceProofs -----------------------------
(***************************************************************************)
(* Proofs about VoiceLoop for every size of its queue, every setting of    *)
(* the recorder and every number of frames and activations.                *)
(***************************************************************************)
EXTENDS VoiceLoop, FiniteSetTheorems, TLAPS

(***************************************************************************)
(* The deque and the queues.                                               *)
(***************************************************************************)

\* What is left of a sequence when its head is taken.
LEMMA TailOf ==
    ASSUME NEW S, NEW s \in Seq(S), s # <<>>
    PROVE  /\ Head(s) \in S /\ Head(s) = s[1] /\ Tail(s) \in Seq(S)
           /\ Len(s) >= 1 /\ Len(Tail(s)) = Len(s) - 1
           /\ \A i \in DOMAIN Tail(s) : i + 1 \in DOMAIN s /\ Tail(s)[i] = s[i + 1]
OBVIOUS

\* What a sequence is with one more element.
LEMMA AppendOf ==
    ASSUME NEW S, NEW s \in Seq(S), NEW e \in S
    PROVE  /\ Append(s, e) \in Seq(S) /\ Len(Append(s, e)) = Len(s) + 1
           /\ DOMAIN Append(s, e) = DOMAIN s \cup {Len(s) + 1}
           /\ Len(s) + 1 \notin DOMAIN s /\ DOMAIN s \subseteq 1..Len(s)
           /\ \A i \in DOMAIN s : Append(s, e)[i] = s[i]
           /\ Append(s, e)[Len(s) + 1] = e
OBVIOUS

\* Every callback the thread or the loop posts is one.
LEMMA CallbackTypes ==
    /\ Main \in Callbacks /\ Main.kind = "main"
    /\ \A n \in Nat : PutActivation(n) \in Callbacks /\ PutActivation(n).kind = "act"
    /\ \A f \in Frames : Enqueued(f) \in Callbacks /\ Enqueued(f).kind = "frame"
                         /\ Enqueued(f).n = f.n
    /\ \A cb \in Callbacks : FrameOf(cb) \in Frames /\ FrameOf(cb).n = cb.n
BY DEF Callbacks, Frames, Main, PutActivation, Enqueued, FrameOf

\* The deque never holds main_loop twice, and resumes it only when the queue it
\* waits on has something for it.
WakeupsAreOwed ==
    /\ \A i, j \in DOMAIN ready : ready[i].kind = "main" /\ ready[j].kind = "main" => i = j
    /\ Woken /\ pc = "listen" => events # <<>>
    /\ Woken /\ pc = "record" => audio # <<>>

\* The detector keeps its types.
LEMMA DetectType ==
    ASSUME NEW r \in Recorders, NEW f \in Frames
    PROVE  Detect(r, f) \in Recorders
<1>1. f.loud \in BOOLEAN /\ f.n \in Nat
  BY DEF Frames
<1>2. CASE r.started
  <2> DEFINE silent == IF f.loud THEN 0 ELSE r.silent + 1
             heard == Append(r.heard, f.n)
  <2>1. heard \in Seq(Nat) /\ silent \in Nat /\ r.spoken + 1 \in Nat
    BY <1>1 DEF Recorders
  <2>2. Detect(r, f) = [r EXCEPT !.spoken = r.spoken + 1, !.silent = silent, !.heard = heard]
    BY <1>2 DEF Detect
  <2> HIDE DEF silent, heard
  <2> QED BY <2>1, <2>2 DEF Recorders
<1>3. CASE ~r.started
  <2> DEFINE heard == IF f.loud THEN <<f.n>> ELSE <<>>
  <2>1. heard \in Seq(Nat) /\ r.waited + 1 \in Nat
    BY <1>1 DEF Recorders
  <2>2. Detect(r, f) = [r EXCEPT !.waited = r.waited + 1, !.started = f.loud, !.heard = heard]
    BY <1>3 DEF Detect
  <2> HIDE DEF heard
  <2> QED BY <1>1, <2>1, <2>2 DEF Recorders
<1> QED BY <1>2, <1>3

\* Taking the head of the deque leaves it typed, with main_loop after it or not.
LEMMA WakeType ==
    ASSUME ready \in Seq(Callbacks), ready # <<>>, NEW w
    PROVE  Wake(w) \in Seq(Callbacks)
BY TailOf, AppendOf, CallbackTypes DEF Wake

TypeInv == TypeOK /\ WakeupsAreOwed

MainPlaces == {"listen", "record", "expired", "transcribe", "think", "prompt", "speak"}

\* What main_loop may do to its place, the phase and the deque when it runs.
LEMMA MainType ==
    ASSUME ready \in Seq(Callbacks), Runs("main"), phase \in {"idle", "active"},
           \/ \E at \in MainPlaces : Suspend(at) /\ UNCHANGED phase
           \/ BackToListen
    PROVE  /\ pc' \in MainPlaces /\ phase' \in {"idle", "active"}
           /\ ready' \in Seq(Callbacks)
<1>1. ready # <<>> /\ Tail(ready) \in Seq(Callbacks)
  BY TailOf DEF Runs
<1> QED BY <1>1 DEF Suspend, BackToListen, MainPlaces

\* No step of the thread, of the loop or of main_loop takes a variable out of its
\* type; in particular the queue never outgrows its bound.
LEMMA TypeStep == TypeOK /\ WakeupsAreOwed /\ [Next]_vars => TypeOK'
<1> SUFFICES ASSUME TypeOK, WakeupsAreOwed, [Next]_vars PROVE TypeOK'
  OBVIOUS
<1> USE DEF TypeOK
<1>1. ASSUME NEW loud \in BOOLEAN, Capture(loud) PROVE TypeOK'
  <2>1. captured' \in 0..MaxFrames /\ NewFrame(loud) \in Frames
    BY <1>1, VoiceAssumption DEF Capture, NewFrame, Frames
  <2>2. ready' \in Seq(Callbacks)
    BY <1>1, <2>1, AppendOf, CallbackTypes DEF Capture
  <2> QED BY <1>1, <2>1, <2>2 DEF Capture, mainVars
<1>2. ASSUME NEW loud \in BOOLEAN, CaptureWake(loud) PROVE TypeOK'
  <2>1. captured' \in 0..MaxFrames /\ fired' \in 0..MaxFired
        /\ NewFrame(loud) \in Frames /\ captured + 1 \in Nat
    BY <1>2, VoiceAssumption DEF CaptureWake, NewFrame, Frames
  <2>2. ready' \in Seq(Callbacks)
    BY <1>2, <2>1, AppendOf, CallbackTypes DEF CaptureWake
  <2>3. mic' \in Seq(Frames) /\ Len(mic') <= 1
    BY <1>2, <2>1 DEF CaptureWake
  <2> QED BY <1>2, <2>1, <2>2, <2>3 DEF CaptureWake, mainVars
<1>3. ASSUME PostFrame PROVE TypeOK'
  <2>1. mic[1] \in Frames
    BY <1>3, TailOf DEF PostFrame
  <2>2. ready' \in Seq(Callbacks)
    BY <1>3, <2>1, AppendOf, CallbackTypes DEF PostFrame
  <2>3. mic' \in Seq(Frames) /\ Len(mic') <= 1
    BY <1>3 DEF PostFrame
  <2> QED BY <1>3, <2>2, <2>3 DEF PostFrame, mainVars
<1>4. ASSUME Inject PROVE TypeOK'
  <2>1. fired' \in 0..MaxFired /\ captured \in Nat
    BY <1>4, VoiceAssumption DEF Inject
  <2>2. ready' \in Seq(Callbacks)
    BY <1>4, <2>1, AppendOf, CallbackTypes DEF Inject
  <2> QED BY <1>4, <2>1, <2>2 DEF Inject, mainVars
<1>5. ASSUME Timeout \/ Complete PROVE TypeOK'
  <2>1. ready' = Append(ready, Main)
    BY <1>5 DEF Timeout, Complete
  <2>2. ready' \in Seq(Callbacks)
    BY <2>1, AppendOf, CallbackTypes
  <2> QED BY <1>5, <2>2 DEF Timeout, Complete, micVars, mainVars
<1>6. ASSUME Deliver PROVE TypeOK'
  <2>1. Head(ready) \in Callbacks /\ ready' \in Seq(Callbacks)
    BY <1>6, TailOf, WakeType DEF Deliver, Runs
  <2>2. events' \in Seq(Nat)
    BY <1>6, <2>1, AppendOf DEF Deliver, Callbacks
  <2> QED BY <1>6, <2>1, <2>2 DEF Deliver, micVars, mainVars
<1>7. ASSUME Enqueue PROVE TypeOK'
  <2>1. Head(ready) \in Callbacks /\ ready' \in Seq(Callbacks)
    BY <1>7, TailOf, WakeType DEF Enqueue, Runs
  <2> DEFINE rest == IF Len(audio) = AudioMax THEN Tail(audio) ELSE audio
  <2>2. rest \in Seq(Frames) /\ Len(rest) < AudioMax
    BY TailOf, VoiceAssumption
  <2>3. audio' \in Seq(Frames) /\ Len(audio') <= AudioMax
    BY <1>7, <2>1, <2>2, AppendOf, CallbackTypes, VoiceAssumption DEF Enqueue
  <2>4. enqueued' \in Nat
    BY <1>7, <2>1 DEF Enqueue, Callbacks
  <2> QED BY <1>7, <2>1, <2>3, <2>4 DEF Enqueue, micVars, mainVars
<1>8. ASSUME Take PROVE TypeOK'
  <2>1. events # <<>> /\ ready # <<>>
    <3>1. Woken
      BY <1>8, TailOf DEF Take, Runs, Woken
    <3> QED BY <1>8, <3>1 DEF WakeupsAreOwed, Take, Runs
  <2>2. events' \in Seq(Nat) /\ woke' \in Nat /\ ready' \in Seq(Callbacks)
    BY <1>8, <2>1, TailOf DEF Take, StartRecording, Suspend
  <2>3. rec' \in Recorders /\ audio' = <<>>
    BY <1>8 DEF Take, StartRecording, NoUtterance, Recorders
  <2> QED BY <1>8, <2>2, <2>3, VoiceAssumption
          DEF Take, StartRecording, Suspend, micVars
<1>9. ASSUME Hear PROVE TypeOK'
  <2>1. audio # <<>> /\ ready # <<>>
    <3>1. Woken
      BY <1>9, TailOf DEF Hear, Runs, Woken
    <3> QED BY <1>9, <3>1 DEF WakeupsAreOwed, Hear, Runs
  <2>2. /\ Head(audio) \in Frames
        /\ audio' \in Seq(Frames) /\ Len(audio') <= AudioMax
    BY <1>9, <2>1, TailOf, VoiceAssumption DEF Hear
  <2>3. rec' \in Recorders
    BY <1>9, <2>2, DetectType DEF Hear
  <2>4. pc' \in MainPlaces /\ phase' \in {"idle", "active"} /\ ready' \in Seq(Callbacks)
    <3>1. CASE EndRecording(rec')
      BY <1>9, <3>1, MainType DEF Hear, EndRecording, MainPlaces
    <3>2. CASE ~EndRecording(rec')
      BY <1>9, <2>1, <3>2, TailOf DEF Hear, MainPlaces
    <3> QED BY <3>1, <3>2
  <2> QED BY <1>9, <2>2, <2>3, <2>4 DEF Hear, micVars, MainPlaces
<1>10. ASSUME Expire PROVE TypeOK'
  <2>1. pc' \in MainPlaces /\ phase' \in {"idle", "active"} /\ ready' \in Seq(Callbacks)
    BY <1>10, MainType DEF Expire, EndRecording, MainPlaces
  <2> QED BY <1>10, <2>1 DEF Expire, micVars, MainPlaces
<1>11. ASSUME Transcribed PROVE TypeOK'
  <2>1. pc' \in MainPlaces /\ phase' \in {"idle", "active"} /\ ready' \in Seq(Callbacks)
    BY <1>11, MainType DEF Transcribed, MainPlaces
  <2> QED BY <1>11, <2>1 DEF Transcribed, micVars, MainPlaces
<1>12. ASSUME Thought PROVE TypeOK'
  <2>1. pc' \in MainPlaces /\ phase' \in {"idle", "active"} /\ ready' \in Seq(Callbacks)
    BY <1>12, MainType DEF Thought, MainPlaces
  <2> QED BY <1>12, <2>1 DEF Thought, micVars, MainPlaces
<1>13. ASSUME Prompted PROVE TypeOK'
  <2>1. pc' \in MainPlaces /\ phase' \in {"idle", "active"} /\ ready' \in Seq(Callbacks)
    BY <1>13, MainType DEF Prompted, StartRecording, MainPlaces
  <2>2. NoUtterance \in Recorders /\ <<>> \in Seq(Frames) /\ Len(<<>>) <= AudioMax
    BY VoiceAssumption DEF NoUtterance, Recorders
  <2>3. /\ rec' \in {rec, NoUtterance} /\ audio' \in {audio, <<>>}
        /\ use' \in {use, "gate"} /\ mark' \in {mark, enqueued}
    BY <1>13 DEF Prompted, StartRecording
  <2> QED BY <1>13, <2>1, <2>2, <2>3 DEF Prompted, micVars, MainPlaces
<1>14. ASSUME Spoken PROVE TypeOK'
  <2>1. pc' \in MainPlaces /\ phase' \in {"idle", "active"} /\ ready' \in Seq(Callbacks)
    BY <1>14, MainType DEF Spoken, MainPlaces
  <2> QED BY <1>14, <2>1 DEF Spoken, micVars, MainPlaces
<1>15. CASE UNCHANGED vars
  BY <1>15 DEF vars
<1> QED
  BY <1>1, <1>2, <1>3, <1>4, <1>5, <1>6, <1>7, <1>8, <1>9, <1>10, <1>11, <1>12,
     <1>13, <1>14, <1>15 DEF Next, RunOnce

-----------------------------------------------------------------------------
(***************************************************************************)
(* Wakeups.                                                                *)
(***************************************************************************)

OneMain(s) ==
    \A i, j \in DOMAIN s : s[i].kind = "main" /\ s[j].kind = "main" => i = j

\* Posting a callback of another kind resumes nobody.
LEMMA PostOther ==
    ASSUME ready \in Seq(Callbacks), OneMain(ready), NEW cb \in Callbacks,
           cb.kind # "main", ready' = Append(ready, cb)
    PROVE  OneMain(ready') /\ (Woken' <=> Woken)
BY AppendOf DEF OneMain, Woken

\* Posting main_loop while it sleeps posts it once.
LEMMA PostMain ==
    ASSUME ready \in Seq(Callbacks), ~Woken, ready' = Append(ready, Main)
    PROVE  OneMain(ready')
BY AppendOf, CallbackTypes DEF OneMain, Woken

\* When main_loop suspends, it is posted nowhere.
LEMMA TailMain ==
    ASSUME ready \in Seq(Callbacks), OneMain(ready), Runs("main"), ready' = Tail(ready)
    PROVE  OneMain(ready') /\ ~Woken'
<1>1. ready # <<>> /\ ready[1].kind = "main" /\ 1 \in DOMAIN ready
  BY TailOf DEF Runs
<1>2. \A i \in DOMAIN Tail(ready) : i + 1 \in DOMAIN ready /\ i + 1 # 1
                                   /\ Tail(ready)[i] = ready[i + 1]
  BY <1>1, TailOf
<1>3. \A i \in DOMAIN Tail(ready) : Tail(ready)[i].kind # "main"
  BY <1>1, <1>2 DEF OneMain
<1> QED BY <1>3 DEF OneMain, Woken

\* A callback that runs may resume main_loop, once.
LEMMA WakeOnce ==
    ASSUME ready \in Seq(Callbacks), OneMain(ready), ready # <<>>, ~Runs("main"),
           NEW w \in BOOLEAN, ready' = Wake(w)
    PROVE  OneMain(ready') /\ (Woken' => Woken \/ w)
<1>1. /\ Tail(ready) \in Seq(Callbacks)
      /\ \A i \in DOMAIN Tail(ready) : i + 1 \in DOMAIN ready /\ Tail(ready)[i] = ready[i + 1]
      /\ DOMAIN Tail(ready) \subseteq Nat
  BY TailOf
<1>2. OneMain(Tail(ready))
  BY <1>1 DEF OneMain
<1>3. \A i \in DOMAIN Tail(ready) : Tail(ready)[i].kind = "main" => Woken
  BY <1>1 DEF Woken
<1>4. CASE w /\ ~Woken
  <2>1. ready' = Append(Tail(ready), Main)
    BY <1>4 DEF Wake
  <2>2. /\ DOMAIN ready' = DOMAIN Tail(ready) \cup {Len(Tail(ready)) + 1}
        /\ \A i \in DOMAIN Tail(ready) : ready'[i] = Tail(ready)[i]
    BY <1>1, <2>1, AppendOf, CallbackTypes
  <2>3. \A i \in DOMAIN Tail(ready) : ready'[i].kind # "main"
    BY <1>3, <1>4, <2>2
  <2>4. OneMain(ready')
    BY <2>2, <2>3 DEF OneMain
  <2> QED BY <1>4, <2>4
<1>5. CASE ~(w /\ ~Woken)
  <2>1. ready' = Tail(ready)
    BY <1>5 DEF Wake
  <2> QED BY <1>2, <1>3, <2>1 DEF Woken
<1> QED BY <1>4, <1>5

\* A step of main_loop leaves it suspended, or going on with an activation.
LEMMA MainOnce ==
    ASSUME ready \in Seq(Callbacks), OneMain(ready), Runs("main"), UNCHANGED events,
           \/ \E at \in MainPlaces : Suspend(at)
           \/ BackToListen
    PROVE  OneMain(ready') /\ (Woken' => pc' = "listen" /\ events' # <<>>)
<1>1. CASE ready' = Tail(ready)
  BY <1>1, TailMain
<1>2. CASE ready' = ready /\ pc' = "listen" /\ events # <<>>
  BY <1>2
<1> QED BY <1>1, <1>2 DEF Suspend, BackToListen

\* main_loop is posted at most once, and only to find what it waits for.
LEMMA OwedStep == TypeInv /\ [Next]_vars => WakeupsAreOwed'
<1> SUFFICES ASSUME TypeInv, [Next]_vars PROVE WakeupsAreOwed'
  OBVIOUS
<1>0. /\ ready \in Seq(Callbacks) /\ OneMain(ready) /\ events \in Seq(Nat)
      /\ audio \in Seq(Frames) /\ captured \in Nat /\ mic \in Seq(Frames)
      /\ Woken /\ pc = "listen" => events # <<>>
      /\ Woken /\ pc = "record" => audio # <<>>
  BY VoiceAssumption DEF TypeInv, TypeOK, WakeupsAreOwed, OneMain
<1>1. ASSUME NEW loud \in BOOLEAN, Capture(loud) PROVE WakeupsAreOwed'
  <2>1. NewFrame(loud) \in Frames
    BY <1>0 DEF NewFrame, Frames
  <2>2. OneMain(ready') /\ (Woken' <=> Woken)
    BY <1>0, <1>1, <2>1, PostOther, CallbackTypes DEF Capture
  <2> QED BY <1>0, <1>1, <2>2 DEF Capture, mainVars, WakeupsAreOwed, OneMain
<1>2. ASSUME NEW loud \in BOOLEAN, CaptureWake(loud) PROVE WakeupsAreOwed'
  <2>1. captured + 1 \in Nat
    BY <1>0
  <2>2. OneMain(ready') /\ (Woken' <=> Woken)
    BY <1>0, <1>2, <2>1, PostOther, CallbackTypes DEF CaptureWake
  <2> QED BY <1>0, <1>2, <2>2 DEF CaptureWake, mainVars, WakeupsAreOwed, OneMain
<1>3. ASSUME PostFrame PROVE WakeupsAreOwed'
  <2>1. mic[1] \in Frames
    BY <1>0, <1>3, TailOf DEF PostFrame
  <2>2. OneMain(ready') /\ (Woken' <=> Woken)
    BY <1>0, <1>3, <2>1, PostOther, CallbackTypes DEF PostFrame
  <2> QED BY <1>0, <1>3, <2>2 DEF PostFrame, mainVars, WakeupsAreOwed, OneMain
<1>4. ASSUME Inject PROVE WakeupsAreOwed'
  <2>1. OneMain(ready') /\ (Woken' <=> Woken)
    BY <1>0, <1>4, PostOther, CallbackTypes DEF Inject
  <2> QED BY <1>0, <1>4, <2>1 DEF Inject, mainVars, WakeupsAreOwed, OneMain
<1>5. ASSUME Timeout \/ Complete PROVE WakeupsAreOwed'
  <2>1. OneMain(ready')
    BY <1>0, <1>5, PostMain DEF Timeout, Complete
  <2>2. pc' \notin {"listen", "record"}
    BY <1>5 DEF Timeout, Complete, mainVars
  <2> QED BY <2>1, <2>2 DEF WakeupsAreOwed, OneMain
<1>6. ASSUME Deliver PROVE WakeupsAreOwed'
  <2>1. ready # <<>> /\ ~Runs("main") /\ Head(ready) \in Callbacks
    BY <1>0, <1>6, TailOf DEF Deliver, Runs
  <2>2. OneMain(ready') /\ (Woken' => Woken \/ pc = "listen")
    BY <1>0, <1>6, <2>1, WakeOnce DEF Deliver
  <2>3. events' # <<>>
    BY <1>0, <1>6, <2>1, AppendOf DEF Deliver, Callbacks
  <2> QED BY <1>0, <1>6, <2>2, <2>3 DEF Deliver, mainVars, WakeupsAreOwed, OneMain
<1>7. ASSUME Enqueue PROVE WakeupsAreOwed'
  <2>1. ready # <<>> /\ ~Runs("main") /\ Head(ready) \in Callbacks
    BY <1>0, <1>7, TailOf DEF Enqueue, Runs
  <2>2. OneMain(ready') /\ (Woken' => Woken \/ pc = "record")
    BY <1>0, <1>7, <2>1, WakeOnce DEF Enqueue
  <2> DEFINE rest == IF Len(audio) = AudioMax THEN Tail(audio) ELSE audio
  <2>3. rest \in Seq(Frames) /\ FrameOf(Head(ready)) \in Frames
    BY <1>0, <2>1, TailOf, CallbackTypes, VoiceAssumption
  <2>4. audio' # <<>>
    BY <1>7, <2>3, AppendOf DEF Enqueue
  <2> QED BY <1>0, <1>7, <2>2, <2>4 DEF Enqueue, mainVars, WakeupsAreOwed, OneMain
<1>8. ASSUME Take \/ Prompted PROVE WakeupsAreOwed'
  <2>1. Runs("main") /\ ready' = Tail(ready)
    BY <1>8 DEF Take, Prompted, StartRecording, Suspend
  <2> QED BY <1>0, <2>1, TailMain DEF WakeupsAreOwed, OneMain
<1>9. ASSUME Hear PROVE WakeupsAreOwed'
  <2>1. CASE EndRecording(rec')
    <3>1. OneMain(ready') /\ (Woken' => pc' = "listen" /\ events' # <<>>)
      BY <1>0, <1>9, <2>1, MainOnce DEF Hear, EndRecording, MainPlaces
    <3> QED BY <3>1 DEF WakeupsAreOwed, OneMain
  <2>2. CASE ~EndRecording(rec') /\ Tail(audio) = <<>>
    <3>1. ready' = Tail(ready) /\ Runs("main")
      BY <1>9, <2>2 DEF Hear
    <3> QED BY <1>0, <3>1, TailMain DEF WakeupsAreOwed, OneMain
  <2>3. CASE ~EndRecording(rec') /\ Tail(audio) # <<>>
    BY <1>0, <1>9, <2>3 DEF Hear, WakeupsAreOwed, OneMain
  <2> QED BY <2>1, <2>2, <2>3
<1>10. ASSUME Expire \/ Transcribed \/ Thought \/ Spoken PROVE WakeupsAreOwed'
  <2>1. /\ Runs("main") /\ UNCHANGED events
        /\ (\E at \in MainPlaces : Suspend(at)) \/ BackToListen
    BY <1>10 DEF Expire, Transcribed, Thought, Spoken, EndRecording, MainPlaces
  <2>2. OneMain(ready') /\ (Woken' => pc' = "listen" /\ events' # <<>>)
    BY <1>0, <2>1, MainOnce
  <2> QED BY <2>2 DEF WakeupsAreOwed, OneMain
<1>11. CASE UNCHANGED vars
  BY <1>0, <1>11 DEF vars, WakeupsAreOwed, OneMain, Woken
<1> QED
  BY <1>1, <1>2, <1>3, <1>4, <1>5, <1>6, <1>7, <1>8, <1>9, <1>10, <1>11
     DEF Next, RunOnce

LEMMA TypeInvariant == Spec => []TypeInv
<1>1. Init => TypeInv
  <2> SUFFICES ASSUME Init PROVE TypeInv
    OBVIOUS
  <2>1. NoUtterance \in Recorders
    BY DEF NoUtterance, Recorders
  <2>2. TypeOK
    BY <2>1, VoiceAssumption DEF Init, TypeOK
  <2>3. WakeupsAreOwed
    BY DEF Init, WakeupsAreOwed, Woken
  <2> QED BY <2>2, <2>3 DEF TypeInv
<1>2. TypeInv /\ [Next]_vars => TypeInv'
  BY TypeStep, OwedStep DEF TypeInv
<1> QED BY <1>1, <1>2, PTL DEF Spec

\* Every variable keeps its type, and the audio queue its bound, under every
\* interleaving of the microphone thread and the loop.
THEOREM VoiceTypeCorrect == Spec => []TypeOK
<1>1. TypeInv => TypeOK
  BY DEF TypeInv
<1> QED BY <1>1, TypeInvariant, PTL

-----------------------------------------------------------------------------
(***************************************************************************)
(* Sessions.                                                               *)
(***************************************************************************)

\* The control socket says "idle" exactly while main_loop waits for an activation.
PhaseInv == phase = IF pc = "listen" THEN "idle" ELSE "active"

LEMMA PhaseStep == PhaseInv /\ [Next]_vars => PhaseInv'
<1> SUFFICES ASSUME PhaseInv, [Next]_vars PROVE PhaseInv'
  OBVIOUS
<1> USE DEF PhaseInv
<1>1. CASE UNCHANGED <<pc, phase>>
  BY <1>1
<1>2. ASSUME NEW loud \in BOOLEAN, Capture(loud) \/ CaptureWake(loud) PROVE PhaseInv'
  BY <1>1, <1>2 DEF Capture, CaptureWake, mainVars
<1>3. CASE PostFrame \/ Inject \/ Complete \/ Deliver \/ Enqueue
  BY <1>1, <1>3 DEF PostFrame, Inject, Complete, Deliver, Enqueue, mainVars
<1>4. CASE Timeout
  BY <1>4 DEF Timeout
<1>5. CASE Take
  BY <1>5 DEF Take, StartRecording, Suspend
<1>6. CASE Hear \/ Expire
  BY <1>6 DEF Hear, Expire, EndRecording, Suspend, BackToListen
<1>7. CASE Transcribed \/ Thought \/ Spoken
  BY <1>7 DEF Transcribed, Thought, Spoken, Suspend, BackToListen
<1>8. CASE Prompted
  BY <1>8 DEF Prompted, StartRecording, Suspend
<1>9. CASE UNCHANGED vars
  BY <1>9 DEF vars
<1> QED
  BY <1>2, <1>3, <1>4, <1>5, <1>6, <1>7, <1>8, <1>9 DEF Next, RunOnce

\* A session begins only when the last one has ended, however it ended.
THEOREM OneSessionAtATimeHolds == Spec => OneSessionAtATime
<1>1. Init => PhaseInv
  BY DEF Init, PhaseInv
<1> DEFINE Begun == sessions' # sessions => phase = "idle" /\ phase' = "active"
                                            /\ sessions' = sessions + 1
<1>2. PhaseInv /\ [Next]_vars => [Begun]_vars
  BY DEF PhaseInv, Next, RunOnce, Capture, CaptureWake, PostFrame, Inject, Timeout,
         Complete, Deliver, Enqueue, Take, Hear, Expire, Transcribed, Thought,
         Prompted, Spoken, mainVars, vars
<1> QED BY <1>1, <1>2, PhaseStep, PTL DEF Spec, OneSessionAtATime

-----------------------------------------------------------------------------
(***************************************************************************)
(* What a recording holds.                                                 *)
(***************************************************************************)

\* The length of a recording is what its counters say.
Recorded ==
    /\ Len(rec.heard) = IF rec.started THEN rec.spoken + 1 ELSE 0
    /\ rec.spoken <= MaxUtterance /\ (~rec.started => rec.spoken = 0)
    /\ pc = "record" => /\ rec.spoken < MaxUtterance /\ rec.silent < SilenceTail
                        /\ rec.started \/ rec.waited < MaxWait

\* What one frame adds to a recording.
LEMMA DetectAdds ==
    ASSUME NEW r \in Recorders, NEW f \in Frames
    PROVE  LET s == Detect(r, f)
           IN  \/ /\ r.started /\ s.started /\ s.spoken = r.spoken + 1
                  /\ s.heard = Append(r.heard, f.n)
               \/ /\ ~r.started /\ s.spoken = r.spoken /\ s.silent = r.silent
                  /\ s.started = f.loud /\ s.heard = IF f.loud THEN <<f.n>> ELSE <<>>
BY DEF Detect, Recorders

\* record_utterance keeps its counters true, and stops when one is at its limit.
LEMMA RecordedStep == TypeInv /\ Recorded /\ [Next]_vars => Recorded'
<1> SUFFICES ASSUME TypeInv, Recorded, [Next]_vars PROVE Recorded'
  OBVIOUS
<1>0. rec \in Recorders /\ audio \in Seq(Frames) /\ ready \in Seq(Callbacks)
  BY DEF TypeInv, TypeOK
<1>1. CASE rec' = rec /\ (pc' = pc \/ pc' # "record")
  BY <1>1 DEF Recorded
<1>2. CASE rec' = NoUtterance
  BY <1>2, VoiceAssumption DEF Recorded, NoUtterance
<1>3. CASE Hear
  <2>1. Woken
    BY <1>0, <1>3, TailOf DEF Hear, Runs, Woken
  <2>2. Head(audio) \in Frames
    BY <1>0, <1>3, <2>1, TailOf DEF TypeInv, WakeupsAreOwed, Hear
  <2>3. /\ pc = "record" /\ rec' = Detect(rec, Head(audio)) /\ rec' \in Recorders
        /\ Over(rec') \/ (~Over(rec') /\ pc' = pc)
        /\ Over(rec') => pc' # "record"
    BY <1>0, <1>3, <2>2, DetectType DEF Hear, EndRecording, Suspend, BackToListen
  <2>4. /\ Len(rec'.heard) = IF rec'.started THEN rec'.spoken + 1 ELSE 0
        /\ ~rec'.started => rec'.spoken = 0
        /\ rec'.spoken <= MaxUtterance
    <3>1. CASE rec.started
      <4>1. /\ rec'.started /\ rec'.spoken = rec.spoken + 1
            /\ rec'.heard = Append(rec.heard, Head(audio).n)
        BY <1>0, <2>2, <2>3, <3>1, DetectAdds
      <4>2. rec.heard \in Seq(Nat) /\ rec.spoken \in Nat /\ Head(audio).n \in Nat
        BY <1>0, <2>2 DEF Recorders, Frames
      <4>3. Len(rec'.heard) = Len(rec.heard) + 1
        BY <4>1, <4>2
      <4> QED BY <2>3, <3>1, <4>1, <4>2, <4>3, VoiceAssumption DEF Recorded
    <3>2. CASE ~rec.started
      <4>1. /\ rec'.spoken = rec.spoken /\ rec'.started = Head(audio).loud
            /\ rec'.heard = IF Head(audio).loud THEN <<Head(audio).n>> ELSE <<>>
        BY <1>0, <2>2, <2>3, <3>2, DetectAdds
      <4>2. rec.spoken = 0 /\ Head(audio).loud \in BOOLEAN
        BY <2>2, <3>2 DEF Recorded, Frames
      <4> QED BY <4>1, <4>2, VoiceAssumption
    <3> QED BY <3>1, <3>2
  <2>5. pc' = "record" => /\ rec'.spoken < MaxUtterance /\ rec'.silent < SilenceTail
                          /\ rec'.started \/ rec'.waited < MaxWait
    <3> SUFFICES ASSUME ~Over(rec')
                 PROVE  /\ rec'.spoken < MaxUtterance /\ rec'.silent < SilenceTail
                        /\ rec'.started \/ rec'.waited < MaxWait
      BY <2>3
    <3>1. /\ rec'.spoken \in Nat /\ rec'.silent \in Nat /\ rec'.waited \in Nat
          /\ rec'.started \in BOOLEAN
      BY <2>3 DEF Recorders
    <3>2. CASE rec'.started
      BY <3>1, <3>2, VoiceAssumption DEF Over
    <3>3. CASE ~rec'.started
      <4>1. rec'.silent = rec.silent /\ rec'.spoken = rec.spoken
        BY <1>0, <2>2, <2>3, <3>3, DetectAdds
      <4> QED BY <2>3, <3>1, <3>3, <4>1, VoiceAssumption DEF Over, Recorded
    <3> QED BY <3>2, <3>3
  <2> QED BY <2>4, <2>5 DEF Recorded
<1>4. ASSUME NEW loud \in BOOLEAN, Capture(loud) \/ CaptureWake(loud) PROVE Recorded'
  BY <1>1, <1>4 DEF Capture, CaptureWake, mainVars
<1>5. CASE PostFrame \/ Inject \/ Complete \/ Deliver \/ Enqueue \/ Timeout
  BY <1>1, <1>5 DEF PostFrame, Inject, Complete, Deliver, Enqueue, Timeout, mainVars
<1>6. CASE Take
  BY <1>2, <1>6 DEF Take, StartRecording
<1>7. CASE Expire \/ Transcribed \/ Thought \/ Spoken
  BY <1>1, <1>7 DEF Expire, Transcribed, Thought, Spoken, EndRecording, Suspend,
     BackToListen
<1>8. CASE Prompted
  BY <1>1, <1>2, <1>8 DEF Prompted, StartRecording, Suspend
<1>9. CASE UNCHANGED vars
  BY <1>1, <1>9 DEF vars
<1> QED
  BY <1>3, <1>4, <1>5, <1>6, <1>7, <1>8, <1>9 DEF Next, RunOnce

\* No recording outgrows max_utterance_s by more than its first frame, whatever the
\* room sounds like, and one in which nobody spoke is empty.
THEOREM UtteranceIsBoundedHolds == Spec => []UtteranceIsBounded
<1>1. Init => Recorded
  BY VoiceAssumption DEF Init, Recorded, NoUtterance
<1>2. TypeInv /\ Recorded => UtteranceIsBounded
  <2> SUFFICES ASSUME TypeInv, Recorded PROVE UtteranceIsBounded
    OBVIOUS
  <2>1. /\ rec.heard \in Seq(Nat) /\ rec.spoken \in Nat /\ rec.started \in BOOLEAN
    BY DEF TypeInv, TypeOK, Recorders
  <2> QED BY <2>1, VoiceAssumption DEF Recorded, UtteranceIsBounded
<1> QED BY <1>1, <1>2, RecordedStep, TypeInvariant, PTL DEF Spec

-----------------------------------------------------------------------------
(***************************************************************************)
(* Which frames are heard.                                                 *)
(***************************************************************************)

\* The frames in a deque s, and the one in m that is still to be posted, are in
\* order, newer than frame e and no newer than frame top.
FramesAhead(s, m, e, top) ==
    /\ \A i \in DOMAIN s : s[i].kind = "frame" =>
          /\ e < s[i].n /\ s[i].n <= top
          /\ m # <<>> => s[i].n < m[1].n
    /\ \A i, j \in DOMAIN s :
          i < j /\ s[i].kind = "frame" /\ s[j].kind = "frame" => s[i].n < s[j].n
    /\ m # <<>> => e < m[1].n /\ m[1].n <= top
    /\ e <= top

\* Nothing that was enqueued when the recording began is in the queue or was heard.
FreshInv ==
    /\ FramesAhead(ready, mic, enqueued, captured)
    /\ mark <= enqueued
    /\ \A i \in DOMAIN audio : audio[i].n > mark
    /\ NothingStaleIsHeard

\* Posting a callback that is no frame keeps the order.
LEMMA PostAhead ==
    ASSUME NEW s \in Seq(Callbacks), NEW m, NEW e, NEW top,
           FramesAhead(s, m, e, top), NEW cb \in Callbacks, cb.kind # "frame"
    PROVE  FramesAhead(Append(s, cb), m, e, top)
BY AppendOf DEF FramesAhead

\* Capturing a frame keeps the order.
LEMMA CaptureAhead ==
    ASSUME NEW s \in Seq(Callbacks), NEW e \in Nat, NEW top \in Nat,
           FramesAhead(s, <<>>, e, top), NEW f \in Frames, f.n = top + 1
    PROVE  FramesAhead(s, <<f>>, e, top + 1)
<1>1. ASSUME NEW i \in DOMAIN s PROVE s[i].n \in Nat
  <2>1. s[i] \in Callbacks
    OBVIOUS
  <2> QED BY <2>1 DEF Callbacks
<1>2. <<f>>[1].n = top + 1
  OBVIOUS
<1> QED BY <1>1, <1>2 DEF FramesAhead

\* Posting the frame the thread holds keeps the order.
LEMMA PostFrameAhead ==
    ASSUME NEW s \in Seq(Callbacks), NEW m \in Seq(Frames), m # <<>>, NEW e, NEW top,
           FramesAhead(s, m, e, top)
    PROVE  FramesAhead(Append(s, Enqueued(m[1])), <<>>, e, top)
<1>1. m[1] \in Frames
  BY TailOf
<1> DEFINE cb == Enqueued(m[1])
<1>2. cb \in Callbacks /\ cb.n = m[1].n
  BY <1>1, CallbackTypes
<1> HIDE DEF cb
<1>3. /\ DOMAIN Append(s, cb) = DOMAIN s \cup {Len(s) + 1}
      /\ \A i \in DOMAIN s : i < Len(s) + 1 /\ Append(s, cb)[i] = s[i]
      /\ \A i \in DOMAIN s : ~(Len(s) + 1 < i)
      /\ Append(s, cb)[Len(s) + 1] = cb
  BY <1>2, AppendOf
<1>4. ~(Len(s) + 1 < Len(s) + 1)
  OBVIOUS
<1>5. FramesAhead(Append(s, cb), <<>>, e, top)
  BY <1>2, <1>3, <1>4 DEF FramesAhead
<1> QED BY <1>5 DEF cb

\* Taking the head of the deque keeps the order, and a frame taken becomes the
\* last one enqueued.
LEMMA TailAhead ==
    ASSUME NEW s \in Seq(Callbacks), s # <<>>, NEW m \in Seq(Frames),
           NEW e \in Nat, NEW top \in Nat, FramesAhead(s, m, e, top)
    PROVE  /\ FramesAhead(Tail(s), m, e, top)
           /\ Head(s).kind = "frame" =>
                 FramesAhead(Tail(s), m, Head(s).n, top) /\ e < Head(s).n
<1>1. /\ Head(s) = s[1] /\ 1 \in DOMAIN s
      /\ \A i \in DOMAIN Tail(s) : i + 1 \in DOMAIN s /\ Tail(s)[i] = s[i + 1]
      /\ \A i \in DOMAIN Tail(s) : 1 < i + 1
      /\ \A i, j \in DOMAIN Tail(s) : i < j => i + 1 < j + 1
  BY TailOf
<1>2. FramesAhead(Tail(s), m, e, top)
  BY <1>1 DEF FramesAhead
<1>3. ASSUME Head(s).kind = "frame"
      PROVE  FramesAhead(Tail(s), m, Head(s).n, top) /\ e < Head(s).n
  <2>1. e < s[1].n /\ s[1].n <= top /\ (m # <<>> => s[1].n < m[1].n)
    BY <1>1, <1>3 DEF FramesAhead
  <2>2. \A i \in DOMAIN Tail(s) : Tail(s)[i].kind = "frame" => s[1].n < Tail(s)[i].n
    BY <1>1, <1>3 DEF FramesAhead
  <2> QED BY <1>1, <1>2, <2>1, <2>2 DEF FramesAhead
<1> QED BY <1>2, <1>3

\* What is enqueued after the recording began is all that can be heard.
LEMMA FreshStep == TypeInv /\ TypeOK' /\ FreshInv /\ [Next]_vars => FreshInv'
<1> SUFFICES ASSUME TypeInv, TypeOK', FreshInv, [Next]_vars PROVE FreshInv'
  OBVIOUS
<1>0. /\ ready \in Seq(Callbacks) /\ audio \in Seq(Frames) /\ mic \in Seq(Frames)
      /\ captured \in Nat /\ enqueued \in Nat /\ mark \in Nat
      /\ rec \in Recorders /\ rec' \in Recorders
      /\ FramesAhead(ready, mic, enqueued, captured)
  BY VoiceAssumption DEF TypeInv, TypeOK, FreshInv
<1>1. ASSUME FramesAhead(ready', mic', enqueued', captured'),
             UNCHANGED <<audio, mark, rec>>, enqueued' = enqueued
      PROVE  FreshInv'
  BY <1>1 DEF FreshInv, NothingStaleIsHeard
<1>2. ASSUME NEW loud \in BOOLEAN, Capture(loud) PROVE FreshInv'
  <2> DEFINE f == NewFrame(loud)
  <2>1. f \in Frames /\ f.n = captured + 1
    BY <1>0 DEF NewFrame, Frames
  <2> HIDE DEF f
  <2>2. FramesAhead(ready, <<f>>, enqueued, captured + 1)
    BY <1>0, <1>2, <2>1, CaptureAhead DEF Capture
  <2>3. <<f>> \in Seq(Frames) /\ <<f>> # <<>> /\ <<f>>[1] = f
    BY <2>1
  <2>4. FramesAhead(Append(ready, Enqueued(<<f>>[1])), <<>>, enqueued, captured + 1)
    BY <1>0, <2>2, <2>3, PostFrameAhead
  <2> QED BY <1>1, <1>2, <2>3, <2>4 DEF Capture, mainVars, f
<1>3. ASSUME NEW loud \in BOOLEAN, CaptureWake(loud) PROVE FreshInv'
  <2> DEFINE f == NewFrame(loud)
             cb == PutActivation(captured + 1)
  <2>0. captured + 1 \in Nat
    BY <1>0
  <2>1. f \in Frames /\ f.n = captured + 1
    BY <2>0 DEF NewFrame, Frames
  <2>2. cb \in Callbacks /\ cb.kind # "frame"
    BY <2>0, CallbackTypes
  <2> HIDE DEF f, cb
  <2>3. FramesAhead(ready, <<f>>, enqueued, captured + 1)
    BY <1>0, <1>3, <2>1, CaptureAhead DEF CaptureWake
  <2>4. FramesAhead(Append(ready, cb), <<f>>, enqueued, captured + 1)
    BY <1>0, <2>2, <2>3, PostAhead
  <2> QED BY <1>1, <1>3, <2>4 DEF CaptureWake, mainVars, f, cb
<1>4. ASSUME PostFrame PROVE FreshInv'
  <2>1. FramesAhead(Append(ready, Enqueued(mic[1])), <<>>, enqueued, captured)
    BY <1>0, <1>4, PostFrameAhead DEF PostFrame
  <2> QED BY <1>1, <1>4, <2>1 DEF PostFrame, mainVars
<1>5. ASSUME Inject PROVE FreshInv'
  <2>1. FramesAhead(Append(ready, PutActivation(captured)), mic, enqueued, captured)
    BY <1>0, PostAhead, CallbackTypes
  <2> QED BY <1>1, <1>5, <2>1 DEF Inject, mainVars
<1>6. FramesAhead(Append(ready, Main), mic, enqueued, captured)
  BY <1>0, PostAhead, CallbackTypes
<1>7. ASSUME Timeout \/ Complete PROVE FreshInv'
  BY <1>1, <1>6, <1>7 DEF Timeout, Complete, micVars, mainVars
<1>8. ASSUME ready # <<>>, NEW w, NEW e, FramesAhead(Tail(ready), mic, e, captured)
      PROVE  FramesAhead(Wake(w), mic, e, captured)
  <2>1. Tail(ready) \in Seq(Callbacks)
    BY <1>0, <1>8, TailOf
  <2>2. FramesAhead(Append(Tail(ready), Main), mic, e, captured)
    BY <1>8, <2>1, PostAhead, CallbackTypes
  <2> QED BY <1>8, <2>2 DEF Wake
<1>9. ASSUME Deliver PROVE FreshInv'
  <2>1. ready # <<>>
    BY <1>9 DEF Deliver, Runs
  <2>2. FramesAhead(Wake(pc = "listen"), mic, enqueued, captured)
    BY <1>0, <1>8, <2>1, TailAhead
  <2> QED BY <1>1, <1>9, <2>2 DEF Deliver, micVars, mainVars
<1>10. ASSUME Enqueue PROVE FreshInv'
  <2>1. ready # <<>> /\ Head(ready).kind = "frame" /\ Head(ready) \in Callbacks
    BY <1>0, <1>10, TailOf DEF Enqueue, Runs
  <2>2. FramesAhead(Tail(ready), mic, Head(ready).n, captured) /\ enqueued < Head(ready).n
    BY <1>0, <2>1, TailAhead
  <2>3. FramesAhead(ready', mic', enqueued', captured')
    BY <1>8, <1>10, <2>1, <2>2 DEF Enqueue, micVars
  <2>4. mark' <= enqueued' /\ mark' = mark /\ mark < Head(ready).n
    BY <1>0, <1>10, <2>1, <2>2 DEF FreshInv, Enqueue, mainVars, Callbacks
  <2> DEFINE rest == IF Len(audio) = AudioMax THEN Tail(audio) ELSE audio
             f == FrameOf(Head(ready))
  <2>5. rest \in Seq(Frames) /\ \A i \in DOMAIN rest : rest[i].n > mark
    <3>1. AudioMax # 0
      BY VoiceAssumption
    <3>2. CASE Len(audio) = AudioMax
      <4>1. audio # <<>>
        BY <1>0, <3>1, <3>2
      <4> QED BY <1>0, <3>2, <4>1, TailOf DEF FreshInv
    <3>3. CASE Len(audio) # AudioMax
      BY <1>0, <3>3 DEF FreshInv
    <3> QED BY <3>2, <3>3
  <2>6. f \in Frames /\ f.n = Head(ready).n
    BY <2>1, CallbackTypes
  <2>7. audio' = Append(rest, f)
    BY <1>10 DEF Enqueue
  <2> HIDE DEF rest, f
  <2>8. \A i \in DOMAIN audio' : audio'[i].n > mark
    <3>1. f.n > mark
      <4>1. mark \in Nat /\ Head(ready).n \in Nat /\ mark < Head(ready).n
        BY <1>0, <2>1, <2>4 DEF Callbacks, FreshInv
      <4> QED BY <2>6, <4>1
    <3>2. /\ DOMAIN audio' = DOMAIN rest \cup {Len(rest) + 1}
          /\ \A i \in DOMAIN rest : audio'[i] = rest[i]
          /\ audio'[Len(rest) + 1] = f
      BY <2>5, <2>6, <2>7, AppendOf
    <3> QED BY <2>5, <3>1, <3>2
  <2> QED BY <1>10, <2>3, <2>4, <2>8
          DEF FreshInv, NothingStaleIsHeard, Enqueue, mainVars
<1>11. ASSUME Runs("main"), ready' = Tail(ready) \/ ready' = ready, UNCHANGED <<enqueued, micVars>>
       PROVE  FramesAhead(ready', mic', enqueued', captured')
  BY <1>0, <1>11, TailAhead DEF Runs, micVars
<1>12. ASSUME Runs("main"), ready' = Tail(ready), UNCHANGED <<enqueued, micVars>>,
              audio' = <<>>, rec' = NoUtterance, mark' = enqueued
       PROVE  FreshInv'
  <2>1. FramesAhead(ready', mic', enqueued', captured')
    BY <1>11, <1>12
  <2> QED BY <1>0, <1>12, <2>1 DEF FreshInv, NothingStaleIsHeard, NoUtterance
<1>13. ASSUME Take \/ (Prompted /\ audio' = <<>> /\ rec' = NoUtterance /\ mark' = enqueued)
       PROVE  FreshInv'
  BY <1>12, <1>13 DEF Take, Prompted, StartRecording, Suspend
<1>14. ASSUME Prompted, UNCHANGED <<audio, rec, mark>> PROVE FreshInv'
  BY <1>1, <1>11, <1>14 DEF Prompted, StartRecording, Suspend
<1>15. ASSUME Expire \/ Transcribed \/ Thought \/ Spoken PROVE FreshInv'
  BY <1>1, <1>11, <1>15 DEF Expire, Transcribed, Thought, Spoken, EndRecording,
     Suspend, BackToListen
<1>16. ASSUME Hear PROVE FreshInv'
  <2>1. FramesAhead(ready', mic', enqueued', captured')
    BY <1>11, <1>16 DEF Hear, EndRecording, Suspend, BackToListen
  <2>2. Woken
    BY <1>0, <1>16, TailOf DEF Hear, Runs, Woken
  <2>3. audio # <<>>
    BY <1>16, <2>2 DEF TypeInv, WakeupsAreOwed, Hear
  <2>4. /\ Head(audio) \in Frames /\ Head(audio).n > mark
        /\ \A i \in DOMAIN audio' : audio'[i].n > mark
    <3>1. /\ Head(audio) = audio[1] /\ 1 \in DOMAIN audio /\ Head(audio) \in Frames
          /\ \A i \in DOMAIN Tail(audio) :
                i + 1 \in DOMAIN audio /\ Tail(audio)[i] = audio[i + 1]
      BY <1>0, <2>3, TailOf
    <3> QED BY <1>16, <3>1 DEF FreshInv, Hear
  <2>5. \A i \in DOMAIN rec'.heard : rec'.heard[i] > mark
    <3>1. rec' = Detect(rec, Head(audio)) /\ rec.heard \in Seq(Nat) /\ Head(audio).n \in Nat
      BY <1>0, <1>16, <2>4 DEF Hear, Recorders, Frames
    <3>2. CASE rec'.heard = Append(rec.heard, Head(audio).n)
      <4>1. \A i \in DOMAIN rec.heard : rec.heard[i] > mark
        BY DEF FreshInv, NothingStaleIsHeard
      <4>2. /\ DOMAIN rec'.heard = DOMAIN rec.heard \cup {Len(rec.heard) + 1}
            /\ \A i \in DOMAIN rec.heard : rec'.heard[i] = rec.heard[i]
            /\ rec'.heard[Len(rec.heard) + 1] = Head(audio).n
        BY <3>1, <3>2, AppendOf
      <4> QED BY <2>4, <4>1, <4>2
    <3>3. CASE rec'.heard = <<Head(audio).n>> \/ rec'.heard = <<>>
      BY <2>4, <3>3
    <3> QED BY <1>0, <2>4, <3>1, <3>2, <3>3, DetectAdds
  <2>6. UNCHANGED <<mark, enqueued>>
    BY <1>16 DEF Hear
  <2> QED BY <2>1, <2>4, <2>5, <2>6 DEF FreshInv, NothingStaleIsHeard
<1>17. CASE UNCHANGED vars
  BY <1>1, <1>0, <1>17 DEF vars
<1> QED
  BY <1>2, <1>3, <1>4, <1>5, <1>7, <1>9, <1>10, <1>13, <1>14, <1>15, <1>16, <1>17
     DEF Next, RunOnce, Prompted, StartRecording

\* No recording, of a turn or of the answer at the cloud gate, contains a frame that
\* was in the queue when it began, under every interleaving of thread and loop.
THEOREM NothingStaleHolds == Spec => []NothingStaleIsHeard
<1>1. Init => FreshInv
  BY DEF Init, FreshInv, FramesAhead, NothingStaleIsHeard, NoUtterance
<1>2. FreshInv => NothingStaleIsHeard
  BY DEF FreshInv
<1>3. TypeInv /\ TypeInv' /\ FreshInv /\ [Next]_vars => FreshInv'
  BY FreshStep DEF TypeInv
<1> QED BY <1>1, <1>2, <1>3, TypeInvariant, PTL DEF Spec

(***************************************************************************)
(* The activations, posted, queued and served.                             *)
(***************************************************************************)

\* The activations in a deque of callbacks.
Acts(s) == {i \in DOMAIN s : s[i].kind = "act"}

\* A deque holds finitely many of them.
LEMMA ActsFinite ==
    ASSUME NEW s \in Seq(Callbacks)
    PROVE  IsFiniteSet(Acts(s)) /\ Cardinality(Acts(s)) \in Nat
<1>1. 1 \in Int /\ Len(s) \in Int /\ DOMAIN s = 1..Len(s)
  OBVIOUS
<1>2. IsFiniteSet(1..Len(s))
  BY <1>1, FS_Interval
<1>3. Acts(s) \in SUBSET (1..Len(s))
  BY <1>1 DEF Acts
<1> QED BY <1>2, <1>3, FS_Subset, FS_CardinalityType

\* Posting an activation adds one, posting another callback none.
LEMMA ActsAppend ==
    ASSUME NEW s \in Seq(Callbacks), NEW cb \in Callbacks
    PROVE  Cardinality(Acts(Append(s, cb))) =
              IF cb.kind = "act" THEN Cardinality(Acts(s)) + 1 ELSE Cardinality(Acts(s))
<1>1. /\ DOMAIN Append(s, cb) = DOMAIN s \cup {Len(s) + 1}
      /\ Len(s) + 1 \notin DOMAIN s
      /\ \A i \in DOMAIN s : Append(s, cb)[i] = s[i]
      /\ Append(s, cb)[Len(s) + 1] = cb
  BY AppendOf
<1>2. CASE cb.kind = "act"
  <2>1. Acts(Append(s, cb)) = Acts(s) \cup {Len(s) + 1} /\ Len(s) + 1 \notin Acts(s)
    BY <1>1, <1>2 DEF Acts
  <2> QED BY <1>2, <2>1, ActsFinite, FS_AddElement
<1>3. CASE cb.kind # "act"
  <2>1. Acts(Append(s, cb)) = Acts(s)
    BY <1>1, <1>3 DEF Acts
  <2> QED BY <1>3, <2>1
<1> QED BY <1>2, <1>3

\* Taking the head off takes the activation it may be, and shifts the others.
LEMMA ActsTail ==
    ASSUME NEW s \in Seq(Callbacks), s # <<>>
    PROVE  Cardinality(Acts(s)) =
              IF Head(s).kind = "act" THEN Cardinality(Acts(Tail(s))) + 1
                                      ELSE Cardinality(Acts(Tail(s)))
<1> DEFINE T == Acts(Tail(s))
           S == Acts(s) \ {1}
           f == [i \in T |-> i + 1]
<1>1. /\ Tail(s) \in Seq(Callbacks) /\ Head(s) = s[1] /\ 1 \in DOMAIN s
      /\ DOMAIN s = 1..Len(s) /\ Len(s) \in Nat
      /\ DOMAIN Tail(s) = 1..(Len(s) - 1)
      /\ \A i \in DOMAIN Tail(s) : Tail(s)[i] = s[i + 1]
  BY TailOf
<1>2. IsFiniteSet(T) /\ Cardinality(T) \in Nat
  BY <1>1, ActsFinite
<1>3. IsFiniteSet(Acts(s)) /\ Cardinality(Acts(s)) \in Nat
  BY ActsFinite
<1>4. ExistsBijection(T, S)
  <2>1. \A i \in T : i \in Nat /\ i + 1 \in S
    BY <1>1 DEF Acts
  <2>2. f \in [T -> S]
    BY <2>1
  <2>3. \A i, j \in T : f[i] = f[j] => i = j
    BY <2>1
  <2>4. \A j \in S : \E i \in T : f[i] = j
    <3> SUFFICES ASSUME NEW j \in S PROVE j - 1 \in T /\ f[j - 1] = j
      OBVIOUS
    <3>1. j \in 2..Len(s) /\ s[j].kind = "act"
      BY <1>1 DEF Acts
    <3>2. j - 1 \in DOMAIN Tail(s) /\ (j - 1) + 1 = j
      BY <1>1, <3>1
    <3>3. Tail(s)[j - 1] = s[j]
      BY <1>1, <3>2
    <3>4. j - 1 \in T
      BY <3>1, <3>2, <3>3 DEF Acts
    <3> QED BY <3>2, <3>4
  <2> HIDE DEF f, T, S
  <2>5. f \in Bijection(T, S)
    BY <2>2, <2>3, <2>4 DEF Bijection, Injection, Surjection, IsInjective
  <2> QED BY <2>5 DEF ExistsBijection
<1>5. Cardinality(S) = Cardinality(T)
  BY <1>2, <1>4, FS_Bijection
<1>6. 1 \in Acts(s) <=> Head(s).kind = "act"
  BY <1>1 DEF Acts
<1>7. Cardinality(S) = IF 1 \in Acts(s) THEN Cardinality(Acts(s)) - 1 ELSE Cardinality(Acts(s))
  BY <1>3, FS_RemoveElement
<1> HIDE DEF T, S
<1>8. Cardinality(Acts(s)) = IF Head(s).kind = "act" THEN Cardinality(T) + 1 ELSE Cardinality(T)
  BY <1>2, <1>3, <1>5, <1>6, <1>7
<1> QED BY <1>8 DEF T

\* Taking the head off and resuming main_loop disturbs no other activation.
LEMMA ActsWake ==
    ASSUME ready \in Seq(Callbacks), ready # <<>>, NEW w
    PROVE  Cardinality(Acts(ready)) =
              IF Head(ready).kind = "act" THEN Cardinality(Acts(Wake(w))) + 1
                                          ELSE Cardinality(Acts(Wake(w)))
<1>1. Tail(ready) \in Seq(Callbacks)
  BY TailOf
<1>2. Cardinality(Acts(Append(Tail(ready), Main))) = Cardinality(Acts(Tail(ready)))
  BY <1>1, ActsAppend, CallbackTypes
<1> QED BY <1>2, ActsTail DEF Wake

\* What the actions of one kind do to the activations posted, queued and served.
LEMMA ActsStep == TypeInv /\ ActivationsAreKept /\ [Next]_vars => ActivationsAreKept'
<1> SUFFICES ASSUME TypeInv, ActivationsAreKept, [Next]_vars PROVE ActivationsAreKept'
  OBVIOUS
<1> DEFINE n == Cardinality(Acts(ready))
<1>0. /\ ready \in Seq(Callbacks) /\ events \in Seq(Nat) /\ fired \in Nat
      /\ sessions \in Nat /\ captured \in Nat /\ mic \in Seq(Frames)
      /\ n \in Nat /\ Len(events) \in Nat
  BY ActsFinite, VoiceAssumption DEF TypeInv, TypeOK
<1>1. fired = n + Len(events) + sessions
  BY DEF ActivationsAreKept, Acts, Posted
<1>2. ActivationsAreKept' <=> fired' = Cardinality(Acts(ready')) + Len(events') + sessions'
  BY DEF ActivationsAreKept, Acts, Posted
<1>3. ASSUME Cardinality(Acts(ready')) = n, UNCHANGED <<events, fired, sessions>>
      PROVE  ActivationsAreKept'
  BY <1>1, <1>2, <1>3
<1>4. ASSUME NEW cb \in Callbacks, cb.kind # "act", ready' = Append(ready, cb),
             UNCHANGED <<events, fired, sessions>>
      PROVE  ActivationsAreKept'
  BY <1>0, <1>3, <1>4, ActsAppend
<1>5. ASSUME NEW i \in Nat, ready' = Append(ready, PutActivation(i)),
             fired' = fired + 1, UNCHANGED <<events, sessions>>
      PROVE  ActivationsAreKept'
  <2>1. PutActivation(i) \in Callbacks /\ PutActivation(i).kind = "act"
    BY CallbackTypes
  <2>2. Cardinality(Acts(ready')) = n + 1
    BY <1>0, <1>5, <2>1, ActsAppend
  <2> HIDE DEF n
  <2> QED BY <1>0, <1>1, <1>2, <1>5, <2>2
<1>6. ASSUME Runs("main"), ready' = ready \/ ready' = Tail(ready)
      PROVE  Cardinality(Acts(ready')) = n
  BY <1>0, <1>6, ActsTail DEF Runs
<1>7. ASSUME NEW loud \in BOOLEAN, Capture(loud) PROVE ActivationsAreKept'
  <2>1. NewFrame(loud) \in Frames
    BY <1>0 DEF NewFrame, Frames
  <2>2. Enqueued(NewFrame(loud)) \in Callbacks /\ Enqueued(NewFrame(loud)).kind = "frame"
    BY <2>1, CallbackTypes
  <2> QED BY <1>4, <1>7, <2>2 DEF Capture, mainVars
<1>8. ASSUME NEW loud \in BOOLEAN, CaptureWake(loud) PROVE ActivationsAreKept'
  BY <1>0, <1>5, <1>8 DEF CaptureWake, mainVars
<1>9. ASSUME PostFrame PROVE ActivationsAreKept'
  <2>1. mic[1] \in Frames
    BY <1>0, <1>9, TailOf DEF PostFrame
  <2>2. Enqueued(mic[1]) \in Callbacks /\ Enqueued(mic[1]).kind = "frame"
    BY <2>1, CallbackTypes
  <2> QED BY <1>4, <1>9, <2>2 DEF PostFrame, mainVars
<1>10. ASSUME Inject PROVE ActivationsAreKept'
  BY <1>0, <1>5, <1>10 DEF Inject, mainVars
<1>11. ASSUME Timeout \/ Complete PROVE ActivationsAreKept'
  BY <1>4, <1>11, CallbackTypes DEF Timeout, Complete, micVars, mainVars
<1>12. ASSUME Deliver PROVE ActivationsAreKept'
  <2>1. ready # <<>> /\ Head(ready).kind = "act"
    BY <1>12 DEF Deliver, Runs
  <2>2. Head(ready).n \in Nat
    <3>1. Head(ready) \in Callbacks
      BY <1>0, <2>1, TailOf
    <3> QED BY <3>1 DEF Callbacks
  <2>3. Len(events') = Len(events) + 1
    BY <1>0, <1>12, <2>2, AppendOf DEF Deliver
  <2>4. ready' \in Seq(Callbacks) /\ n = Cardinality(Acts(ready')) + 1
    BY <1>0, <1>12, <2>1, ActsWake, WakeType DEF Deliver
  <2>5. Cardinality(Acts(ready')) \in Nat /\ UNCHANGED <<fired, sessions>>
    BY <1>12, <2>4, ActsFinite DEF Deliver, micVars, mainVars
  <2> HIDE DEF n
  <2> QED BY <1>0, <1>1, <1>2, <2>3, <2>4, <2>5
<1>13. ASSUME Enqueue PROVE ActivationsAreKept'
  <2>1. ready # <<>> /\ Head(ready).kind # "act"
    BY <1>13 DEF Enqueue, Runs
  <2>2. Cardinality(Acts(ready')) = n
    BY <1>0, <1>13, <2>1, ActsWake DEF Enqueue
  <2> QED BY <1>3, <1>13, <2>2 DEF Enqueue, micVars, mainVars
<1>14. ASSUME Take PROVE ActivationsAreKept'
  <2>1. Runs("main") /\ ready' = Tail(ready) /\ pc = "listen"
    BY <1>14 DEF Take, StartRecording, Suspend
  <2>2. Woken
    BY <1>0, <2>1, TailOf DEF Runs, Woken
  <2>3. events # <<>>
    BY <2>1, <2>2 DEF TypeInv, WakeupsAreOwed
  <2>4. Len(events') = Len(events) - 1 /\ sessions' = sessions + 1 /\ fired' = fired
    BY <1>0, <1>14, <2>3, TailOf DEF Take, micVars
  <2>5. Cardinality(Acts(ready')) = n
    BY <1>6, <2>1
  <2> HIDE DEF n
  <2> QED BY <1>0, <1>1, <1>2, <2>4, <2>5
<1>15. ASSUME Hear \/ Expire \/ Transcribed \/ Thought \/ Prompted \/ Spoken
       PROVE  ActivationsAreKept'
  <2>1. Runs("main") /\ UNCHANGED <<events, fired, sessions>>
    BY <1>15 DEF Hear, Expire, Transcribed, Thought, Prompted, Spoken, micVars
  <2>2. ready' = ready \/ ready' = Tail(ready)
    BY <1>15 DEF Hear, Expire, Transcribed, Thought, Prompted, Spoken, EndRecording,
       StartRecording, BackToListen, Suspend
  <2> QED BY <1>3, <1>6, <2>1, <2>2
<1>16. CASE UNCHANGED vars
  BY <1>3, <1>16 DEF vars, micVars, mainVars
<1> QED
  BY <1>7, <1>8, <1>9, <1>10, <1>11, <1>12, <1>13, <1>14, <1>15, <1>16
     DEF Next, RunOnce

\* No activation is lost or served twice, whatever the thread and the loop are busy
\* with: each is posted to the loop, queued, or has had its session.
THEOREM ActivationsAreKeptHolds == Spec => []ActivationsAreKept
<1>1. Init => ActivationsAreKept
  <2> SUFFICES ASSUME Init PROVE ActivationsAreKept
    OBVIOUS
  <2>1. Posted("act") = {} /\ Len(events) = 0 /\ sessions = 0 /\ fired = 0
    BY DEF Init, Posted
  <2> QED BY <2>1, FS_EmptySet DEF ActivationsAreKept
<1> QED BY <1>1, ActsStep, TypeInvariant, PTL DEF Spec

(***************************************************************************)
(* The order of the frames.                                                *)
(***************************************************************************)

\* The frames in a deque of callbacks.
Fr(s) == {i \in DOMAIN s : s[i].kind = "frame"}

\* A deque has the frames after e up to top, in order, and an activation comes after
\* all frames that are older than its own.
Ordered(s, e, top) ==
    /\ {s[i].n : i \in Fr(s)} = (e + 1)..top
    /\ \A i, j \in Fr(s) : i < j => s[i].n < s[j].n
    /\ \A i \in Acts(s) : s[i].n <= top + 1 /\ \A j \in Fr(s) : s[j].n < s[i].n => j < i

\* Posting main_loop, or an activation of a frame no newer than the next, keeps the order.
LEMMA OrderedPost ==
    ASSUME NEW s \in Seq(Callbacks), NEW e, NEW top, Ordered(s, e, top), NEW cb \in Callbacks,
           cb.kind # "frame", cb.kind = "act" => cb.n <= top + 1
    PROVE  Ordered(Append(s, cb), e, top)
<1> DEFINE t == Append(s, cb)
<1>1. /\ DOMAIN t = DOMAIN s \cup {Len(s) + 1} /\ Len(s) + 1 \notin DOMAIN s
      /\ \A i \in DOMAIN s : t[i] = s[i]
      /\ t[Len(s) + 1] = cb
      /\ \A i \in DOMAIN s : i < Len(s) + 1
  BY AppendOf
<1> HIDE DEF t
<1>2. Fr(t) = Fr(s) /\ \A i \in Fr(s) : t[i] = s[i] /\ i < Len(s) + 1
  BY <1>1 DEF Fr
<1>3. \A i \in Acts(t) : (i \in Acts(s) /\ t[i] = s[i]) \/ (i = Len(s) + 1 /\ t[i] = cb /\ cb.kind = "act")
  BY <1>1 DEF Acts
<1>4. {t[i].n : i \in Fr(t)} = {s[i].n : i \in Fr(s)}
  BY <1>2
<1>5. \A i \in Acts(t) : t[i].n <= top + 1 /\ \A j \in Fr(t) : t[j].n < t[i].n => j < i
  BY <1>2, <1>3 DEF Ordered
<1>6. \A i, j \in Fr(t) : i < j => t[i].n < t[j].n
  BY <1>2 DEF Ordered
<1> QED BY <1>4, <1>5, <1>6 DEF Ordered, t

\* Posting the next frame does.
LEMMA OrderedFrame ==
    ASSUME NEW s \in Seq(Callbacks), NEW e \in Nat, NEW top \in Nat, e <= top, Ordered(s, e, top),
           NEW cb \in Callbacks, cb.kind = "frame", cb.n = top + 1
    PROVE  Ordered(Append(s, cb), e, top + 1)
<1> DEFINE t == Append(s, cb)
<1>1. /\ DOMAIN t = DOMAIN s \cup {Len(s) + 1} /\ Len(s) + 1 \notin DOMAIN s
      /\ \A i \in DOMAIN s : t[i] = s[i]
      /\ t[Len(s) + 1] = cb
      /\ \A i \in DOMAIN s : i \in Nat /\ i < Len(s) + 1
      /\ Len(s) \in Nat
  BY AppendOf
<1> HIDE DEF t
<1>2. Fr(t) = Fr(s) \cup {Len(s) + 1} /\ \A i \in Fr(s) : t[i] = s[i] /\ i \in Nat /\ i < Len(s) + 1
  BY <1>1 DEF Fr
<1>3. Acts(t) = Acts(s) /\ \A i \in Acts(s) : t[i] = s[i]
  BY <1>1 DEF Acts
<1>4. \A i \in Fr(s) : s[i].n \in (e + 1)..top
  BY DEF Ordered
<1>5. {t[i].n : i \in Fr(t)} = (e + 1)..(top + 1)
  <2>1. {t[i].n : i \in Fr(t)} = {s[i].n : i \in Fr(s)} \cup {top + 1}
    BY <1>1, <1>2
  <2>2. {s[i].n : i \in Fr(s)} = (e + 1)..top
    BY DEF Ordered
  <2>3. (e + 1)..(top + 1) = ((e + 1)..top) \cup {top + 1}
    OBVIOUS
  <2> QED BY <2>1, <2>2, <2>3
<1>6. \A i, j \in Fr(t) : i < j => t[i].n < t[j].n
  BY <1>1, <1>2, <1>4 DEF Ordered
<1>7. \A i \in Acts(t) : /\ t[i].n \in Nat /\ t[i].n <= top + 1
                         /\ \A j \in Fr(t) : t[j].n < t[i].n => j < i
  <2> SUFFICES ASSUME NEW i \in Acts(t)
               PROVE  /\ t[i].n \in Nat /\ t[i].n <= top + 1
                      /\ \A j \in Fr(t) : t[j].n < t[i].n => j < i
    OBVIOUS
  <2>1. i \in Acts(s) /\ t[i] = s[i] /\ s[i] \in Callbacks
    BY <1>1, <1>3 DEF Acts
  <2>2. s[i].n \in Nat /\ s[i].n <= top + 1 /\ ~(top + 1 < s[i].n)
    <3>1. s[i].n <= top + 1
      BY <2>1 DEF Ordered
    <3>2. s[i].n \in Nat
      BY <2>1 DEF Callbacks
    <3> QED BY <3>1, <3>2
  <2>3. ASSUME NEW j \in Fr(t), t[j].n < t[i].n PROVE j < i
    <3>1. CASE j \in Fr(s)
      BY <1>2, <2>1, <2>3, <3>1 DEF Ordered
    <3>2. CASE j = Len(s) + 1
      BY <1>1, <2>1, <2>2, <2>3, <3>2
    <3> QED BY <1>2, <3>1, <3>2
  <2> QED BY <2>1, <2>2, <2>3
<1>8. \A i \in Acts(t) : t[i].n <= (top + 1) + 1
  BY <1>7
<1>9. Ordered(t, e, top + 1)
  BY <1>5, <1>6, <1>7, <1>8 DEF Ordered
<1> QED BY <1>9 DEF t

\* Taking the head of the deque does: a frame is the next one, and an activation has no
\* frame older than its own behind it.
LEMMA OrderedTail ==
    ASSUME NEW s \in Seq(Callbacks), s # <<>>, NEW e \in Nat, NEW top \in Nat, e <= top,
           Ordered(s, e, top)
    PROVE  /\ Head(s).kind # "frame" => Ordered(Tail(s), e, top)
           /\ Head(s).kind = "frame" =>
                 Head(s).n = e + 1 /\ e + 1 <= top /\ Ordered(Tail(s), e + 1, top)
           /\ Head(s).kind = "act" => Head(s).n <= e + 1
<1> DEFINE t == Tail(s)
<1>1. /\ Head(s) = s[1] /\ 1 \in DOMAIN s /\ DOMAIN s = 1..Len(s) /\ Len(s) \in Nat
      /\ DOMAIN t = 1..(Len(s) - 1) /\ \A i \in DOMAIN t : t[i] = s[i + 1]
      /\ \A i \in DOMAIN s : s[i].n \in Nat
  <2>1. \A i \in DOMAIN s : s[i] \in Callbacks
    OBVIOUS
  <2>2. \A i \in DOMAIN s : s[i].n \in Nat
    BY <2>1 DEF Callbacks
  <2> QED BY <2>2, TailOf
<1> HIDE DEF t
<1>2. \A i \in DOMAIN t : i \in Nat /\ i + 1 \in DOMAIN s /\ i + 1 # 1 /\ t[i] = s[i + 1]
  BY <1>1
<1>3. \A i \in DOMAIN s \ {1} : i - 1 \in DOMAIN t /\ t[i - 1] = s[i]
  BY <1>1
<1>4. /\ \A i \in Fr(t) : i \in Nat /\ i + 1 \in Fr(s) /\ t[i] = s[i + 1]
      /\ \A i \in Acts(t) : i \in Nat /\ i + 1 \in Acts(s) /\ t[i] = s[i + 1]
  BY <1>2 DEF Fr, Acts
<1>5. \A i, j \in Fr(t) : i < j => t[i].n < t[j].n
  BY <1>4 DEF Ordered
<1>6. \A i \in Acts(t) : t[i].n <= top + 1 /\ \A j \in Fr(t) : t[j].n < t[i].n => j < i
  <2>1. \A i \in Acts(t), j \in Fr(t) : t[j].n < t[i].n => j + 1 < i + 1
    BY <1>4 DEF Ordered
  <2>2. \A i \in Acts(t), j \in Fr(t) : t[j].n < t[i].n => j < i
    BY <1>4, <2>1
  <2> QED BY <1>4, <2>2 DEF Ordered
<1>7. {s[i].n : i \in Fr(s)} = (e + 1)..top
  BY DEF Ordered
<1>8. {t[i].n : i \in Fr(t)} = {s[i].n : i \in Fr(s) \ {1}}
  <2>1. \A i \in Fr(s) \ {1} : i - 1 \in Fr(t) /\ t[i - 1] = s[i]
    BY <1>3 DEF Fr
  <2>2. \A i \in Fr(t) : i + 1 \in Fr(s) \ {1} /\ t[i] = s[i + 1]
    BY <1>2, <1>4 DEF Fr
  <2> QED BY <2>1, <2>2
<1>9. CASE Head(s).kind # "frame"
  <2>1. Fr(s) \ {1} = Fr(s)
    BY <1>1, <1>9 DEF Fr
  <2>2. Ordered(t, e, top)
    BY <1>5, <1>6, <1>7, <1>8, <2>1 DEF Ordered
  <2>3. Head(s).kind = "act" => Head(s).n <= e + 1
    <3> SUFFICES ASSUME Head(s).kind = "act", ~(Head(s).n <= e + 1) PROVE FALSE
      OBVIOUS
    <3>1. 1 \in Acts(s) /\ s[1].n \in Nat /\ s[1].n <= top + 1
      BY <1>1 DEF Acts, Ordered
    <3>2. e + 1 \in (e + 1)..top /\ e + 1 < s[1].n
      BY <1>1, <3>1
    <3>3. PICK j \in Fr(s) : s[j].n = e + 1
      BY <1>7, <3>2
    <3>4. j < 1
      BY <3>1, <3>2, <3>3 DEF Ordered
    <3> QED BY <1>1, <3>4 DEF Fr
  <2> QED BY <1>9, <2>2, <2>3 DEF t
<1>10. CASE Head(s).kind = "frame"
  <2>1. 1 \in Fr(s) /\ s[1].n \in (e + 1)..top
    BY <1>1, <1>7, <1>10 DEF Fr
  <2>2. \A i \in Fr(s) \ {1} : 1 < i /\ s[1].n < s[i].n
    BY <1>1, <2>1 DEF Fr, Ordered
  <2>3. e + 1 \in (e + 1)..top
    BY <2>1
  <2>4. PICK j \in Fr(s) : s[j].n = e + 1
    BY <1>7, <2>3
  <2>5. j = 1
    BY <2>1, <2>2, <2>4
  <2>6. \A i \in Fr(s) \ {1} : s[i].n \in (e + 2)..top
    <3> SUFFICES ASSUME NEW i \in Fr(s) \ {1} PROVE s[i].n \in (e + 2)..top
      OBVIOUS
    <3>1. s[i].n \in (e + 1)..top /\ e + 1 < s[i].n
      BY <1>7, <2>2, <2>4, <2>5
    <3> QED BY <3>1
  <2>7. \A k \in (e + 2)..top : \E i \in Fr(s) \ {1} : s[i].n = k
    <3> SUFFICES ASSUME NEW k \in (e + 2)..top PROVE \E i \in Fr(s) \ {1} : s[i].n = k
      OBVIOUS
    <3>1. k \in (e + 1)..top /\ k # e + 1
      OBVIOUS
    <3>2. PICK i \in Fr(s) : s[i].n = k
      BY <1>7, <3>1
    <3> QED BY <2>4, <2>5, <3>1, <3>2
  <2>8. {s[i].n : i \in Fr(s) \ {1}} = ((e + 1) + 1)..top
    <3>1. (e + 1) + 1 = e + 2
      OBVIOUS
    <3> QED BY <2>6, <2>7, <3>1
  <2>9. Ordered(t, e + 1, top)
    BY <1>5, <1>6, <1>8, <2>8 DEF Ordered
  <2> QED BY <1>1, <1>10, <2>1, <2>4, <2>5, <2>9 DEF t
<1> QED BY <1>9, <1>10

\* What is on its way to the queue, with the activations among it; each comes after the
\* frames that are older than its own.
DequeInOrder ==
    /\ \A i \in DOMAIN mic : mic[i].n = captured
    /\ enqueued + Len(mic) <= captured
    /\ Ordered(ready, enqueued, captured - Len(mic))
    /\ \A i \in DOMAIN events : events[i] <= enqueued + 1

\* The queue has the last frames that were enqueued.
AudioInOrder == \A i \in DOMAIN audio : audio[i].n + Len(audio) = enqueued + i

\* What was heard is in order and older than what is in the queue; a turn has begun no
\* earlier than at the frame before its activation.
HeardInOrder ==
    /\ \A i \in DOMAIN rec.heard :
          /\ rec.heard[i] + Len(audio) <= enqueued
          /\ \A j \in 1..(i - 1) : rec.heard[j] < rec.heard[i]
    /\ use = "turn" => woke <= mark + 1

OrderInv == DequeInOrder /\ AudioInOrder /\ HeardInOrder

\* Thread, loop and main_loop keep the deque in order.
LEMMA DequeStep == TypeInv /\ DequeInOrder /\ [Next]_vars => DequeInOrder'
<1> SUFFICES ASSUME TypeInv, DequeInOrder, [Next]_vars PROVE DequeInOrder'
  OBVIOUS
<1> DEFINE top == captured - Len(mic)
<1>0. /\ ready \in Seq(Callbacks) /\ events \in Seq(Nat) /\ mic \in Seq(Frames)
      /\ captured \in Nat /\ enqueued \in Nat /\ Len(mic) \in {0, 1}
      /\ top \in Nat /\ enqueued <= top /\ captured <= top + 1 /\ Ordered(ready, enqueued, top)
      /\ \A i \in DOMAIN events : events[i] <= enqueued + 1
  <2>1. /\ ready \in Seq(Callbacks) /\ events \in Seq(Nat) /\ mic \in Seq(Frames)
        /\ captured \in Nat /\ enqueued \in Nat /\ Len(mic) <= 1
    BY VoiceAssumption DEF TypeInv, TypeOK
  <2> DEFINE n == Len(mic)
  <2>2. n \in Nat /\ n <= 1
    BY <2>1
  <2>3. /\ enqueued + n <= captured /\ Ordered(ready, enqueued, captured - n)
        /\ \A i \in DOMAIN events : events[i] <= enqueued + 1
    BY DEF DequeInOrder
  <2> HIDE DEF n
  <2>4. /\ captured - n \in Nat /\ enqueued <= captured - n /\ captured <= (captured - n) + 1
        /\ n \in {0, 1}
    BY <2>1, <2>2, <2>3
  <2> QED BY <2>1, <2>3, <2>4 DEF n
<1>1. ASSUME NEW cb \in Callbacks, cb.kind # "frame", cb.kind = "act" => cb.n <= top + 1,
             ready' = Append(ready, cb), UNCHANGED <<mic, captured, enqueued, events>>
      PROVE  DequeInOrder'
  <2>1. Ordered(ready', enqueued, top)
    BY <1>0, <1>1, OrderedPost
  <2> QED BY <1>1, <2>1 DEF DequeInOrder
<1>2. ASSUME NEW loud \in BOOLEAN, Capture(loud) PROVE DequeInOrder'
  <2> DEFINE f == NewFrame(loud)
  <2>1. f \in Frames /\ f.n = captured + 1
    BY <1>0 DEF NewFrame, Frames
  <2>2. mic = <<>> /\ mic' = <<>> /\ captured' = captured + 1 /\ UNCHANGED <<enqueued, events>>
        /\ ready' = Append(ready, Enqueued(f))
    BY <1>2 DEF Capture
  <2> HIDE DEF f
  <2>3. top = captured /\ captured' - Len(mic') = captured + 1 /\ Len(mic') = 0
    BY <1>0, <2>2
  <2>4. Enqueued(f) \in Callbacks /\ Enqueued(f).kind = "frame" /\ Enqueued(f).n = captured + 1
    BY <2>1, CallbackTypes
  <2> HIDE DEF top
  <2>5. Ordered(ready', enqueued, captured + 1)
    BY <1>0, <2>2, <2>3, <2>4, OrderedFrame
  <2>6. enqueued + Len(mic') <= captured'
    BY <1>0, <2>2, <2>3
  <2>7. \A i \in DOMAIN mic' : mic'[i].n = captured'
    BY <2>2
  <2> QED BY <1>0, <2>2, <2>3, <2>5, <2>6, <2>7 DEF DequeInOrder
<1>3. ASSUME NEW loud \in BOOLEAN, CaptureWake(loud) PROVE DequeInOrder'
  <2> DEFINE f == NewFrame(loud)
  <2>1. f \in Frames /\ f.n = captured + 1 /\ captured + 1 \in Nat
    BY <1>0 DEF NewFrame, Frames
  <2>2. mic = <<>> /\ mic' = <<f>> /\ captured' = captured + 1 /\ UNCHANGED <<enqueued, events>>
        /\ ready' = Append(ready, PutActivation(captured + 1))
    BY <1>3 DEF CaptureWake
  <2> HIDE DEF f
  <2>3. top = captured /\ captured' - Len(mic') = captured /\ Len(mic') = 1
    BY <1>0, <2>2
  <2>4. /\ PutActivation(captured + 1) \in Callbacks
        /\ PutActivation(captured + 1).kind = "act" /\ PutActivation(captured + 1).n = captured + 1
    BY <2>1, CallbackTypes DEF PutActivation
  <2> HIDE DEF top
  <2>5. Ordered(ready', enqueued, captured)
    <3>1. captured + 1 <= captured + 1
      BY <1>0
    <3> QED BY <1>0, <2>2, <2>3, <2>4, <3>1, OrderedPost
  <2>6. enqueued + Len(mic') <= captured'
    BY <1>0, <2>2, <2>3
  <2>7. \A i \in DOMAIN mic' : mic'[i].n = captured'
    BY <2>1, <2>2
  <2> QED BY <1>0, <2>2, <2>3, <2>5, <2>6, <2>7 DEF DequeInOrder
<1>4. ASSUME PostFrame PROVE DequeInOrder'
  <2>1. mic # <<>> /\ mic' = <<>> /\ ready' = Append(ready, Enqueued(mic[1]))
        /\ UNCHANGED <<captured, enqueued, events>>
    BY <1>4 DEF PostFrame
  <2>2. mic[1] \in Frames /\ Len(mic) = 1 /\ mic[1].n = captured
    <3>1. mic[1] \in Frames /\ Len(mic) = 1 /\ 1 \in DOMAIN mic
      BY <1>0, <2>1, TailOf
    <3> QED BY <3>1 DEF DequeInOrder
  <2>3. /\ Enqueued(mic[1]) \in Callbacks /\ Enqueued(mic[1]).kind = "frame"
        /\ Enqueued(mic[1]).n = captured
    BY <2>2, CallbackTypes
  <2>4. top + 1 = captured /\ captured' - Len(mic') = captured /\ Len(mic') = 0
    BY <1>0, <2>1, <2>2
  <2> HIDE DEF top
  <2>5. Ordered(ready', enqueued, top + 1)
    BY <1>0, <2>1, <2>3, <2>4, OrderedFrame
  <2>6. enqueued + Len(mic') <= captured'
    BY <1>0, <2>1, <2>4
  <2>7. \A i \in DOMAIN mic' : mic'[i].n = captured'
    BY <2>1
  <2> QED BY <1>0, <2>1, <2>4, <2>5, <2>6, <2>7 DEF DequeInOrder
<1>5. ASSUME Inject PROVE DequeInOrder'
  <2>1. /\ PutActivation(captured) \in Callbacks
        /\ PutActivation(captured).kind = "act" /\ PutActivation(captured).n = captured
    <3>1. PutActivation(captured).n = captured
      BY DEF PutActivation
    <3> QED BY <1>0, <3>1, CallbackTypes
  <2>2. captured <= top + 1
    BY <1>0
  <2> QED BY <1>1, <1>5, <2>1, <2>2 DEF Inject
<1>6. ASSUME Timeout \/ Complete PROVE DequeInOrder'
  BY <1>1, <1>6, CallbackTypes DEF Timeout, Complete, micVars
<1>7. ASSUME ready # <<>>, NEW w, NEW e, Ordered(Tail(ready), e, top)
      PROVE  Ordered(Wake(w), e, top)
  <2>1. Tail(ready) \in Seq(Callbacks)
    BY <1>0, <1>7, TailOf
  <2> HIDE DEF top
  <2>2. Ordered(Append(Tail(ready), Main), e, top)
    BY <1>7, <2>1, OrderedPost, CallbackTypes
  <2> QED BY <1>7, <2>2 DEF Wake
<1>8. ASSUME Deliver PROVE DequeInOrder'
  <2>1. /\ ready # <<>> /\ Head(ready).kind = "act" /\ ready' = Wake(pc = "listen")
        /\ events' = Append(events, Head(ready).n) /\ UNCHANGED <<mic, captured, enqueued>>
    BY <1>8 DEF Deliver, Runs, micVars
  <2> HIDE DEF top
  <2>2. Ordered(Tail(ready), enqueued, top) /\ Head(ready).n <= enqueued + 1
    BY <1>0, <2>1, OrderedTail
  <2>3. Ordered(ready', enqueued, top)
    BY <1>7, <2>1, <2>2
  <2>4. Head(ready).n \in Nat
    <3>1. Head(ready) \in Callbacks
      BY <1>0, <2>1, TailOf
    <3> QED BY <3>1 DEF Callbacks
  <2>5. \A i \in DOMAIN events' : events'[i] <= enqueued + 1
    <3> DEFINE n == Head(ready).n
    <3>1. events' = Append(events, n) /\ n \in Nat /\ n <= enqueued + 1
      BY <2>1, <2>2, <2>4
    <3> HIDE DEF n
    <3>2. /\ DOMAIN events' = DOMAIN events \cup {Len(events) + 1}
          /\ \A i \in DOMAIN events : events'[i] = events[i]
          /\ events'[Len(events) + 1] = n
      BY <1>0, <3>1, AppendOf
    <3> QED BY <1>0, <3>1, <3>2
  <2> QED BY <2>1, <2>3, <2>5 DEF DequeInOrder, top
<1>9. ASSUME Enqueue PROVE DequeInOrder'
  <2>1. /\ ready # <<>> /\ Head(ready).kind = "frame" /\ ready' = Wake(pc = "record")
        /\ enqueued' = Head(ready).n /\ UNCHANGED <<mic, captured, events>>
    BY <1>9 DEF Enqueue, Runs, micVars
  <2> HIDE DEF top
  <2>2. Ordered(Tail(ready), enqueued + 1, top) /\ enqueued' = enqueued + 1 /\ enqueued + 1 <= top
    BY <1>0, <2>1, OrderedTail
  <2>3. Ordered(ready', enqueued', top)
    BY <1>7, <2>1, <2>2
  <2>4. \A i \in DOMAIN events' : events'[i] <= enqueued' + 1
    <3>1. \A i \in DOMAIN events : events[i] \in Nat
      BY <1>0
    <3> QED BY <1>0, <2>1, <2>2, <3>1
  <2>5. enqueued' + Len(mic') <= captured'
    BY <1>0, <2>1, <2>2 DEF top
  <2> QED BY <2>1, <2>3, <2>4, <2>5 DEF DequeInOrder, top
<1>10. ASSUME Runs("main"), ready' = Tail(ready) \/ ready' = ready, UNCHANGED <<enqueued, micVars>>,
              events' = events \/ (events # <<>> /\ events' = Tail(events))
       PROVE  DequeInOrder'
  <2> HIDE DEF top
  <2>1. Ordered(ready', enqueued, top)
    <3>1. ready # <<>> /\ Head(ready).kind = "main"
      BY <1>10 DEF Runs
    <3>2. Ordered(Tail(ready), enqueued, top)
      BY <1>0, <3>1, OrderedTail
    <3> QED BY <1>0, <1>10, <3>2
  <2>2. \A i \in DOMAIN events' : events'[i] <= enqueued + 1
    <3>1. CASE events' = events
      BY <1>0, <3>1
    <3>2. CASE events # <<>> /\ events' = Tail(events)
      <4>1. \A i \in DOMAIN Tail(events) : i + 1 \in DOMAIN events /\ Tail(events)[i] = events[i + 1]
        BY <1>0, <3>2, TailOf
      <4> QED BY <1>0, <3>2, <4>1
    <3> QED BY <1>10, <3>1, <3>2
  <2> QED BY <1>10, <2>1, <2>2 DEF DequeInOrder, top, micVars
<1>11. ASSUME Take PROVE DequeInOrder'
  <2>1. Runs("main") /\ ready' = Tail(ready) /\ pc = "listen" /\ events' = Tail(events)
        /\ UNCHANGED <<enqueued, micVars>>
    BY <1>11 DEF Take, StartRecording, Suspend
  <2>2. Woken
    BY <1>0, <2>1, TailOf DEF Runs, Woken
  <2>3. events # <<>>
    BY <2>1, <2>2 DEF TypeInv, WakeupsAreOwed
  <2> QED BY <1>10, <2>1, <2>3
<1>12. ASSUME Hear \/ Expire \/ Transcribed \/ Thought \/ Prompted \/ Spoken
       PROVE  DequeInOrder'
  <2>1. Runs("main") /\ UNCHANGED <<enqueued, micVars, events>>
    BY <1>12 DEF Hear, Expire, Transcribed, Thought, Prompted, Spoken
  <2>2. ready' = ready \/ ready' = Tail(ready)
    BY <1>12 DEF Hear, Expire, Transcribed, Thought, Prompted, Spoken, EndRecording,
       StartRecording, BackToListen, Suspend
  <2> QED BY <1>10, <2>1, <2>2
<1>13. CASE UNCHANGED vars
  BY <1>13 DEF vars, DequeInOrder
<1> QED
  BY <1>2, <1>3, <1>4, <1>5, <1>6, <1>8, <1>9, <1>11, <1>12, <1>13 DEF Next, RunOnce

\* The place of a frame, counted from the youngest, when the oldest leaves and when one joins.
LEMMA PlaceKept ==
    ASSUME NEW x \in Nat, NEW n \in Nat, NEW e \in Nat, NEW i \in Nat
    PROVE  /\ x + n = e + (i + 1) => x + (n - 1) = e + i
           /\ x + n = e + i => x + (n + 1) = (e + 1) + i
OBVIOUS

\* What one Enqueue leaves in the queue: its frame, after all but perhaps the oldest.
LEMMA EnqueueLeaves ==
    ASSUME TypeInv, DequeInOrder, AudioInOrder, Enqueue
    PROVE  /\ enqueued' = enqueued + 1 /\ AudioInOrder'
           /\ Len(audio') \in Nat /\ Len(audio') <= Len(audio) + 1
<1>1. /\ ready \in Seq(Callbacks) /\ audio \in Seq(Frames) /\ mic \in Seq(Frames)
      /\ captured \in Nat /\ enqueued \in Nat /\ Len(audio) \in Nat
      /\ AudioMax \in Nat \ {0}
  BY VoiceAssumption DEF TypeInv, TypeOK
<1>2. /\ ready # <<>> /\ Head(ready).kind = "frame" /\ enqueued' = Head(ready).n
      /\ Head(ready) \in Callbacks
  BY <1>1, TailOf DEF Enqueue, Runs
<1>3. enqueued' = enqueued + 1
  <2> DEFINE top == captured - Len(mic)
             n == Len(mic)
  <2>1. n \in Nat /\ enqueued + n <= captured /\ Ordered(ready, enqueued, captured - n)
    BY <1>1 DEF DequeInOrder
  <2> HIDE DEF n
  <2>2. captured - n \in Nat /\ enqueued <= captured - n
    BY <1>1, <2>1
  <2> QED BY <1>1, <1>2, <2>1, <2>2, OrderedTail
<1> DEFINE rest == IF Len(audio) = AudioMax THEN Tail(audio) ELSE audio
           f == FrameOf(Head(ready))
<1>4. f \in Frames /\ f.n = enqueued + 1
  BY <1>2, <1>3, CallbackTypes
<1>5. rest \in Seq(Frames) /\ Len(rest) \in Nat /\ Len(rest) <= Len(audio)
      /\ \A i \in DOMAIN rest : rest[i].n + Len(rest) = enqueued + i
  <2>1. CASE Len(audio) = AudioMax
    <3>1. audio # <<>>
      BY <1>1, <2>1
    <3> DEFINE n == Len(audio)
               t == Tail(audio)
    <3>2. /\ t \in Seq(Frames) /\ Len(t) = n - 1 /\ n \in Nat /\ n # 0
          /\ \A i \in DOMAIN t : i \in Nat /\ i + 1 \in DOMAIN audio /\ t[i] = audio[i + 1]
      BY <1>1, <3>1, TailOf
    <3>3. \A i \in DOMAIN audio : audio[i].n \in Nat /\ audio[i].n + n = enqueued + i
      <4>1. \A i \in DOMAIN audio : audio[i] \in Frames
        BY <1>1
      <4>2. \A i \in DOMAIN audio : audio[i].n \in Nat
        BY <4>1 DEF Frames
      <4> QED BY <4>2 DEF AudioInOrder
    <3>4. rest = t
      BY <2>1
    <3> HIDE DEF n, t, rest
    <3>5. \A i \in DOMAIN t : t[i].n + (n - 1) = enqueued + i
      <4> SUFFICES ASSUME NEW i \in DOMAIN t PROVE t[i].n + (n - 1) = enqueued + i
        OBVIOUS
      <4>1. i \in Nat /\ i + 1 \in DOMAIN audio /\ t[i] = audio[i + 1]
        BY <3>2
      <4> DEFINE x == audio[i + 1].n
      <4>2. x \in Nat /\ x + n = enqueued + (i + 1)
        BY <3>3, <4>1
      <4>3. n \in Nat /\ enqueued \in Nat /\ i \in Nat
        BY <1>1, <3>2, <4>1
      <4> HIDE DEF x
      <4>4. x + (n - 1) = enqueued + i
        BY <4>2, <4>3, PlaceKept
      <4> QED BY <4>1, <4>4 DEF x
    <3>6. n - 1 \in Nat /\ n - 1 <= n
      BY <3>2
    <3>7. Len(t) \in Nat /\ Len(t) <= n
      BY <3>2, <3>6
    <3>8. \A i \in DOMAIN t : t[i].n + Len(t) = enqueued + i
      BY <3>2, <3>5
    <3> QED BY <3>2, <3>4, <3>7, <3>8 DEF n
  <2>2. CASE Len(audio) # AudioMax
    <3>1. rest = audio
      BY <2>2
    <3> QED BY <1>1, <3>1 DEF AudioInOrder
  <2> QED BY <2>1, <2>2
<1>6. audio' = Append(rest, f)
  BY DEF Enqueue
<1> HIDE DEF rest, f
<1>7. /\ Len(audio') = Len(rest) + 1 /\ DOMAIN audio' = DOMAIN rest \cup {Len(rest) + 1}
      /\ \A i \in DOMAIN rest : audio'[i] = rest[i] /\ i \in Nat /\ rest[i] \in Frames
      /\ audio'[Len(rest) + 1] = f
  BY <1>4, <1>5, <1>6, AppendOf
<1> DEFINE n == Len(rest)
<1>8. n \in Nat
  BY <1>5
<1>9. \A i \in DOMAIN rest : rest[i].n \in Nat /\ i \in Nat /\ rest[i].n + n = enqueued + i
  BY <1>5, <1>7 DEF Frames
<1>10. Len(audio') = n + 1
  BY <1>7
<1> HIDE DEF n
<1>11. \A i \in DOMAIN rest : rest[i].n + (n + 1) = enqueued' + i
  <2> SUFFICES ASSUME NEW i \in DOMAIN rest PROVE rest[i].n + (n + 1) = enqueued' + i
    OBVIOUS
  <2>1. rest[i].n + (n + 1) = (enqueued + 1) + i
    BY <1>1, <1>8, <1>9, PlaceKept
  <2> QED BY <1>3, <2>1
<1>12. f.n + (n + 1) = enqueued' + (n + 1)
  BY <1>1, <1>3, <1>4, <1>8
<1>13. AudioInOrder'
  <2>1. /\ DOMAIN audio' = DOMAIN rest \cup {n + 1} /\ audio'[n + 1] = f
        /\ \A i \in DOMAIN rest : audio'[i] = rest[i]
    BY <1>7 DEF n
  <2> QED BY <1>10, <1>11, <1>12, <2>1 DEF AudioInOrder
<1> QED BY <1>1, <1>3, <1>5, <1>8, <1>10, <1>13 DEF n

\* Taking the oldest frame of the queue leaves the others in order.
LEMMA HearLeaves ==
    ASSUME TypeInv, AudioInOrder, Hear
    PROVE  /\ audio # <<>> /\ Head(audio) \in Frames
           /\ Head(audio).n \in Nat /\ Head(audio).n + Len(audio') = enqueued
           /\ AudioInOrder' /\ Len(audio') \in Nat /\ Len(audio) = Len(audio') + 1
<1>1. /\ ready \in Seq(Callbacks) /\ audio \in Seq(Frames) /\ enqueued \in Nat
      /\ audio' = Tail(audio) /\ Runs("main") /\ pc = "record" /\ enqueued' = enqueued
  BY DEF TypeInv, TypeOK, Hear
<1>2. Woken
  BY <1>1, TailOf DEF Runs, Woken
<1>3. audio # <<>>
  BY <1>1, <1>2 DEF TypeInv, WakeupsAreOwed
<1> DEFINE n == Len(audio)
<1>4. /\ Head(audio) = audio[1] /\ 1 \in DOMAIN audio /\ Head(audio) \in Frames
      /\ Len(audio') = n - 1 /\ n \in Nat /\ n >= 1
      /\ \A i \in DOMAIN audio' : i \in Nat /\ i + 1 \in DOMAIN audio /\ audio'[i] = audio[i + 1]
  BY <1>1, <1>3, TailOf
<1>5. \A i \in DOMAIN audio : audio[i].n \in Nat /\ audio[i].n + n = enqueued + i
  <2>1. \A i \in DOMAIN audio : audio[i] \in Frames
    BY <1>1
  <2>2. \A i \in DOMAIN audio : audio[i].n \in Nat
    BY <2>1 DEF Frames
  <2> QED BY <2>2 DEF AudioInOrder
<1> HIDE DEF n
<1>6. \A i \in DOMAIN audio' : audio'[i].n + (n - 1) = enqueued + i
  <2> SUFFICES ASSUME NEW i \in DOMAIN audio' PROVE audio'[i].n + (n - 1) = enqueued + i
    OBVIOUS
  <2>1. i \in Nat /\ i + 1 \in DOMAIN audio /\ audio'[i] = audio[i + 1]
    BY <1>4
  <2> DEFINE x == audio[i + 1].n
  <2>2. x \in Nat /\ x + n = enqueued + (i + 1)
    BY <1>5, <2>1
  <2>3. n \in Nat /\ enqueued \in Nat /\ i \in Nat
    BY <1>1, <1>4, <2>1
  <2> HIDE DEF x
  <2>4. x + (n - 1) = enqueued + i
    BY <2>2, <2>3, PlaceKept
  <2> QED BY <2>1, <2>4 DEF x
<1>7. AudioInOrder'
  BY <1>1, <1>4, <1>6 DEF AudioInOrder
<1>8. Head(audio).n \in Nat /\ Head(audio).n + (n - 1) = enqueued
  <2> DEFINE x == Head(audio).n
  <2>1. x \in Nat /\ x + n = enqueued + 1
    BY <1>4, <1>5
  <2> HIDE DEF x
  <2>2. x + (n - 1) = enqueued
    BY <1>1, <1>4, <2>1
  <2> QED BY <2>1, <2>2 DEF x
<1>9. n - 1 \in Nat /\ n = (n - 1) + 1
  BY <1>4
<1> QED BY <1>3, <1>4, <1>7, <1>8, <1>9 DEF n

\* The steps that leave the queue, or empty it.
LEMMA AudioStep ==
    TypeInv /\ DequeInOrder /\ AudioInOrder /\ [Next]_vars => AudioInOrder'
<1> SUFFICES ASSUME TypeInv, DequeInOrder, AudioInOrder, [Next]_vars PROVE AudioInOrder'
  OBVIOUS
<1>1. ASSUME UNCHANGED <<audio, enqueued>> PROVE AudioInOrder'
  BY <1>1 DEF AudioInOrder
<1>2. ASSUME audio' = <<>> PROVE AudioInOrder'
  BY <1>2 DEF AudioInOrder
<1>3. ASSUME NEW loud \in BOOLEAN, Capture(loud) \/ CaptureWake(loud) PROVE AudioInOrder'
  BY <1>1, <1>3 DEF Capture, CaptureWake
<1>4. ASSUME PostFrame \/ Inject \/ Timeout \/ Complete \/ Deliver PROVE AudioInOrder'
  BY <1>1, <1>4 DEF PostFrame, Inject, Timeout, Complete, Deliver
<1>5. ASSUME Take \/ Prompted PROVE AudioInOrder'
  BY <1>1, <1>2, <1>5 DEF Take, Prompted, StartRecording
<1>6. ASSUME Expire \/ Transcribed \/ Thought \/ Spoken PROVE AudioInOrder'
  BY <1>1, <1>6 DEF Expire, Transcribed, Thought, Spoken
<1>7. CASE UNCHANGED vars
  BY <1>1, <1>7 DEF vars
<1> QED BY <1>3, <1>4, <1>5, <1>6, <1>7, EnqueueLeaves, HearLeaves DEF Next, RunOnce

\* What a recording hears is in order.
LEMMA HeardStep ==
    TypeInv /\ DequeInOrder /\ AudioInOrder /\ HeardInOrder /\ [Next]_vars => HeardInOrder'
<1> SUFFICES ASSUME TypeInv, DequeInOrder, AudioInOrder, HeardInOrder, [Next]_vars
             PROVE  HeardInOrder'
  OBVIOUS
<1>0. /\ audio \in Seq(Frames) /\ enqueued \in Nat /\ rec \in Recorders
      /\ rec.heard \in Seq(Nat) /\ events \in Seq(Nat) /\ ready \in Seq(Callbacks)
      /\ Len(audio) \in Nat
  BY DEF TypeInv, TypeOK, Recorders
<1>1. ASSUME UNCHANGED <<audio, enqueued, rec, use, woke, mark>> PROVE HeardInOrder'
  BY <1>1 DEF HeardInOrder
<1>2. ASSUME NEW loud \in BOOLEAN, Capture(loud) \/ CaptureWake(loud) PROVE HeardInOrder'
  BY <1>1, <1>2 DEF Capture, CaptureWake, mainVars
<1>3. ASSUME PostFrame \/ Inject \/ Timeout \/ Complete \/ Deliver PROVE HeardInOrder'
  BY <1>1, <1>3 DEF PostFrame, Inject, Timeout, Complete, Deliver, micVars, mainVars
<1>4. ASSUME Expire \/ Transcribed \/ Thought \/ Spoken PROVE HeardInOrder'
  BY <1>1, <1>4 DEF Expire, Transcribed, Thought, Spoken
<1>5. ASSUME Take PROVE HeardInOrder'
  <2>1. rec'.heard = <<>>
    BY <1>5 DEF Take, StartRecording, NoUtterance
  <2>2. Woken /\ pc = "listen"
    BY <1>0, <1>5, TailOf DEF Take, Runs, Woken
  <2>3. events # <<>>
    BY <2>2 DEF TypeInv, WakeupsAreOwed
  <2>4. Head(events) = events[1] /\ 1 \in DOMAIN events
    BY <1>0, <2>3, TailOf
  <2>5. woke' <= mark' + 1
    BY <1>5, <2>4 DEF Take, StartRecording, DequeInOrder
  <2> QED BY <2>1, <2>5 DEF HeardInOrder
<1>6. ASSUME Prompted PROVE HeardInOrder'
  <2>1. CASE rec' = NoUtterance /\ use' = "gate"
    BY <2>1 DEF HeardInOrder, NoUtterance
  <2>2. CASE UNCHANGED <<audio, use, rec, mark>>
    BY <1>1, <1>6, <2>2 DEF Prompted
  <2> QED BY <1>6, <2>1, <2>2 DEF Prompted, StartRecording
<1>7. ASSUME Enqueue PROVE HeardInOrder'
  <2> DEFINE n == Len(audio)   n1 == Len(audio')
  <2>1. enqueued' = enqueued + 1 /\ n1 \in Nat /\ n1 <= n + 1 /\ n \in Nat
    BY <1>0, <1>7, EnqueueLeaves
  <2>2. \A i \in DOMAIN rec.heard : rec.heard[i] \in Nat /\ rec.heard[i] + n <= enqueued
    BY <1>0 DEF HeardInOrder
  <2>3. UNCHANGED <<rec, use, woke, mark>>
    BY <1>7 DEF Enqueue, mainVars
  <2> HIDE DEF n, n1
  <2>4. \A i \in DOMAIN rec.heard : rec.heard[i] + n1 <= enqueued'
    BY <1>0, <2>1, <2>2
  <2> QED BY <2>3, <2>4 DEF HeardInOrder, n1
<1>8. ASSUME Hear PROVE HeardInOrder'
  <2> DEFINE n == Len(audio)   n1 == Len(audio')   h == Head(audio).n
  <2>1. /\ Head(audio) \in Frames /\ h \in Nat /\ h + n1 = enqueued /\ n1 \in Nat /\ n = n1 + 1
    BY <1>8, HearLeaves
  <2>2. \A i \in DOMAIN rec.heard : rec.heard[i] \in Nat /\ rec.heard[i] + n <= enqueued
    BY <1>0 DEF HeardInOrder
  <2>3. rec' = Detect(rec, Head(audio)) /\ UNCHANGED <<enqueued, use, woke, mark>>
    BY <1>8 DEF Hear
  <2>4. /\ \/ rec'.heard = Append(rec.heard, h)
           \/ rec'.heard = <<h>>
           \/ rec'.heard = <<>>
    BY <1>0, <2>1, <2>3, DetectAdds
  <2> HIDE DEF n, n1, h
  <2>5. \A i \in DOMAIN rec.heard : rec.heard[i] + n1 <= enqueued /\ rec.heard[i] < h
    BY <1>0, <2>1, <2>2
  <2>6. h + n1 <= enqueued
    BY <1>0, <2>1
  <2>7. CASE rec'.heard = Append(rec.heard, h)
    <3> DEFINE s == rec.heard   t == rec'.heard
               k == Len(s)
    <3>0. /\ DOMAIN t = DOMAIN s \cup {k + 1} /\ t[k + 1] = h
          /\ \A i \in DOMAIN s : t[i] = s[i]
          /\ k \in Nat /\ DOMAIN s = 1..k
      <4>1. s \in Seq(Nat) /\ h \in Nat /\ t = Append(s, h)
        BY <1>0, <2>1, <2>7
      <4> HIDE DEF s, t
      <4>2. k \in Nat /\ DOMAIN s = 1..k
        BY <4>1
      <4> QED BY <4>1, <4>2, AppendOf
    <3>2. \A i \in DOMAIN s : \A j \in 1..(i - 1) : s[j] < s[i]
      BY DEF HeardInOrder
    <3>3. \A i \in DOMAIN s : s[i] + n1 <= enqueued /\ s[i] < h
      BY <2>5
    <3> HIDE DEF s, t, k
    <3>1. /\ \A i \in DOMAIN s : 1..(i - 1) \subseteq DOMAIN s
          /\ 1..((k + 1) - 1) \subseteq DOMAIN s
      BY <3>0
    <3>4. \A i \in DOMAIN t : t[i] + n1 <= enqueued
      BY <2>6, <3>0, <3>3
    <3>5. \A i \in DOMAIN t : \A j \in 1..(i - 1) : t[j] < t[i]
      <4>1. ASSUME NEW i \in DOMAIN s, NEW j \in 1..(i - 1) PROVE t[j] < t[i]
        BY <3>0, <3>1, <3>2, <4>1
      <4>2. ASSUME NEW j \in 1..((k + 1) - 1) PROVE t[j] < t[k + 1]
        BY <3>0, <3>1, <3>3, <4>2
      <4> QED BY <3>0, <4>1, <4>2
    <3>6. use' = "turn" => woke' <= mark' + 1
      BY <2>3 DEF HeardInOrder
    <3> QED BY <2>3, <3>4, <3>5, <3>6 DEF HeardInOrder, n1, t
  <2>8. CASE rec'.heard = <<h>> \/ rec'.heard = <<>>
    <3>1. \A i \in DOMAIN rec'.heard : i = 1 /\ rec'.heard[i] = h
      BY <2>8
    <3>2. 1..(1 - 1) = {}
      OBVIOUS
    <3> QED BY <2>3, <2>6, <3>1, <3>2 DEF HeardInOrder, n1
  <2> QED BY <2>4, <2>7, <2>8
<1>9. CASE UNCHANGED vars
  BY <1>1, <1>9 DEF vars
<1> QED BY <1>2, <1>3, <1>4, <1>5, <1>6, <1>7, <1>8, <1>9 DEF Next, RunOnce

\* The recorder hears what the microphone heard, in order and without a gap but those of a
\* queue that overflowed, and nothing from before the frame its activation fired in.
THEOREM FramesAreInOrderHolds == Spec => []FramesAreInOrder
<1>1. Init => OrderInv
  <2> SUFFICES ASSUME Init PROVE OrderInv
    OBVIOUS
  <2>1. Fr(ready) = {} /\ Acts(ready) = {} /\ Len(mic) = 0
    BY DEF Init, Fr, Acts
  <2>2. (0 + 1)..(0 - 0) = {}
    OBVIOUS
  <2>3. {ready[i].n : i \in Fr(ready)} = (enqueued + 1)..(captured - Len(mic))
    BY <2>1, <2>2 DEF Init
  <2>4. DequeInOrder
    BY <2>1, <2>3 DEF Init, DequeInOrder, Ordered
  <2>5. AudioInOrder /\ HeardInOrder
    BY DEF Init, AudioInOrder, HeardInOrder, NoUtterance
  <2> QED BY <2>4, <2>5 DEF OrderInv
<1>2. TypeInv /\ OrderInv /\ [Next]_vars => OrderInv'
  BY DequeStep, AudioStep, HeardStep DEF OrderInv
<1>3. ASSUME TypeInv, OrderInv, NothingStaleIsHeard PROVE FramesAreInOrder
  <2>1. ASSUME NEW i \in DOMAIN rec.heard, use = "turn" PROVE rec.heard[i] >= woke
    <3>1. rec.heard[i] \in Nat /\ woke \in Nat /\ mark \in Nat
      BY <1>3 DEF TypeInv, TypeOK, Recorders
    <3>2. rec.heard[i] > mark /\ woke <= mark + 1
      BY <1>3, <2>1 DEF NothingStaleIsHeard, OrderInv, HeardInOrder
    <3> QED BY <3>1, <3>2
  <2>2. Posted("frame") = Fr(ready)
    BY DEF Posted, Fr
  <2> QED BY <1>3, <2>1, <2>2 DEF OrderInv, DequeInOrder, AudioInOrder, HeardInOrder, Ordered,
                                  FramesAreInOrder
<1> QED BY <1>1, <1>2, <1>3, TypeInvariant, NothingStaleHolds, PTL DEF Spec
=============================================================================
