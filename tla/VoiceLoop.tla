------------------------------ MODULE VoiceLoop -----------------------------
(***************************************************************************)
(* The voice loop of cam-daemon: the microphone thread, the callbacks it   *)
(* posts to the asyncio loop, the two queues between them, the control     *)
(* socket, and main_loop, which serves one activation at a time.           *)
(*                                                                         *)
(* asyncio runs the callbacks of its ready deque in order; the thread and  *)
(* the loop interleave between any two of their steps.  A callback is      *)
(* "act" (put an activation), "frame" (_enqueue a frame) or "main" (resume *)
(* main_loop).  While main_loop can go on without suspending, its callback *)
(* stays at the head of the deque, so nothing else of the loop runs.       *)
(*                                                                         *)
(* Sound is abstracted to numbered frames that are loud or not; durations  *)
(* are counted in frames.                                                  *)
(***************************************************************************)
EXTENDS Naturals, Sequences, FiniteSets

CONSTANTS
    MaxFrames,     \* bound on the frames of a behaviour
    MaxFired,      \* bound on the activations of a behaviour
    AudioMax,      \* wake.py _AUDIO_QUEUE_MAX
    MaxWait,       \* record_utterance max_wait_s, in frames
    SilenceTail,   \* record_utterance silence_tail_s, in frames
    MaxUtterance   \* record_utterance max_utterance_s, in frames

ASSUME VoiceAssumption ==
    /\ MaxFrames \in Nat
    /\ MaxFired \in Nat
    /\ AudioMax \in Nat \ {0}
    /\ MaxWait \in Nat \ {0}
    /\ SilenceTail \in Nat \ {0}
    /\ MaxUtterance \in Nat \ {0}

VARIABLES
    mic,        \* the frame the thread still has to post after an activation
    captured,   \* number of frames the thread has seen
    ready,      \* the ready deque of the loop
    fired,      \* number of activations posted
    events,     \* the queue of activations: the last frame heard by each
    audio,      \* the queue of frames
    pc,         \* the await main_loop has reached
    use,        \* what the recording is for: the "turn" or the cloud "gate"
    rec,        \* the locals of record_utterance
    phase,      \* state["phase"], as the control socket reports it
    sessions,   \* state["sessions"]
    woke,       \* history: the last frame before the activation being served
    enqueued,   \* history: the last frame put into the audio queue
    mark        \* history: the last frame enqueued when the recording began

vars == <<mic, captured, ready, fired, events, audio, pc, use, rec, phase,
          sessions, woke, enqueued, mark>>

micVars  == <<mic, captured, fired>>
mainVars == <<pc, use, rec, phase, sessions, woke, mark>>

-----------------------------------------------------------------------------

Frames == [n : Nat, loud : BOOLEAN]

Callbacks == [kind : {"act", "frame", "main"}, n : Nat, loud : BOOLEAN]

Recorders == [started : BOOLEAN, waited : Nat, spoken : Nat, silent : Nat,
              heard : Seq(Nat)]

PutActivation(n) == [kind |-> "act", n |-> n, loud |-> FALSE]
Enqueued(f)      == [kind |-> "frame", n |-> f.n, loud |-> f.loud]
Main             == [kind |-> "main", n |-> 0, loud |-> FALSE]

FrameOf(cb) == [n |-> cb.n, loud |-> cb.loud]

\* The callback that runs next is of this kind.
Runs(kind) == ready # <<>> /\ Head(ready).kind = kind

\* main_loop has been resumed and has not run yet, or is running.
Woken == \E i \in DOMAIN ready : ready[i].kind = "main"

\* The rest of the deque, and main_loop after it if its getter was waiting.
Wake(waiting) ==
    IF waiting /\ ~Woken THEN Append(Tail(ready), Main) ELSE Tail(ready)

\* record_utterance before its first frame.
NoUtterance == [started |-> FALSE, waited |-> 0, spoken |-> 0, silent |-> 0,
                heard |-> <<>>]

\* One frame through the energy detector.
Detect(r, f) ==
    IF ~r.started
    THEN [r EXCEPT !.waited = @ + 1,
                   !.started = f.loud,
                   !.heard = IF f.loud THEN <<f.n>> ELSE <<>>]
    ELSE [r EXCEPT !.spoken = @ + 1,
                   !.silent = IF f.loud THEN 0 ELSE @ + 1,
                   !.heard = Append(@, f.n)]

\* Faulty: only silence ends an utterance.
OverOnSilence(r) ==
    \/ ~r.started /\ r.waited >= MaxWait
    \/ r.started /\ r.silent >= SilenceTail

\* The conditions of record_utterance under which the loop breaks.
Over(r) ==
    \/ ~r.started /\ r.waited >= MaxWait
    \/ r.started /\ (r.silent >= SilenceTail \/ r.spoken >= MaxUtterance)

-----------------------------------------------------------------------------

Init ==
    /\ mic = <<>>
    /\ captured = 0
    /\ ready = <<>>
    /\ fired = 0
    /\ events = <<>>
    /\ audio = <<>>
    /\ pc = "listen"
    /\ use = "turn"
    /\ rec = NoUtterance
    /\ phase = "idle"
    /\ sessions = 0
    /\ woke = 0
    /\ enqueued = 0
    /\ mark = 0

(***************************************************************************)
(* The microphone thread: on_frame feeds the detectors, posts the          *)
(* activation if one of them fired, then posts the frame.                  *)
(***************************************************************************)
NewFrame(loud) == [n |-> captured + 1, loud |-> loud]

Capture(loud) ==
    /\ mic = <<>>
    /\ captured < MaxFrames
    /\ captured' = captured + 1
    /\ ready' = Append(ready, Enqueued(NewFrame(loud)))
    /\ UNCHANGED <<mic, fired, events, audio, enqueued, mainVars>>

CaptureWake(loud) ==
    /\ mic = <<>>
    /\ captured < MaxFrames
    /\ fired < MaxFired
    /\ captured' = captured + 1
    /\ fired' = fired + 1
    /\ ready' = Append(ready, PutActivation(captured + 1))
    /\ mic' = <<NewFrame(loud)>>
    /\ UNCHANGED <<events, audio, enqueued, mainVars>>

PostFrame ==
    /\ mic # <<>>
    /\ ready' = Append(ready, Enqueued(mic[1]))
    /\ mic' = <<>>
    /\ UNCHANGED <<captured, fired, events, audio, enqueued, mainVars>>

(***************************************************************************)
(* The callbacks of the loop.                                              *)
(***************************************************************************)

\* An "activate" request of the control socket is read by the loop.
Inject ==
    /\ fired < MaxFired
    /\ fired' = fired + 1
    /\ ready' = Append(ready, PutActivation(captured))
    /\ UNCHANGED <<mic, captured, events, audio, enqueued, mainVars>>

\* Faulty: an activation during a session is ignored.
DeliverWhenIdle ==
    /\ Runs("act")
    /\ events' = IF phase = "idle" THEN Append(events, Head(ready).n) ELSE events
    /\ ready' = Wake(pc = "listen")
    /\ UNCHANGED <<audio, enqueued, micVars, mainVars>>

\* put_nowait of the wake word or the clap, and put of the control socket: the
\* queue has no bound.
Deliver ==
    /\ Runs("act")
    /\ events' = Append(events, Head(ready).n)
    /\ ready' = Wake(pc = "listen")
    /\ UNCHANGED <<audio, enqueued, micVars, mainVars>>

\* Faulty: the queue is never trimmed.
EnqueueAll ==
    /\ Runs("frame")
    /\ audio' = Append(audio, FrameOf(Head(ready)))
    /\ enqueued' = Head(ready).n
    /\ ready' = Wake(pc = "record")
    /\ UNCHANGED <<events, micVars, mainVars>>

\* Faulty: a full queue refuses the new frame.
EnqueueDropsNewest ==
    /\ Runs("frame")
    /\ audio' = IF Len(audio) = AudioMax THEN audio
                ELSE Append(audio, FrameOf(Head(ready)))
    /\ enqueued' = Head(ready).n
    /\ ready' = Wake(pc = "record")
    /\ UNCHANGED <<events, micVars, mainVars>>

\* _enqueue: a full queue gives up its oldest frame.
Enqueue ==
    /\ Runs("frame")
    /\ audio' = Append(IF Len(audio) = AudioMax THEN Tail(audio) ELSE audio,
                       FrameOf(Head(ready)))
    /\ enqueued' = Head(ready).n
    /\ ready' = Wake(pc = "record")
    /\ UNCHANGED <<events, micVars, mainVars>>

\* Faulty: a speaker who has started is waited for without a limit.
TimeoutBeforeSpeech ==
    /\ pc = "record"
    /\ ~Woken
    /\ ~rec.started
    /\ pc' = "expired"
    /\ ready' = Append(ready, Main)
    /\ UNCHANGED <<events, audio, enqueued, micVars, use, rec, phase, sessions,
                   woke, mark>>

\* wait_for gives up on a frame that does not come.
Timeout ==
    /\ pc = "record"
    /\ ~Woken
    /\ pc' = "expired"
    /\ ready' = Append(ready, Main)
    /\ UNCHANGED <<events, audio, enqueued, micVars, use, rec, phase, sessions,
                   woke, mark>>

\* whisper, piper, the speaker, the camera, the models or lathe-pilot are done:
\* the task is resumed.
Complete ==
    /\ pc \in {"transcribe", "think", "prompt", "speak"}
    /\ ~Woken
    /\ ready' = Append(ready, Main)
    /\ UNCHANGED <<events, audio, enqueued, micVars, mainVars>>

(***************************************************************************)
(* main_loop and handle_activation.                                        *)
(***************************************************************************)

\* Suspended until something resumes the task.
Suspend(at) ==
    /\ pc' = at
    /\ ready' = Tail(ready)

\* Faulty: the phase is only reset by a turn that was answered.
BackToListenLate ==
    /\ pc' = "listen"
    /\ phase' = IF pc = "speak" THEN "idle" ELSE phase
    /\ ready' = IF events = <<>> THEN Tail(ready) ELSE ready

\* The end of a session, answered or failed, and the next events.get().
BackToListen ==
    /\ pc' = "listen"
    /\ phase' = "idle"
    /\ ready' = IF events = <<>> THEN Tail(ready) ELSE ready

\* The head of record_utterance: what is buffered is dropped, and the first
\* get() waits.
StartRecording(for) ==
    /\ Suspend("record")
    /\ use' = for
    /\ audio' = <<>>
    /\ rec' = NoUtterance
    /\ mark' = enqueued

\* The end of record_utterance.
EndRecording(r) ==
    \/ /\ r.heard # <<>>
       /\ Suspend("transcribe")
       /\ UNCHANGED phase
    \/ /\ r.heard = <<>> /\ use = "turn"         \* session.no_speech
       /\ BackToListen
    \/ /\ r.heard = <<>> /\ use = "gate"         \* silence declines
       /\ Suspend("think")
       /\ UNCHANGED phase

Take ==
    /\ Runs("main") /\ pc = "listen"
    /\ phase' = "active"
    /\ sessions' = sessions + 1
    /\ woke' = Head(events)
    /\ events' = Tail(events)
    /\ StartRecording("turn")
    /\ UNCHANGED <<enqueued, micVars>>

\* get() returns at once while the queue has frames.
Hear ==
    /\ Runs("main") /\ pc = "record"
    /\ rec' = Detect(rec, Head(audio))
    /\ audio' = Tail(audio)
    /\ \/ /\ Over(rec')
          /\ EndRecording(rec')
       \/ /\ ~Over(rec')
          /\ ready' = IF Tail(audio) = <<>> THEN Tail(ready) ELSE ready
          /\ UNCHANGED <<pc, phase>>
    /\ UNCHANGED <<events, enqueued, micVars, use, sessions, woke, mark>>

Expire ==
    /\ Runs("main") /\ pc = "expired"
    /\ EndRecording(rec)
    /\ UNCHANGED <<events, audio, enqueued, micVars, use, rec, sessions, woke, mark>>

\* The transcript of the turn, or of the answer at the gate; an error ends the
\* session, or is apologised for.
Transcribed ==
    /\ Runs("main") /\ pc = "transcribe"
    /\ \/ Suspend("think") /\ UNCHANGED phase
       \/ Suspend("speak") /\ UNCHANGED phase
       \/ use = "turn" /\ BackToListen
    /\ UNCHANGED <<events, audio, enqueued, micVars, use, rec, sessions, woke, mark>>

\* Hermes asks for consent at most once a turn; its reply or the apology for its
\* error is spoken.  The camera and the pilot end the session themselves.
Thought ==
    /\ Runs("main") /\ pc = "think"
    /\ \/ use = "turn" /\ Suspend("prompt") /\ UNCHANGED phase
       \/ Suspend("speak") /\ UNCHANGED phase
       \/ use = "turn" /\ BackToListen
    /\ UNCHANGED <<events, audio, enqueued, micVars, use, rec, sessions, woke, mark>>

\* Faulty: the answer is taken from what was buffered during the prompt.
PromptedKeepsAudio ==
    /\ Runs("main") /\ pc = "prompt"
    /\ pc' = "record"
    /\ use' = "gate"
    /\ rec' = NoUtterance
    /\ mark' = enqueued
    /\ ready' = IF audio = <<>> THEN Tail(ready) ELSE ready
    /\ UNCHANGED <<audio, events, enqueued, micVars, phase, sessions, woke>>

\* The prompt has been spoken, or failed to be.
Prompted ==
    /\ Runs("main") /\ pc = "prompt"
    /\ \/ /\ StartRecording("gate")
          /\ UNCHANGED phase
       \/ /\ Suspend("speak")
          /\ UNCHANGED <<audio, use, rec, phase, mark>>
    /\ UNCHANGED <<events, enqueued, micVars, sessions, woke>>

Spoken ==
    /\ Runs("main") /\ pc = "speak"
    /\ BackToListen
    /\ UNCHANGED <<events, audio, enqueued, micVars, use, rec, sessions, woke, mark>>

\* The callback at the head of the deque.
RunOnce ==
    \/ Deliver \/ Enqueue
    \/ Take \/ Hear \/ Expire \/ Transcribed \/ Thought \/ Prompted \/ Spoken

Next ==
    \/ \E loud \in BOOLEAN : Capture(loud) \/ CaptureWake(loud)
    \/ PostFrame
    \/ Inject
    \/ Timeout
    \/ Complete
    \/ RunOnce

\* The loop runs what is ready, on_frame returns, the timer of wait_for fires, and
\* the processes and requests of a turn end.  Nobody has to speak.
Fairness ==
    /\ WF_vars(RunOnce)
    /\ WF_vars(PostFrame)
    /\ WF_vars(Timeout)
    /\ WF_vars(Complete)

Spec     == Init /\ [][Next]_vars
FairSpec == Spec /\ Fairness

-----------------------------------------------------------------------------

\* Every variable has its type; the audio queue keeps to its size.
TypeOK ==
    /\ mic \in Seq(Frames) /\ Len(mic) <= 1
    /\ captured \in 0..MaxFrames
    /\ ready \in Seq(Callbacks)
    /\ fired \in 0..MaxFired
    /\ events \in Seq(Nat)
    /\ audio \in Seq(Frames) /\ Len(audio) <= AudioMax
    /\ pc \in {"listen", "record", "expired", "transcribe", "think", "prompt", "speak"}
    /\ use \in {"turn", "gate"}
    /\ rec \in Recorders
    /\ phase \in {"idle", "active"}
    /\ sessions \in Nat
    /\ woke \in Nat
    /\ enqueued \in Nat
    /\ mark \in Nat

Posted(kind) == {i \in DOMAIN ready : ready[i].kind = kind}

\* No wake word, clap or push-to-talk is lost or served twice, whatever the loop is
\* busy with: each is still posted, queued, or has its session.
ActivationsAreKept ==
    fired = Cardinality(Posted("act")) + Len(events) + sessions

\* Through the deque, the bounded queue and its overflow, the recorder hears frames
\* in the order they were spoken, none twice: what is buffered is always the newest run
\* of what was enqueued, without a gap, and the deque has all that was spoken since.
\* stt.py 48: of what was spoken before the wake fired, a turn hears at most the frame
\* it fired in.
FramesAreInOrder ==
    /\ \A i \in DOMAIN mic : mic[i].n = captured
    /\ {ready[i].n : i \in Posted("frame")} = (enqueued + 1)..(captured - Len(mic))
    /\ \A i, j \in Posted("frame") : i < j => ready[i].n < ready[j].n
    /\ \A i \in DOMAIN audio : audio[i].n + Len(audio) = enqueued + i
    /\ \A i \in DOMAIN rec.heard :
          /\ rec.heard[i] + Len(audio) <= enqueued
          /\ \A j \in 1..(i - 1) : rec.heard[j] < rec.heard[i]
          /\ use = "turn" => rec.heard[i] >= woke

\* stt.py 48: a recording hears nothing that was buffered when it began.  At the cloud
\* gate that is all that was posted while the prompt was spoken, but not the one frame
\* of 80 ms that may be captured and not posted yet.
NothingStaleIsHeard == \A i \in DOMAIN rec.heard : rec.heard[i] > mark

\* A recording is bounded even in a room that is never silent, and one in which
\* nobody spoke is empty, so that it ends the turn or declines the cloud.
UtteranceIsBounded ==
    /\ Len(rec.heard) <= MaxUtterance + 1
    /\ rec.started <=> rec.heard # <<>>
    /\ pc = "record" => /\ rec.spoken < MaxUtterance /\ rec.silent < SilenceTail
                        /\ rec.started \/ rec.waited < MaxWait

\* main_loop serves one activation at a time, and the control socket says so.
OneSessionAtATime ==
    [][sessions' # sessions => phase = "idle" /\ phase' = "active"
                               /\ sessions' = sessions + 1]_vars

\* Every activation gets its session: no error, silence, dead microphone or full
\* queue leaves main_loop waiting for something that will not come.
EveryWakeIsServed ==
    \A n \in 1..MaxFired : fired >= n ~> sessions >= n /\ phase = "idle"
=============================================================================
