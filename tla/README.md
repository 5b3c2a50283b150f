# LatheOS in TLA+

LatheOS is an operating system image with a local voice assistant. This directory
holds TLA+ models of the parts of it that carry state and concurrency, the TLC
configurations that check them on small instances, and TLAPS proofs of the
properties that matter most for instances of every size. Paths below are relative
to the repository; `PROJECT.json` lists, for each definition, the lines it models.

## The system

| Component | State | Operations | Interacts through | Hard behaviour |
|---|---|---|---|---|
| Hermes (`daemon/cam_daemon/hermes.py`, `router.py`, `cloud.py`, `cloud_cli.py`) | none of its own between turns; the memory store and the event log it reads | one turn: assemble, route, ask for consent, send or answer locally, remember, reply | called by the voice loop and by every `lathe-cloud` process; callback for consent | turns of several processes over one memory; failures after the payload left; what a declined turn leaves behind |
| Voice loop (`__main__.py`, `wake.py`, `stt.py`, `audio_io.py`) | two asyncio queues, the recorder's counters, phase and sessions | capture a frame, fire, deliver, enqueue, record, transcribe, think, speak | microphone thread to loop by `call_soon_threadsafe`; control socket; whisper and piper processes | thread against loop, callbacks against tasks, a bounded queue, timeouts |
| Event log (`bus.py`, `lathe_pilot/eventbus.py`, `lathe_shell/voicebus.py`) | the file `events.jsonl`; the reader's position, inode and primed flag | publish, trim, poll | a file shared by three processes | a rewrite that races an append; a position that outlives a trim; restarts of the service |
| Memory store (`memory.py`) | a SQLite database, Core and session files | search, remember, consolidate, recover | shared by the daemon and `lathe-cloud`, each in its own connection | two processes recovering one damaged file; a consolidation in three transactions; rows addressed by ids read before an await; a yanked drive |
| Agent pool (`agents.py`) | none between requests | plan, run workers in parallel, speak | Ollama over HTTP | limits of the plan, failures of some workers |
| Executor (`executor.py`) | none | dispatch an allow-listed command | `_maybe_execute` of the voice loop | commands of model output |
| Screen Pilot (`platform/screen-pilot`) | step, pointer, overlay, consent to click | plan, locate, move, narrate, advance | vision server, overlay and speech processes, event log | a click after a move that failed; a helper that is gone |
| Vision and speech workers (`platform/vision-worker`, `platform/tts-worker`) | the worker object, its model, a lock | preload, locate, speak, restart | a thread per HTTP request; the daemon and the pilot as clients | lazy creation outside the lock, failures inside it, clients that gave up while their thread goes on |
| Model settings (`lathe_shell/models.py`, `modules/firstrun-wizard.nix`) | env files and the environment of services | list, set, apply | files shared by shell, wizard and services | read-modify-write without a lock, fallback to sudo |
| Vault (`modules/vault.nix`) | one encrypted JSON blob and a key | init, set, get, remove | command line, boot services, `cloud.py` | two writers, a power cut between steps |
| Boot services (`modules/local-llm.nix`, `tts.nix`, `cam-daemon.nix`, ...) | markers and env files in /run and /persist | bootstrap, autoselect, decrypt, apply, restart | systemd ordering, files | failures before a marker, restart policy |
| Lathe shell (`platform/embedded-shell`) | widgets and their exclusive workers | chat, terminal, poll, push-to-talk | control socket, event log, Ollama | a worker replaced while it runs |
| Installers, launchers, image scripts, declarations | disks | run once by hand | - | not modelled: I/O |

What makes them correct:

- **Hermes.** Nothing leaves the device without a yes given in the same turn; a turn
  is sent at most once; a reply is the answer of the engine it names; only answered turns are
  learnt; a spoken turn always ends.
- **Voice loop.** No activation is lost, one is served at a time, each is served;
  the recorder hears recent sound in order, never what was buffered before it
  began, and always stops.
- **Event log.** Ordered and bounded whatever races or fails; no race damages a line
  of the daemon; the shell shows each event once.
- **Memory store.** Recovery never discards a sound database (it does: see
  `quarantine_once`); no memory is lost unexplained; the file is bounded. **Workers.** No
  load of the model that is not owed, one inference at a time.
  **Screen Pilot.** No click without consent at the target; what it says it did, it did;
  nothing of it stays behind. **Settings.** What was reported as saved is loaded at every
  start. **Vault, boot.** No update loses another; what a marker promises has happened.

## Modules

| Module | Role |
|---|---|
| `Hermes` | one action per await of `Hermes.respond`, for any number of callers |
| `CloudConsent` | the abstract promise: open, approve, leave, close |
| `HermesConsent` | the refinement mapping, `ImplementsConsent` |
| `HermesProofs`, `HermesConsentProofs` | theorems about the two |
| `VoiceLoop` | thread, ready deque, queues, recorder, `main_loop` |
| `VoiceProofs` | theorems about its types, queue, recorder, sessions and activations |
| `EventLog` | the daemon's and the pilot's `publish`, the trim, the shell's `poll`, the service's restarts |
| `EventLogProofs` | theorems about its bound, its order, the wholeness of its lines and what the shell is shown |
| `MemoryStore` | the processes around `general.db`, the file and the drive |
| `MemoryProofs` | theorems about its bound, what may be lost, and what a search strengthens |
| `GpuServer` | the vision or the speech server, its threads, its clients |
| `GpuProofs` | theorems about its types, its lock and its models |
| `ScreenPilot` | one run of `lathe-pilot`, call by call |
| `PilotProofs` | theorems about its clicks, its words and what it leaves behind |
| `ModelSettings` | `lathe models`, the first-run wizard, boots and the daemon's environment |
| `SettingsProofs` | theorems about what is saved and what a daemon starts with |
| `MCHermes`, `MCVoiceLoop`, `MCEventLog`, `MCMemoryStore`, `MCGpuServer`, `MCScreenPilot`, `MCModelSettings` | the instances TLC checks |

Definitions whose comment begins with "Faulty" are not part of a specification. Each
is what a plausible mistake would make of the definition that follows it, and is
listed under "mutants" in `PROJECT.json` with the property that rejects it.

### Hermes

A turn is a number. What a memory row, a log line or a cloud payload says is the set
of turns whose words it contains; this is the only thing the properties tell apart.
`pc[c]` names the await that caller `c` has reached, so turns of different processes
interleave exactly where asyncio or the scheduler lets them, and `Stages` are the
awaits of `respond`. The routing stages are the set `Decisions`: for a request with
local or deep-work words, every decision that network, classifier and errors can
produce. The voice gate (`Approves`) accepts a transcript that contains an approving
word; the terminal gate compares the whole answer; `--yes` answers "auto". A failure
of the cloud is one before the request was written (`GenerateUnsent`) or after
(`Generate` without an answer). `assemble` and the gate can raise out of `respond`,
although its docstring says it never does; `Raised` is what the callers then do.

`gate`, `sent`, `wrote` and `closed` are histories: they record consent, payloads, the
answers that engines gave, with the engine that gave each, and the ends of turns for the
properties, and no action reads them. `ReplyIsHonest` compares the engine a reply names
with the one that `wrote` says answered this very turn, so that a local answer named after
the cloud, because the payload had left before the cloud failed, would violate it.

### Voice loop

asyncio is the deque `ready` of callbacks, run in order; the microphone thread appends
to it at any moment. `main_loop` is a task: while it can go on without suspending its
callback stays at the head, so `record_utterance` empties a non-empty queue without
letting anything else of the loop run. The timer of `wait_for` is an action while the
queue is empty and nothing woke the task. In asyncio it may also run out between the
frame that wakes the task and the task itself; then the wait ends and the frame stays in
the queue, a state the model reaches in the other order, with the timer first. Sound is numbered frames that are loud or not;
the three time limits are counted in frames. Both uses of the recorder are there: the
turn, and the answer at the cloud gate.

### Event log

The file is a sequence of pieces of lines; an append adds a whole line, the trim
writes its pieces back in chunks at its own offset, wherever other processes have
moved the end. A torn line is one whose pieces are not all there; whether it is
still UTF-8 is left open. The suppressed errors of `bus.py` (a full disk is the one its
docstring names) are actions of their own: an append may fail after any part of its line
(`PublishFails`, `PilotPublishFails`), a trim at its read or at the opening for writing
(`TrimFails`), and between any two chunks of the rewrite, when what is not written back
is lost (`WriteBackFails`). After the last of these, and after a torn append,
lines of the daemon are damaged or gone; `failed` records it, and `DaemonLinesSurvive` is
the promise that nothing but a failed write, no race, costs the daemon a line. The order,
the bound and what the shell is shown hold with such failures, the last of whole lines.
The runtime directory, and the log in it, disappears when
the service stops; the new log has a new inode. The reader stats and opens in two
steps, and anything may happen between them.

### Memory store

Every operation of `memory.py` opens the database anew, so an operation is an open, with
its canary and, on a damaged header, the recovery, and then one transaction per action.
A search reads all rows, awaits the embedding of the query and only then strengthens, by
id, what it returns; a remember inserts, counts, ranks and deletes. A file is an inode
with rows, since a connection follows its inode when `_recover` renames the path below
it. `Yank` takes the drive away: all operations end, and the file may be damaged, in its
header, which the canary finds, or in a page, which only a reader of the table meets; the
latter is never noticed by an open, so it lasts. The order of an eviction is left open
wherever recency and use disagree, since the exact formula is a matter of tuning; the
rows a search returns are any `TopK` of those it read. SQLite hands out the largest id
plus one, so an evicted row's id may be given out again.

Two of the properties have an exception, kept as a history variable so that it is visible
in the formula: `contended`, two processes that found the damage at once, for what
may be lost, and `recycled`, an id that was given out again, for what a search strengthens.
Both do happen in the instance; the first is a disagreement of its own, `quarantine_once`,
and the second is why `RecallStrengthensWhatItRead` says nothing about a new row that got
the id of an evicted one.

### GPU server

`latheos-vision` and `latheos-tts` are the same server with another model, so they are one
module with the constant of a behaviour `serves`. A request is a pair of its client and a
number; its thread goes through `_get_worker` (test, create, return: three steps, outside
the lock), takes the lock, loads the model if its worker has not, runs it, and sends. A
client that gives up leaves its thread where it is. The pilot asks its second route after
a failure of the first, behind its own first request; speech falls back to Piper. The
model is not loaded once: without preload each thread that looks before there is a worker
makes one and loads it. `LoadsAreOwed` says that this is all: with preload there is one
load, and without it no thread that comes later, no failed load and no restart adds to
those of the threads that came too early. Crashes restart the server, a preload that finds no GPU ends it for good, with exit status 0.

### Screen pilot

One action per call of `guide`, and the commands `point`, `capture`, `move` and `card`. `conf`
is the command, its switches and what `probe` found; every call outside may fail. `Unwind`
is Ctrl-C or an exception nobody catches (`post_json` lets those of `http.client` through,
for example) in any call, and goes through the `finally` clauses of the code. `Nudge` is
the user's hand on the mouse. The histories `found` and `nudged` tell a click at a stale
point from one the user moved away. `point` never removes its screenshot, though
`docs/SCREEN_PILOT.md:18` says that frames are deleted at once; `GuideCleansUp` is
therefore stated of `guide` alone. That `eww kill` and the removals of `shutdown()`
succeed is an assumption: `overlay.py` looks at none of their results, and if one fails
something stays behind that no later step removes.

### Model settings

The env file is a sequence of lines of which the last one of a key wins. `lathe models
set` is three steps, read, truncate, write, and any number of them may run at once, as
root or as `dev`, who cannot read the file, so that its lines count as none, and who writes
it through `sudo tee`. The first-run wizard appends its two lines as one (`Enable`); it
looks at no status, so a failed append is reported as stored too (`EnableFails`). The two
short lines are one write, which is taken to be done or not done as a whole. The kernel syncs
when it likes; a power cut takes back what it has not. A boot picks the heavy model for
its host, and a start of the daemon reads the baked files, that choice and the persisted
file in this order. `saved` holds what was reported as saved until one of the five ways
the code has to lose it: `dev` sets another setting, two writers overlap, one is killed or
fails after the truncation, the power goes before the file is on the disk, or the append
of the wizard fails. `last` holds it until it is set again, which is what the documentation
promises. `lathe models get` reads neither the host's choice nor, as `dev`, the persisted
file, so what it shows may differ from what the daemon runs with.

## Runs

| Run | Instance | Shows |
|---|---|---|
| `hermes_turn` | the voice loop and one `lathe-cloud`, three environments, three classes of request, two turns, one recalled row, three log lines | the safety of a turn, `OnlyRoutedIsSent`, that a spoken turn ends, and the refinement of `CloudConsent` (574464 states) |
| `voice_loop` | 4 frames, 2 activations, audio queue of 2, limits of 2, 2 and 3 frames | queues, recorder, sessions, and that every activation is served |
| `event_log` | 4 events of two pieces, a cap of 2 lines, one restart, two failing writes or trims | order, bound, intact lines, the reader below the cap, and that turns show up (404484 states) |
| `memory_store` | two processes that may be exchanged, 5 ticks, 3 files, a cap of 1 row, one row per search | the bound, what a loss takes, and that a recall strengthens what it read |
| `gpu_server` | the pilot and one more client, 2 starts; a client begins a call only with two requests left, so the pilot makes up to 2, the other client 1 | one inference at a time, how often a model is loaded, and that every call of a client ends |
| `screen_pilot` | two places, two steps, all commands and switches | clicks, narration, what is left behind, and that a run without a terminal ends |
| `model_settings` | two writers, two users, two models, 2 sets, 2 answers, one fault, one boot or restart | what was saved is kept and loaded, but for the five ways to lose it (1691876 states) |
| `declined_stays` | gate on, two spoken turns | **violated**: see below |
| `quarantine_once` | as `memory_store` | **violated** |
| `event_replay` | 4 events of one or two pieces, a cap of 2 | **violated** |
| `publish_raises` | 5 events of two pieces, a cap of 2 | **violated** |
| `models_set` | one writer, no faults | **violated** |

The bounds are small, and large enough for what the properties are about. Two turns
of two callers meet in every order, the second recalls the first and both can be sent.
Four frames overflow a queue of two, end an utterance by silence, by length and by
timeout, and let two activations overlap a session. Four events trim a log of two
lines and tear a line of the pilot in the trim, and the fifth of `publish_raises` is
published over the torn file; two faults let a line be torn by its own append and the
rewrite of what is left fail as well; a restart puts a second inode below a reader that
holds the first. With five ticks a row can
be strengthened, evicted and its id given out again under a search that still holds it;
three files let a second recovery set aside what the first one rebuilt. The requests of the
two clients race to create the worker twice, the second of the pilot queues behind its own
abandoned inference, and all of them meet a restart. Two steps of a plan are enough for one to leave something to the other, and two
places for the pointer to be elsewhere. Two writers interleave at each of their steps with
each other, the wizard and a fault between truncation and write. Deadlock is not
checked: every one of these systems may stop for lack of input, which the bounds cut
off (`MaxTurns`, `MaxFrames`, `MaxFired`, `MaxEvents`, `MaxBoots`, `MaxClock`,
`MaxFiles`, `MaxRequests`, `MaxSets`, `MaxFaults`), or, as the pilot, comes to its end.

### Disagreements between the code and what it says

- `declined_stays`: the gate promises that a turn one does not approve stays on the
  device. It is answered locally, remembered and logged, and its words are part of
  the system prompt of a later turn that is approved.
- `event_replay`: "only show what happens from now on" - a trim that leaves the file
  shorter than the reader's position makes it start over.
- `publish_raises`: a log write is never to take the assistant down, but a log torn by
  a trim and an append is not UTF-8, and `publish` raises on every later call.
- `models_set`: "switching persists" - but for `dev` the file is unreadable, counts as
  empty, and is rewritten with the one new line.

- `quarantine_once`: "Quarantine it ONCE", "Only triggers on real corruption"
  (`memory.py:211`) - but when two processes meet the damage at once, the second sets aside
  the sound database the first has rebuilt, over the damaged one that had been kept.

Four more are part of the models, without a run of their own:

- "we load it once" (`server.py:37` of the vision worker) holds with preload; without it
  two first requests make two workers, and each loads the model.
- "only approve on an explicit yes" (`__main__.py:248`): a refusal such as "no, not the
  cloud" contains an approving word, and `Approves` takes it for consent, as the code does.
- The wizard prints "Cloud enabled. Stored" (`firstrun-wizard.nix:129`) whether or not its
  append to the settings succeeded.
- A turn is to hear nothing buffered before its wake, yet the frame the wake fired in
  arrives in a callback of its own, after the queue was emptied. `FramesAreInOrder` says
  that this one frame is all.

## Fairness

`Hermes` assumes weak fairness of the voice caller's steps only: network calls and
recordings have timeouts and the local processes end. Nobody has to ask anything, and
a terminal prompt may stay unanswered for ever. `VoiceLoop` assumes that the loop runs
what is ready, that the thread posts the frame it captured, that the timer of
`wait_for` fires, and that the processes of a turn end (whisper has no timeout, so this is
an assumption about whisper and not about the code). `EventLog` assumes that the shell's
interval timer fires and that `publish` returns. Nobody has to speak or publish.
`GpuServer` assumes only that a client goes on and that its timeout (`httpjson.py`) expires:
the server may hang anywhere; but that Piper ends is, as with whisper, assumed
(`tts.py:99` runs it without a timeout). `ScreenPilot` assumes that its calls end, since each has a
timeout, but not that the user answers a prompt. `MemoryStore` and `ModelSettings` assume
nothing, and have no liveness.

## Proofs

All theorems hold for every value of the constants that satisfies the assumption named
in the module (`HermesAssumption`, `VoiceAssumption`, `MemoryStoreAssumption`,
`EventLogAssumption`, `GpuServerAssumption`, `ScreenPilotAssumption`,
`ModelSettingsAssumption`), none of which says more than that bounds
are numbers, sizes positive, the null values distinct and, where they are counted
(`MemoryStore`), the processes finitely many.

- `HermesProofs`. `SendIsGranted` and its siblings are not inductive: that the payload
  of the next step was granted must already be known when the turn waits at "send".
  `TurnInv` adds that turn numbers are unique to a caller and not yet used beyond
  `asked` (`TurnsAreOwn`), and that the stage of a turn carries its history
  (`StageIsHonest`: at "send" a granted gate entry or an exempt caller, before it no
  payload; `StageIsRouted`: past the router only what it let through; `AnswersAreOwn`: no
  answer in `wrote` before the turn is past the local engines, from there on the one that
  it carries). `TurnInvariant` proves it action by action; the five properties follow.
- `HermesConsentProofs`. Initial states map to initial states, and each action maps to
  `Open`, `Approve`, `Leave` or `Close` of its turn or to a stutter, by the invariant
  above.
- `VoiceProofs`. Types with the queue bound (which needs that a woken task has something
  to take: `WakeupsAreOwed`), the recorder's limits, that sessions do not overlap,
  that a recording hears nothing older than its start, and that every activation is
  posted, queued or served: `ActsTail` and `ActsAppend` count the activations of a deque
  that is shifted and appended to. `OrderInv` strengthens `FramesAreInOrder`: an activation
  in the deque stands behind every older frame (`DequeInOrder`), and a turn has begun no
  earlier than at the frame before its activation (`HeardInOrder`), from which
  follows what it may hear of the time before its wake.
- `EventLogProofs`. `LogIsBounded` is not inductive while a trim is under way.
  `WriteIsBounded` adds that what the trim has written and what it still holds make up
  the cap, and that behind its offset stand at most the pilot's lines; `Overwritten` is
  what a chunk does to both, `KeepHasTheCap` that the slice of the trim exists and has
  the cap, the existence by the least position after which the cap is not exceeded.
  The order and the wholeness of the lines (`LogIsOrdered`, `DaemonLinesSurvive`) follow
  from `LogInv`: while nobody rewrites it the log is `Sound`, that is in order whatever has
  failed (`Ordered`: each byte in front of the later ones), and `Good` unless a write to it
  failed part-way (the last byte a newline, every line of the daemon whole, its last event
  there unless too old). While the trim rewrites it, what is sound is `Text`, that is what
  the trim has written together with what it still holds, and behind the offset stand
  later lines of the pilot (`TailAfter`). A chunk leaves `Text` as it is (`WriteBackIs`); an
  append, whole or cut, the slice of the trim and the end of the rewrite, complete or not,
  keep a text in order, and the complete ones keep it good (`GoodLine`, `GoodKeep`,
  `GoodJoin`), by `WholeShift`, which says when a line that is whole in one text is whole
  in another. For the reader, `ParsedIs` states what `json.loads` makes of a text (the events
  of its whole lines, all of them, in order if the text is, from the ranks of their
  positions), and `ReadInv` that, before the first trim, a reader that has seen the present
  file stands inside none of its whole lines and was shown those before it (`SkipInv`),
  all of it older than what follows (`OrderInv`). Both need `SeenInv`: the inode a reader
  has seen is that of the log or of one that is gone.
- `MemoryProofs`. `RecoveryIsAlone` is what makes a recovery safe: unless `contended`, one
  process at most is in it and the damage it saw is still at the path. With it
  `FilesAreExplained`, that each file that was made is at the path or damaged, is kept, and
  with `MemoriesAreRows`, which holds file by file, gives `LossIsExplained`. `SharedInv` relates
  the rows to the operations that hold copies of them: each row is of a memory of its
  file, no two share an id or a memory, and no id exceeds the number of memories told to the
  file (`RowsAreTold`); a remember owns its memory (`OwnMemory`); a row that a search has
  read is still the row of its id, unless an id was given out again (`SeenIsKnown`). The
  types and `RecallStrengthensWhatItRead` follow. `StoreIsBounded` is not inductive either, as
  a consolidation deletes what it ranked earlier, from whatever the file was then:
  `BoundedInv` states the bound of what would be left of the file after any set `D` of
  the pending deletions, with the rows each of them answers for, and the property is the
  case of no deletion.
- `GpuProofs`. The types need that a thread has a worker exactly from the fetch to its
  response and that a server that is not up has no threads (`ThreadsAreHonest`); on these
  rest the mutual exclusion and the count of the workers (`WorkersAreOwed`: each was made
  by the preload or by a thread that found none), from which `LoadsAreOwed` follows.
- `PilotProofs`. `LoopInv` says what each call knows: a point belongs to the step it was
  located in (`PointIsOfStep`), a moved pointer is there until nudged (`PointerIsMoved`),
  the step in hand has no click yet (`ClicksAreBehind`). Clicks, narration and cleaning up
  follow; `Leftovers` accounts for the calls that were unwound.
- `SettingsProofs`. That the file has what is saved (`FileKeeps`) needs what a writer
  carries between its read and its write: a writer that did not race is the only one that
  has truncated the file (`WritersAreAlone`), and its text has the settings it does not
  change (`TextsKeep`). `LookupSet` and `LookupAppend` say what `_set_in_lines` and an
  append do to the last line of each key; they rest on `MaxIn`, that a set of positions
  has a largest one, which follows from the well-foundedness of the naturals.

Only model-checked: liveness (`VoiceTurnEnds`, `EveryWakeIsServed`, `TurnsShowUp`, `CallsEnd`,
`AutoGuideEnds`), which is out of the prover's reach. Every other property of the passing
runs is a theorem.

## What could follow

A vault with the pattern of `ModelSettings` and an abstract store both should implement;
the start and the end of the daemon's process together with systemd's restart policy; the
shell's panes, once the rules of the widget library for exclusive workers are at hand.

## Not modelled

Wording, formatting, logging, audio and image data, prompts and ranking scores are left
out of every module. Whole components, or what a module leaves of one, are not modelled
for these reasons:

- **Command executor.** A table of allowed prefixes and one subprocess per command, with
  no state and one order of calls. What could be stated about it, which commands the
  prefixes let through, is about strings.
- **Vault.** A shell script around `age` and `jq` whose state is one encrypted file; its
  hazard, an update that loses another, is the one `ModelSettings` models for `llm.env`.
- **Shell panes.** Textual schedules their exclusive workers, and its rules are not in
  the repository. The part of the shell that reads the event log is in `EventLog`, the
  push-to-talk request in `VoiceLoop`, the list of models in `ModelSettings`.
- **Agent pool.** Stateless between requests; `Hermes` has one action for its answer.
- **Boot scripts.** Markers and env files written in one straight line each; what starts
  them again is systemd's, whose rules are not in the repository.
- **Hardware inventory, decoration, the Cursor command line, installers, launchers, image
  scripts and declarations.** No state that a later step depends on.

`PROJECT.json` lists each component with its status.
