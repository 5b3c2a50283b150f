------------------------------ MODULE GpuServer ------------------------------
(***************************************************************************)
(* A loopback server in front of one large model on the GPU, and its       *)
(* clients.  latheos-vision and latheos-tts are the same server: a thread  *)
(* per request, one global worker that loads its model on first use, and   *)
(* a lock around the inference but not around the creation of the worker.  *)
(*                                                                         *)
(* A client gives up after its timeout; its thread does not hear of that   *)
(* and goes on.  The pilot then asks the other of two routes, everyone     *)
(* else falls back: speech to Piper, vision to a description.  The process *)
(* may die, and is restarted unless it had exited for want of a GPU.       *)
(***************************************************************************)
EXTENDS Naturals, FiniteSets

CONSTANTS
    Client,       \* the clients
    Pilot,        \* those of them that are the screen pilot
    MaxRequests,  \* bound on the requests of a client
    MaxBoots,     \* bound on the starts of the server
    None          \* no request

ASSUME GpuServerAssumption ==
    /\ Pilot \subseteq Client
    /\ MaxRequests \in Nat
    /\ MaxBoots \in Nat \ {0}
    /\ None \notin Client \X Nat

VARIABLES
    serves,   \* which of the two servers this is
    preload,  \* not --no-preload
    server,   \* where serve() is
    boots,    \* number of starts
    worker,   \* _WORKER, 0 for None
    made,     \* number of workers constructed by this process
    loaded,   \* the workers whose _loaded is set
    lock,     \* the request whose thread holds _LOCK, or None
    thread,   \* where the thread of each request is, and the worker it has
    client,   \* where each client is, and its requests so far
    missed    \* history: threads of this process that found no worker

vars == <<serves, preload, server, boots, worker, made, loaded, lock, thread,
          client, missed>>

-----------------------------------------------------------------------------

Request == Client \X (1..MaxRequests)

\* Where a client is: at its first of two routes, before the second, at its last or
\* only one, or running Piper.
ClientState == [pc : {"idle", "first", "again", "last", "piper"}, n : 0..MaxRequests]

\* The request a client is waiting for.
Current(c) == <<c, client[c].n>>

\* Under the lock: inside predict() or synthesize().
Running(r) == thread[r].pc \in {"load", "infer"}

Thread == [pc : {"none", "get", "create", "fetch", "lock", "load", "infer",
                 "send", "done"},
           w : Nat, ok : BOOLEAN]

NoThread == [pc |-> "none", w |-> 0, ok |-> FALSE]

Ended == [NoThread EXCEPT !.pc = "done"]

\* A thread that has its response, and is no more with a worker.
Response(ok) == [pc |-> "send", w |-> 0, ok |-> ok]

Init ==
    /\ serves \in {"vision", "tts"}
    /\ preload \in BOOLEAN
    /\ server = "boot"
    /\ boots = 1
    /\ worker = 0
    /\ made = 0
    /\ loaded = {}
    /\ lock = None
    /\ thread = [r \in Request |-> NoThread]
    /\ client = [c \in Client |-> [pc |-> "idle", n |-> 0]]
    /\ missed = 0

config == <<serves, preload>>
process == <<server, boots>>
gpu == <<worker, made, loaded, missed>>

(***************************************************************************)
(* The server process.                                                     *)
(***************************************************************************)

\* serve() with --no-preload listens at once.
Serve ==
    /\ server = "boot"
    /\ ~preload
    /\ server' = "up"
    /\ UNCHANGED <<config, boots, gpu, lock, thread, client>>

\* With preload the one worker has its model before the socket listens.
Preload ==
    /\ server = "boot"
    /\ preload
    /\ server' = "up"
    /\ worker' = 1 /\ made' = 1 /\ loaded' = {1}
    /\ UNCHANGED <<config, boots, missed, lock, thread, client>>

\* probe() or the loading fails: a clean exit, that nothing restarts.
Unavailable ==
    /\ server = "boot"
    /\ preload
    /\ server' = "gone"
    /\ UNCHANGED <<config, boots, gpu, lock, thread, client>>

\* Faulty: what the dead process had loaded counts as loaded.
CrashKeepsLoaded ==
    /\ server = "up"
    /\ boots < MaxBoots
    /\ server' = "boot"
    /\ boots' = boots + 1
    /\ worker' = 0 /\ made' = 0 /\ missed' = 0
    /\ lock' = None
    /\ thread' = [r \in Request |-> IF thread[r].pc = "none" THEN thread[r] ELSE Ended]
    /\ UNCHANGED <<config, loaded, client>>

\* The process dies in the driver or for memory, and systemd starts it again.
Crash ==
    /\ server = "up"
    /\ boots < MaxBoots
    /\ server' = "boot"
    /\ boots' = boots + 1
    /\ worker' = 0 /\ made' = 0 /\ loaded' = {} /\ missed' = 0
    /\ lock' = None
    /\ thread' = [r \in Request |-> IF thread[r].pc = "none" THEN thread[r] ELSE Ended]
    /\ UNCHANGED <<config, client>>

(***************************************************************************)
(* The thread of a request.                                                *)
(***************************************************************************)

\* do_POST and the endpoint, on the route, the JSON, its fields and the image: a
\* request is good, or the response is an error.
Parsed == {[NoThread EXCEPT !.pc = "get"], Response(FALSE)}

\* Faulty: every request makes a worker.
GetNewWorker(r) ==
    /\ thread[r].pc = "get"
    /\ thread' = [thread EXCEPT ![r].pc = "create"]
    /\ missed' = IF worker = 0 THEN missed + 1 ELSE missed
    /\ UNCHANGED <<config, process, worker, made, loaded, lock, client>>

\* _get_worker: is there one?
GetWorker(r) ==
    /\ thread[r].pc = "get"
    /\ \/ /\ worker = 0
          /\ missed' = missed + 1
          /\ thread' = [thread EXCEPT ![r].pc = "create"]
       \/ /\ worker # 0
          /\ thread' = [thread EXCEPT ![r].pc = "lock", ![r].w = worker]
          /\ UNCHANGED missed
    /\ UNCHANGED <<config, process, worker, made, loaded, lock, client>>

\* _WORKER = LocateAnythingWorker(cfg), over what another thread made meanwhile.
Create(r) ==
    /\ thread[r].pc = "create"
    /\ made' = made + 1
    /\ worker' = made + 1
    /\ thread' = [thread EXCEPT ![r].pc = "fetch"]
    /\ UNCHANGED <<config, process, loaded, missed, lock, client>>

\* return _WORKER.
Fetch(r) ==
    /\ thread[r].pc = "fetch"
    /\ thread' = [thread EXCEPT ![r].pc = "lock", ![r].w = worker]
    /\ UNCHANGED <<config, process, gpu, lock, client>>

\* with _LOCK, and predict() or synthesize() up to the check of _loaded.
Enter(r) ==
    /\ thread[r].pc = "lock"
    /\ lock = None
    /\ lock' = r
    /\ thread' = [thread EXCEPT ![r].pc = IF thread[r].w \in loaded THEN "infer" ELSE "load"]
    /\ UNCHANGED <<config, process, gpu, client>>

\* Faulty: a failure to load keeps the lock.
LoadKeepsLock(r) ==
    /\ thread[r].pc = "load"
    /\ \/ /\ loaded' = loaded \cup {thread[r].w}
          /\ thread' = [thread EXCEPT ![r].pc = "infer"]
       \/ /\ thread' = [thread EXCEPT ![r] = Response(FALSE)]
          /\ UNCHANGED loaded
    /\ UNCHANGED <<config, process, worker, made, missed, lock, client>>

\* load(), once per worker: its model, or a 503 for want of a GPU, of weights, of
\* the stack or of memory.
Load(r) ==
    /\ thread[r].pc = "load"
    /\ \/ /\ loaded' = loaded \cup {thread[r].w}
          /\ thread' = [thread EXCEPT ![r].pc = "infer"]
          /\ UNCHANGED lock
       \/ /\ lock' = None
          /\ thread' = [thread EXCEPT ![r] = Response(FALSE)]
          /\ UNCHANGED loaded
    /\ UNCHANGED <<config, process, worker, made, missed, client>>

LoadLocateAnything(r) == serves = "vision" /\ Load(r)

LoadMiso(r) == serves = "tts" /\ Load(r)

\* The model has an answer, or raises: a 500.
Infer(r) ==
    /\ thread[r].pc = "infer"
    /\ lock' = None
    /\ \E ok \in BOOLEAN : thread' = [thread EXCEPT ![r] = Response(ok)]
    /\ UNCHANGED <<config, process, gpu, client>>

Predict(r) == serves = "vision" /\ Infer(r)

Synthesize(r) == serves = "tts" /\ Infer(r)

(***************************************************************************)
(* The clients: point_at of the pilot asks two routes, everyone else one.  *)
(***************************************************************************)

Waits(c) == client[c].pc \in {"first", "last"}

\* What client c has next after an error: another route, Piper, or the error.
AfterError(c) ==
    [client[c] EXCEPT !.pc = CASE client[c].pc = "first" -> "again"
                               [] serves = "tts"         -> "piper"
                               [] OTHER                  -> "idle"]

\* A POST.  It is refused when nobody listens.
Post(c, pc) ==
    LET r == <<c, client[c].n + 1>>
    IN  /\ client[c].n < MaxRequests
        /\ client' = [client EXCEPT ![c] = [pc |-> pc, n |-> @.n + 1]]
        /\ \E t \in IF server = "up" THEN Parsed ELSE {Ended} :
              thread' = [thread EXCEPT ![r] = t]
        /\ UNCHANGED <<config, process, gpu, lock>>

\* A call is begun only when the bound leaves it both routes.
Begin(c, pc) ==
    /\ client[c].pc = "idle"
    /\ client[c].n + 2 <= MaxRequests
    /\ Post(c, pc)

PointAt(c) == serves = "vision" /\ c \in Pilot /\ Begin(c, "first")

Locate(c) == serves = "vision" /\ c \notin Pilot /\ Begin(c, "last")

Speak(c) == serves = "tts" /\ Begin(c, "last")

\* point_at tries the other endpoint once.
AskAgain(c) ==
    /\ client[c].pc = "again"
    /\ Post(c, "last")

\* _miso or synthesize() has no speech from the server: Piper, whatever comes of it.
Piper(c) ==
    /\ client[c].pc = "piper"
    /\ client' = [client EXCEPT ![c].pc = "idle"]
    /\ UNCHANGED <<config, process, gpu, lock, thread>>

\* The response; a client that gave up has closed the connection, the pipe is broken
\* and the thread over.
Send(r) ==
    LET c == r[1]
    IN  /\ thread[r].pc = "send"
        /\ thread' = [thread EXCEPT ![r] = Ended]
        /\ client' = [client EXCEPT ![c] =
                         IF ~(Waits(c) /\ Current(c) = r) THEN @
                         ELSE IF thread[r].ok
                         THEN [@ EXCEPT !.pc = "idle"]
                         ELSE AfterError(c)]
        /\ UNCHANGED <<config, process, gpu, lock>>

\* Faulty: the call has no timeout.
GiveUpOnlyIfLost(c) ==
    /\ Waits(c)
    /\ thread[Current(c)].pc = "done"
    /\ client' = [client EXCEPT ![c] = AfterError(c)]
    /\ UNCHANGED <<config, process, gpu, lock, thread>>

\* The timeout of the call, a connection refused, or one lost with the process.
GiveUp(c) ==
    /\ Waits(c)
    /\ client' = [client EXCEPT ![c] = AfterError(c)]
    /\ UNCHANGED <<config, process, gpu, lock, thread>>

Handle(r) ==
    \/ GetWorker(r) \/ Create(r) \/ Fetch(r)
    \/ Enter(r) \/ LoadLocateAnything(r) \/ LoadMiso(r)
    \/ Predict(r) \/ Synthesize(r) \/ Send(r)

Continue(c) == AskAgain(c) \/ Piper(c) \/ GiveUp(c)

Next ==
    \/ Serve \/ Preload \/ Unavailable \/ Crash
    \/ \E r \in Request : Handle(r)
    \/ \E c \in Client : PointAt(c) \/ Locate(c) \/ Speak(c) \/ Continue(c)

\* A client goes on and its timeout expires; the server may take forever.  Piper is a
\* process that ends: tts.py 99 waits for it without a timeout.
Fairness == \A c \in Client : WF_vars(Continue(c))

Spec     == Init /\ [][Next]_vars
FairSpec == Spec /\ Fairness

-----------------------------------------------------------------------------

\* Every variable has its type, and a worker is known to be loaded only if it exists.
TypeOK ==
    /\ serves \in {"vision", "tts"} /\ preload \in BOOLEAN
    /\ server \in {"boot", "up", "gone"}
    /\ boots \in 1..MaxBoots
    /\ made \in Nat /\ worker \in 0..made /\ loaded \subseteq 1..made
    /\ lock \in Request \cup {None}
    /\ thread \in [Request -> Thread]
    /\ \A r \in Request : thread[r].w \in 0..made
    /\ client \in [Client -> ClientState]
    /\ missed \in Nat

\* server.py 38: "serialise inference so two requests never trample one CUDA stream".
\* One thread at most is inside the model, whichever worker it has; whoever is holds
\* the lock, and whoever leaves, by whatever error, has let it go.
OneInferenceAtATime ==
    \A r \in Request : Running(r) <=> lock = r

\* How often the large model is loaded, into workers of which all but the last made
\* are garbage once their threads end.  With preload once, whatever the requests do.
\* Without, not "once" as server.py 37 has it: every thread that looks before there is
\* a worker makes one and loads it, but no thread that comes later, no failed load
\* that is tried again and no restart adds a load to these.
LoadsAreOwed ==
    /\ preload => Cardinality(loaded) <= 1
    /\ ~preload => Cardinality(loaded) <= missed

\* A server that hangs, inside the model or before it, does not hang its clients:
\* each call ends, in an answer, an error or the voice of Piper.
CallsEnd ==
    \A c \in Client : client[c].pc # "idle" ~> client[c].pc = "idle"
=============================================================================
