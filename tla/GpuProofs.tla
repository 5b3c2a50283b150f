------------------------------ MODULE GpuProofs ------------------------------
(***************************************************************************)
(* Proofs about GpuServer for every number of clients, of requests and of  *)
(* starts of the server.                                                   *)
(***************************************************************************)
EXTENDS GpuServer, FiniteSetTheorems, TLAPS

\* The requests whose thread found no worker and has not made one yet.
Creators == {r \in Request : thread[r].pc = "create"}

\* A thread has a worker exactly from the fetch to its response; it fetches one only
\* when there is one; a server that is not up has no threads; a request a client has
\* not come to has none.
ThreadsAreHonest ==
    /\ \A r \in Request :
          /\ thread[r].pc \in {"lock", "load", "infer"} <=> thread[r].w # 0
          /\ thread[r].pc = "fetch" => worker # 0
          /\ server # "up" => thread[r].pc \in {"none", "done"}
          /\ r[2] > client[r[1]].n => thread[r].pc = "none"
    /\ server = "boot" => made = 0 /\ loaded = {} /\ missed = 0

\* Each worker was made by the preload or by a thread that found none.
WorkersAreOwed ==
    /\ IsFiniteSet(Creators)
    /\ preload /\ server = "up" => made = 1 /\ worker = 1 /\ Creators = {}
    /\ preload /\ server # "up" => made = 0
    /\ ~preload => made + Cardinality(Creators) = missed

Invariant == TypeOK /\ ThreadsAreHonest /\ OneInferenceAtATime /\ WorkersAreOwed

-----------------------------------------------------------------------------

\* Handle is enabled only for a thread that is in its middle.
LEMMA RequestParts ==
    ASSUME NEW r \in Request
    PROVE  r[1] \in Client /\ r[2] \in 1..MaxRequests /\ r = <<r[1], r[2]>> /\ r # None
BY GpuServerAssumption DEF Request

\* What the record of a thread is after one of its fields was set.
LEMMA ThreadTypes ==
    /\ NoThread \in Thread /\ Ended \in Thread /\ Response(FALSE) \in Thread
    /\ Response(FALSE).pc = "send" /\ Response(FALSE).w = 0
    /\ NoThread.pc = "none" /\ NoThread.w = 0 /\ Ended.pc = "done" /\ Ended.w = 0
    /\ \A ok \in BOOLEAN : Response(ok).pc = "send" /\ Response(ok).w = 0
                           /\ Response(ok) \in Thread
    /\ \A t \in Parsed : t \in Thread /\ t.pc \in {"get", "send"} /\ t.w = 0
<1>1. NoThread \in Thread /\ NoThread.pc = "none" /\ NoThread.w = 0
  BY DEF NoThread, Thread
<1>2. Ended \in Thread /\ Ended.pc = "done" /\ Ended.w = 0
  BY DEF Ended, NoThread, Thread
<1>3. \A ok \in BOOLEAN : Response(ok) \in Thread /\ Response(ok).pc = "send"
                           /\ Response(ok).w = 0
  BY DEF Response, Thread
<1>4. ASSUME NEW t \in Parsed PROVE t \in Thread /\ t.pc \in {"get", "send"} /\ t.w = 0
  <2>1. CASE t = [NoThread EXCEPT !.pc = "get"]
    BY <2>1 DEF NoThread, Thread
  <2>2. CASE t = Response(FALSE)
    BY <2>2, <1>3
  <2> QED BY <1>4, <2>1, <2>2 DEF Parsed
<1> QED BY <1>1, <1>2, <1>3, <1>4

\* What a client does next is its own request still.
LEMMA AfterErrorType ==
    ASSUME TypeOK, NEW c \in Client
    PROVE  AfterError(c) \in ClientState /\ AfterError(c).n = client[c].n
<1>1. client[c] \in ClientState
  BY DEF TypeOK
<1>2. PICK pc \in {"again", "piper", "idle"} : AfterError(c) = [client[c] EXCEPT !.pc = pc]
  BY DEF AfterError
<1> QED BY <1>1, <1>2 DEF ClientState

\* The types and what goes with them are kept by the steps of the server process.
LEMMA ProcessStep ==
    ASSUME TypeOK, ThreadsAreHonest, Serve \/ Preload \/ Unavailable \/ Crash
    PROVE  TypeOK' /\ ThreadsAreHonest'
<1> USE DEF TypeOK, ThreadsAreHonest, config, process, gpu
<1>1. CASE Serve
  BY <1>1 DEF Serve
<1>2. CASE Preload
  BY <1>2 DEF Preload
<1>3. CASE Unavailable
  BY <1>3 DEF Unavailable
<1>4. CASE Crash
  <2>1. thread' \in [Request -> Thread]
    BY <1>4, ThreadTypes DEF Crash
  <2>2. \A r \in Request : thread'[r].w = 0 /\ thread'[r].pc \in {"none", "done"}
        /\ (thread[r].pc = "none" => thread'[r].pc = "none")
    BY <1>4, ThreadTypes DEF Crash
  <2> QED BY <1>4, <2>1, <2>2, GpuServerAssumption DEF Crash
<1> QED BY <1>1, <1>2, <1>3, <1>4

\* The thread of r goes on as t, and what it needs to has been made.
GoesOn(r, t) ==
    /\ t \in Thread
    /\ thread' = [thread EXCEPT ![r] = t]
    /\ server' = server
    /\ t.pc \in {"lock", "load", "infer"} <=> t.w # 0
    /\ t.pc = "fetch" => worker' # 0
    /\ worker # 0 => worker' # 0
    /\ made' \in Nat /\ made <= made' /\ t.w \in 0..made'
    /\ \A c \in Client : client'[c].n = client[c].n

ThreadsKeep ==
    /\ thread' \in [Request -> Thread]
    /\ \A q \in Request : thread'[q].w \in 0..made'
    /\ ThreadsAreHonest'

\* They are kept when a thread goes on.
LEMMA MoveThread ==
    ASSUME TypeOK, ThreadsAreHonest, NEW r \in Request, NEW t, GoesOn(r, t),
           thread[r].pc \notin {"none", "done"}
    PROVE  ThreadsKeep
<1> USE RequestParts DEF TypeOK, ThreadsAreHonest, GoesOn
<1>1. thread' \in [Request -> Thread]
  OBVIOUS
<1>2. ASSUME NEW q \in Request PROVE thread'[q].w \in 0..made'
  <2>1. thread[q].w \in 0..made
    OBVIOUS
  <2>2. CASE q = r
    BY <2>2
  <2>3. CASE q # r
    BY <2>1, <2>3
  <2> QED BY <2>2, <2>3
<1>3. ASSUME NEW q \in Request
      PROVE  /\ thread'[q].pc \in {"lock", "load", "infer"} <=> thread'[q].w # 0
             /\ thread'[q].pc = "fetch" => worker' # 0
             /\ q[2] > client'[q[1]].n => thread'[q].pc = "none"
  <2>1. CASE q = r
    <3>1. ~(r[2] > client[r[1]].n)
      OBVIOUS
    <3> QED BY <2>1, <3>1
  <2>2. CASE q # r
    BY <2>2
  <2> QED BY <2>1, <2>2
<1> QED BY <1>1, <1>2, <1>3 DEF ThreadsKeep

\* The thread of r somewhere else, and with the worker there is.
At(r, pc) == [thread[r] EXCEPT !.pc = pc]

Fetched(r) == [thread[r] EXCEPT !.pc = "lock", !.w = worker]

LEMMA AtType ==
    ASSUME TypeOK, NEW r \in Request,
           NEW pc \in {"none", "get", "create", "fetch", "lock", "load", "infer", "send", "done"}
    PROVE  At(r, pc) \in Thread /\ At(r, pc).pc = pc /\ At(r, pc).w = thread[r].w
<1>1. thread[r] \in Thread
  BY DEF TypeOK
<1> QED BY <1>1 DEF At, Thread

LEMMA FetchedType ==
    ASSUME TypeOK, NEW r \in Request
    PROVE  Fetched(r) \in Thread /\ Fetched(r).pc = "lock" /\ Fetched(r).w = worker
<1>1. thread[r] \in Thread /\ worker \in Nat
  BY DEF TypeOK
<1> QED BY <1>1 DEF Fetched, Thread

\* They are kept by the steps of a thread.
LEMMA ThreadStep ==
    ASSUME TypeOK, ThreadsAreHonest, NEW r \in Request, Handle(r)
    PROVE  TypeOK' /\ ThreadsAreHonest'
<1> USE DEF config, process, gpu
<1>1. thread[r].pc \notin {"none", "done"}
  BY DEF Handle, GetWorker, Create, Fetch, Enter, LoadLocateAnything, LoadMiso, Load,
         Predict, Synthesize, Infer, Send
<1>2. /\ thread[r].pc \in {"lock", "load", "infer"} <=> thread[r].w # 0
      /\ thread[r].pc = "fetch" => worker # 0
      /\ thread[r].w \in 0..made
  BY DEF TypeOK, ThreadsAreHonest
<1>3. made \in Nat /\ worker \in 0..made /\ loaded \subseteq 1..made
      /\ lock \in Request \cup {None} /\ missed \in Nat
      /\ client \in [Client -> ClientState]
  BY DEF TypeOK
<1>4. CASE GetWorker(r)
  <2>1. /\ \/ thread' = [thread EXCEPT ![r] = At(r, "create")]
           \/ worker # 0 /\ thread' = [thread EXCEPT ![r] = Fetched(r)]
        /\ thread[r].pc = "get"
        /\ missed' \in {missed, missed + 1}
        /\ UNCHANGED <<config, process, worker, made, loaded, lock, client>>
    BY <1>4 DEF GetWorker, At, Fetched
  <2>2. ThreadsKeep
    <3>1. CASE thread' = [thread EXCEPT ![r] = At(r, "create")]
      <4>1. GoesOn(r, At(r, "create"))
        BY <1>2, <1>3, <2>1, <3>1, AtType DEF GoesOn
      <4> QED BY <1>1, <4>1, MoveThread
    <3>2. CASE worker # 0 /\ thread' = [thread EXCEPT ![r] = Fetched(r)]
      <4>1. GoesOn(r, Fetched(r))
        BY <1>2, <1>3, <2>1, <3>2, FetchedType DEF GoesOn
      <4> QED BY <1>1, <4>1, MoveThread
    <3> QED BY <2>1, <3>1, <3>2
  <2> QED BY <1>3, <2>1, <2>2 DEF ThreadsKeep, TypeOK
<1>5. CASE Create(r)
  <2>1. /\ thread' = [thread EXCEPT ![r] = At(r, "fetch")]
        /\ thread[r].pc = "create" /\ made' = made + 1 /\ worker' = made + 1
        /\ UNCHANGED <<config, process, loaded, missed, lock, client>>
    BY <1>5 DEF Create, At
  <2>2. GoesOn(r, At(r, "fetch"))
    BY <1>2, <1>3, <2>1, AtType DEF GoesOn
  <2> QED BY <1>1, <1>3, <2>1, <2>2, MoveThread DEF ThreadsKeep, TypeOK
<1>6. CASE Fetch(r)
  <2>1. /\ thread' = [thread EXCEPT ![r] = Fetched(r)]
        /\ thread[r].pc = "fetch"
        /\ UNCHANGED <<config, process, gpu, lock, client>>
    BY <1>6 DEF Fetch, Fetched
  <2>2. GoesOn(r, Fetched(r))
    BY <1>2, <1>3, <2>1, FetchedType DEF GoesOn
  <2> QED BY <1>1, <2>1, <2>2, MoveThread DEF ThreadsKeep, TypeOK
<1>7. CASE Enter(r)
  <2>1. PICK at \in {"load", "infer"} :
           /\ thread' = [thread EXCEPT ![r] = At(r, at)]
           /\ thread[r].pc = "lock" /\ lock' = r
           /\ UNCHANGED <<config, process, gpu, client>>
    BY <1>7 DEF Enter, At
  <2>2. GoesOn(r, At(r, at))
    BY <1>2, <1>3, <2>1, AtType DEF GoesOn
  <2> QED BY <1>1, <2>1, <2>2, MoveThread DEF ThreadsKeep, TypeOK
<1>8. CASE Load(r)
  <2>1. \/ thread' = [thread EXCEPT ![r] = At(r, "infer")]
        \/ thread' = [thread EXCEPT ![r] = Response(FALSE)]
    BY <1>8 DEF Load, At
  <2>2. /\ thread[r].pc = "load"
        /\ loaded' \in {loaded, loaded \cup {thread[r].w}} /\ lock' \in {lock, None}
        /\ UNCHANGED <<config, process, worker, made, missed, client>>
    BY <1>8 DEF Load, At
  <2>3. ThreadsKeep
    <3>1. CASE thread' = [thread EXCEPT ![r] = At(r, "infer")]
      <4>1. GoesOn(r, At(r, "infer"))
        BY <1>2, <1>3, <2>2, <3>1, AtType DEF GoesOn
      <4> QED BY <1>1, <4>1, MoveThread
    <3>2. CASE thread' = [thread EXCEPT ![r] = Response(FALSE)]
      <4>1. PICK answer \in BOOLEAN : thread' = [thread EXCEPT ![r] = Response(answer)]
        BY <3>2
      <4>2. GoesOn(r, Response(answer))
        BY <1>3, <2>2, <4>1, ThreadTypes DEF GoesOn
      <4> QED BY <1>1, <4>2, MoveThread
    <3> QED BY <2>1, <3>1, <3>2
  <2>4. loaded' \subseteq 1..made /\ lock' \in Request \cup {None}
    BY <1>2, <1>3, <2>2
  <2> QED BY <2>2, <2>3, <2>4 DEF ThreadsKeep, TypeOK
<1>9. CASE Infer(r)
  <2>1. PICK answer \in BOOLEAN :
           /\ thread' = [thread EXCEPT ![r] = Response(answer)]
           /\ lock' = None /\ UNCHANGED <<config, process, gpu, client>>
    BY <1>9 DEF Infer
  <2>2. GoesOn(r, Response(answer))
    BY <1>3, <2>1, ThreadTypes DEF GoesOn
  <2> QED BY <1>1, <2>1, <2>2, MoveThread DEF ThreadsKeep, TypeOK
<1>10. CASE Send(r)
  <2>1. /\ thread' = [thread EXCEPT ![r] = Ended]
        /\ UNCHANGED <<config, process, gpu, lock>>
        /\ \E s \in {client[r[1]], [client[r[1]] EXCEPT !.pc = "idle"], AfterError(r[1])} :
              client' = [client EXCEPT ![r[1]] = s]
    BY <1>10 DEF Send
  <2>2. PICK s \in ClientState :
           s.n = client[r[1]].n /\ client' = [client EXCEPT ![r[1]] = s]
    <3>1. client[r[1]] \in ClientState /\ r[1] \in Client
      BY <1>3, RequestParts
    <3>2. [client[r[1]] EXCEPT !.pc = "idle"] \in ClientState
          /\ [client[r[1]] EXCEPT !.pc = "idle"].n = client[r[1]].n
      BY <3>1 DEF ClientState
    <3> QED BY <2>1, <3>1, <3>2, AfterErrorType
  <2>3. /\ client' \in [Client -> ClientState]
        /\ \A c \in Client : client'[c].n = client[c].n
    BY <1>3, <2>2
  <2>4. GoesOn(r, Ended)
    BY <1>3, <2>1, <2>3, ThreadTypes DEF GoesOn
  <2> QED BY <1>1, <2>1, <2>3, <2>4, MoveThread DEF ThreadsKeep, TypeOK
<1> QED BY <1>4, <1>5, <1>6, <1>7, <1>8, <1>9, <1>10
        DEF Handle, LoadLocateAnything, LoadMiso, Predict, Synthesize

\* They are kept by a POST: the thread it starts is fresh, and there is none unless
\* the server is up.
LEMMA PostStep ==
    ASSUME TypeOK, ThreadsAreHonest, NEW c \in Client, NEW pc \in {"first", "last"},
           Post(c, pc)
    PROVE  TypeOK' /\ ThreadsAreHonest'
<1> USE ThreadTypes, RequestParts DEF TypeOK, ThreadsAreHonest, config, process, gpu
<1> DEFINE r == <<c, client[c].n + 1>>
<1>1. r \in Request /\ thread[r].pc = "none" /\ r[1] = c /\ r[2] = client[c].n + 1
  BY GpuServerAssumption DEF Post, Request, ClientState
<1>2. thread'[r] \in Thread /\ thread' = [thread EXCEPT ![r] = thread'[r]]
      /\ thread'[r].pc \in {"get", "send", "done"} /\ thread'[r].w = 0
      /\ (server # "up" => thread'[r].pc = "done")
  BY <1>1 DEF Post
<1>3. client' \in [Client -> ClientState] /\ client'[c].n = client[c].n + 1
      /\ \A d \in Client \ {c} : client'[d] = client[d]
  BY GpuServerAssumption DEF Post, ClientState
<1> HIDE DEF r
<1>4. ThreadsAreHonest'
  BY <1>1, <1>2, <1>3 DEF Post, ClientState
<1> QED BY <1>1, <1>2, <1>3, <1>4 DEF Post

\* They are kept by what a client does without asking.
LEMMA ClientStep ==
    ASSUME TypeOK, ThreadsAreHonest, NEW c \in Client, Piper(c) \/ GiveUp(c)
    PROVE  TypeOK' /\ ThreadsAreHonest'
<1> USE DEF config, process, gpu
<1> DEFINE s == client'[c]
<1>1. s \in ClientState /\ s.n = client[c].n /\ client' = [client EXCEPT ![c] = s]
  BY AfterErrorType DEF Piper, GiveUp, ClientState, TypeOK
<1> HIDE DEF s
<1>2. client' \in [Client -> ClientState] /\ \A d \in Client : client'[d].n = client[d].n
  BY <1>1 DEF TypeOK
<1>3. \A r \in Request : client'[r[1]].n = client[r[1]].n
  BY <1>2, RequestParts
<1> QED BY <1>2, <1>3 DEF Piper, GiveUp, TypeOK, ThreadsAreHonest

\* Every step of a client that is not a POST is one of these two.
LEMMA ClientCases ==
    ASSUME NEW c \in Client, PointAt(c) \/ Locate(c) \/ Speak(c) \/ Continue(c)
    PROVE  Piper(c) \/ GiveUp(c) \/ \E pc \in {"first", "last"} : Post(c, pc)
BY DEF PointAt, Locate, Speak, Begin, Continue, AskAgain

\* The types and what goes with them are kept by every step.
LEMMA TypeStep ==
    ASSUME TypeOK, ThreadsAreHonest, [Next]_vars
    PROVE  TypeOK' /\ ThreadsAreHonest'
<1>1. CASE Serve \/ Preload \/ Unavailable \/ Crash
  BY <1>1, ProcessStep
<1>2. ASSUME NEW r \in Request, Handle(r) PROVE TypeOK' /\ ThreadsAreHonest'
  BY <1>2, ThreadStep
<1>3. ASSUME NEW c \in Client, PointAt(c) \/ Locate(c) \/ Speak(c) \/ Continue(c)
      PROVE  TypeOK' /\ ThreadsAreHonest'
  BY <1>3, ClientCases, ClientStep, PostStep
<1>4. CASE UNCHANGED vars
  BY <1>4 DEF vars, TypeOK, ThreadsAreHonest
<1> QED BY <1>1, <1>2, <1>3, <1>4 DEF Next

\* Whoever enters the model finds the lock free and takes it, and whoever leaves it,
\* by its answer, its error or the death of the process, leaves it free.
LEMMA ExclusionStep ==
    ASSUME TypeOK, ThreadsAreHonest, OneInferenceAtATime, [Next]_vars
    PROVE  OneInferenceAtATime'
<1> USE RequestParts, ThreadTypes DEF OneInferenceAtATime, Running, config, process, gpu
<1>1. thread \in [Request -> Thread]
  BY DEF TypeOK
<1>2. CASE Serve \/ Preload \/ Unavailable
  BY <1>2 DEF Serve, Preload, Unavailable
<1>3. CASE Crash
  <2>1. \A r \in Request : thread'[r].pc \in {"none", "done"}
    BY <1>3 DEF Crash
  <2> QED BY <1>3, <2>1 DEF Crash
<1>4. ASSUME NEW r \in Request, Handle(r) PROVE OneInferenceAtATime'
  <2>1. CASE GetWorker(r) \/ Create(r) \/ Fetch(r) \/ Send(r)
    <3>1. /\ lock' = lock /\ ~Running(r) /\ thread'[r].pc \notin {"load", "infer"}
          /\ \A q \in Request \ {r} : thread'[q] = thread[q]
      BY <1>1, <2>1 DEF GetWorker, Create, Fetch, Send, Thread
    <3> QED BY <3>1
  <2>2. CASE Enter(r)
    <3>1. /\ lock = None /\ lock' = r /\ thread'[r].pc \in {"load", "infer"}
          /\ \A q \in Request \ {r} : thread'[q] = thread[q]
      BY <1>1, <2>2 DEF Enter, Thread
    <3> QED BY <3>1
  <2>3. CASE Load(r)
    <3>1. /\ lock = r
          /\ \/ lock' = lock /\ thread'[r].pc = "infer"
             \/ lock' = None /\ thread'[r].pc = "send"
          /\ \A q \in Request \ {r} : thread'[q] = thread[q]
      BY <1>1, <2>3 DEF Load, Thread, Response
    <3> QED BY <3>1
  <2>4. CASE Infer(r)
    <3>1. /\ lock = r /\ lock' = None /\ thread'[r].pc = "send"
          /\ \A q \in Request \ {r} : thread'[q] = thread[q]
      BY <1>1, <2>4 DEF Infer, Thread
    <3> QED BY <3>1
  <2> QED BY <1>4, <2>1, <2>2, <2>3, <2>4
          DEF Handle, LoadLocateAnything, LoadMiso, Predict, Synthesize
<1>5. ASSUME NEW c \in Client, NEW pc \in {"first", "last"}, Post(c, pc)
      PROVE  OneInferenceAtATime'
  <2> DEFINE r == <<c, client[c].n + 1>>
  <2>1. r \in Request /\ thread[r].pc = "none"
    BY <1>5, GpuServerAssumption DEF Post, Request, ClientState, TypeOK, ThreadsAreHonest
  <2>2. PICK t \in Parsed \cup {Ended} : thread' = [thread EXCEPT ![r] = t] /\ lock' = lock
    <3>1. CASE server = "up"
      BY <1>5, <3>1 DEF Post
    <3>2. CASE server # "up"
      BY <1>5, <3>2 DEF Post
    <3> QED BY <3>1, <3>2
  <2>3. t.pc \in {"get", "send", "done"}
    BY <2>2
  <2> HIDE DEF r
  <2>4. thread'[r].pc \in {"get", "send", "done"} /\ lock' = lock
        /\ \A q \in Request \ {r} : thread'[q] = thread[q]
    BY <1>1, <2>1, <2>2, <2>3
  <2> QED BY <2>1, <2>4
<1>6. ASSUME NEW c \in Client, Piper(c) \/ GiveUp(c) PROVE OneInferenceAtATime'
  BY <1>6 DEF Piper, GiveUp
<1>7. CASE UNCHANGED vars
  BY <1>7 DEF vars
<1> QED BY <1>2, <1>3, <1>4, <1>5, <1>6, <1>7, ClientCases DEF Next

\* A worker is made for each thread that found none, and with preload none does.
LEMMA WorkersStep ==
    ASSUME TypeOK, ThreadsAreHonest, WorkersAreOwed, [Next]_vars
    PROVE  WorkersAreOwed'
<1> USE DEF config, process, gpu
<1>1. thread \in [Request -> Thread] /\ made \in Nat /\ missed \in Nat
      /\ server \in {"boot", "up", "gone"} /\ worker \in Nat /\ preload \in BOOLEAN
  BY DEF TypeOK
<1>2. Cardinality(Creators) \in Nat
  BY FS_CardinalityType DEF WorkersAreOwed
<1>3. Cardinality({}) = 0 /\ IsFiniteSet({})
  BY FS_EmptySet
<1>4. server # "up" => Creators = {}
  BY DEF ThreadsAreHonest, Creators
<1>5. ASSUME UNCHANGED <<preload, server, made, worker, missed>>, Creators' = Creators
      PROVE  WorkersAreOwed'
  BY <1>5 DEF WorkersAreOwed
<1>6. CASE Serve \/ Preload \/ Unavailable
  <2>1. Creators' = Creators /\ Creators = {} /\ made = 0 /\ missed = 0
    BY <1>4, <1>6 DEF Serve, Preload, Unavailable, Creators, ThreadsAreHonest
  <2> QED BY <1>1, <1>3, <1>6, <2>1 DEF Serve, Preload, Unavailable, WorkersAreOwed
<1>7. CASE Crash
  <2>1. \A r \in Request : thread'[r].pc \in {"none", "done"}
    BY <1>7, ThreadTypes DEF Crash
  <2>2. Creators' = {}
    BY <2>1 DEF Creators
  <2> QED BY <1>1, <1>3, <1>7, <2>2 DEF Crash, WorkersAreOwed
<1>8. ASSUME NEW r \in Request, Handle(r) PROVE WorkersAreOwed'
  <2>1. server = "up"
    BY <1>8 DEF Handle, GetWorker, Create, Fetch, Enter, LoadLocateAnything, LoadMiso,
                Load, Predict, Synthesize, Infer, Send, ThreadsAreHonest
  <2>2. CASE GetWorker(r) /\ worker = 0
    <3>1. missed' = missed + 1 /\ thread[r].pc = "get" /\ thread'[r].pc = "create"
          /\ \A q \in Request \ {r} : thread'[q] = thread[q]
      BY <1>1, <2>2 DEF GetWorker, Thread
    <3>2. Creators' = Creators \cup {r} /\ r \notin Creators
      BY <3>1 DEF Creators
    <3>3. IsFiniteSet(Creators') /\ Cardinality(Creators') = Cardinality(Creators) + 1
      BY <3>2, FS_AddElement DEF WorkersAreOwed
    <3>4. ~preload
      BY <2>1, <2>2 DEF WorkersAreOwed
    <3> QED BY <1>1, <1>2, <2>2, <3>1, <3>3, <3>4 DEF GetWorker, WorkersAreOwed
  <2>3. CASE Create(r)
    <3>1. made' = made + 1 /\ thread[r].pc = "create" /\ thread'[r].pc = "fetch"
          /\ \A q \in Request \ {r} : thread'[q] = thread[q]
      BY <1>1, <2>3 DEF Create, Thread
    <3>2. Creators' = Creators \ {r} /\ r \in Creators
      BY <3>1 DEF Creators
    <3>3. IsFiniteSet(Creators') /\ Cardinality(Creators') = Cardinality(Creators) - 1
      BY <3>2, FS_RemoveElement DEF WorkersAreOwed
    <3>4. ~preload
      BY <2>1, <3>2 DEF WorkersAreOwed
    <3> QED BY <1>1, <1>2, <2>3, <3>1, <3>3, <3>4 DEF Create, WorkersAreOwed
  <2>4. CASE (GetWorker(r) /\ worker # 0) \/ Fetch(r) \/ Enter(r) \/ Load(r) \/ Infer(r) \/ Send(r)
    <3>1. /\ UNCHANGED <<preload, server, made, worker, missed>>
          /\ thread[r].pc # "create" /\ thread'[r].pc # "create"
          /\ \A q \in Request \ {r} : thread'[q] = thread[q]
      <4>1. CASE GetWorker(r) /\ worker # 0
        BY <1>1, <4>1 DEF GetWorker, Thread
      <4>2. CASE Fetch(r)
        BY <1>1, <4>2 DEF Fetch, Thread
      <4>3. CASE Enter(r)
        BY <1>1, <4>3 DEF Enter, Thread
      <4>4. CASE Load(r)
        BY <1>1, <4>4 DEF Load, Thread, Response
      <4>5. CASE Infer(r)
        BY <1>1, <4>5, ThreadTypes DEF Infer, Thread
      <4>6. CASE Send(r)
        BY <1>1, <4>6, ThreadTypes DEF Send, Thread
      <4> QED BY <2>4, <4>1, <4>2, <4>3, <4>4, <4>5, <4>6
    <3>2. Creators' = Creators
      BY <3>1 DEF Creators
    <3> QED BY <1>5, <3>1, <3>2
  <2> QED BY <1>8, <2>2, <2>3, <2>4
          DEF Handle, LoadLocateAnything, LoadMiso, Predict, Synthesize
<1>9. ASSUME NEW c \in Client, NEW pc \in {"first", "last"}, Post(c, pc)
      PROVE  WorkersAreOwed'
  <2> DEFINE r == <<c, client[c].n + 1>>
  <2>1. r \in Request /\ thread[r].pc = "none"
    BY <1>9, GpuServerAssumption, RequestParts
    DEF Post, Request, ClientState, TypeOK, ThreadsAreHonest
  <2>2. PICK t \in Parsed \cup {Ended} : thread' = [thread EXCEPT ![r] = t]
    <3>1. CASE server = "up"
      BY <1>9, <3>1 DEF Post
    <3>2. CASE server # "up"
      BY <1>9, <3>2 DEF Post
    <3> QED BY <3>1, <3>2
  <2>3. t.pc # "create"
    BY <2>2, ThreadTypes
  <2> HIDE DEF r
  <2>4. Creators' = Creators
    BY <1>1, <2>1, <2>2, <2>3 DEF Creators
  <2> QED BY <1>5, <1>9, <2>4 DEF Post
<1>10. ASSUME NEW c \in Client, Piper(c) \/ GiveUp(c) PROVE WorkersAreOwed'
  <2>1. Creators' = Creators
    BY <1>10 DEF Piper, GiveUp, Creators
  <2> QED BY <1>5, <1>10, <2>1 DEF Piper, GiveUp
<1>11. CASE UNCHANGED vars
  <2>1. Creators' = Creators
    BY <1>11 DEF vars, Creators
  <2> QED BY <1>5, <1>11, <2>1 DEF vars
<1> QED BY <1>6, <1>7, <1>8, <1>9, <1>10, <1>11, ClientCases DEF Next

-----------------------------------------------------------------------------

\* The server starts without threads, without a worker, and with a free lock.
LEMMA InitInvariant == Init => Invariant
<1> SUFFICES ASSUME Init PROVE Invariant
  OBVIOUS
<1> USE DEF Init
<1>1. \A r \in Request : thread[r] = NoThread
  OBVIOUS
<1>2. TypeOK
  BY ThreadTypes, GpuServerAssumption DEF TypeOK, ClientState
<1>3. ThreadsAreHonest
  BY <1>1, ThreadTypes DEF ThreadsAreHonest
<1>4. OneInferenceAtATime
  BY <1>1, ThreadTypes, RequestParts DEF OneInferenceAtATime, Running
<1>5. WorkersAreOwed
  <2>1. Creators = {}
    BY <1>1, ThreadTypes DEF Creators
  <2> QED BY <2>1, FS_EmptySet DEF WorkersAreOwed
<1> QED BY <1>2, <1>3, <1>4, <1>5 DEF Invariant

\* The types, the owners of the workers and the exclusion hold together, for every
\* number of clients, requests and starts of server.py.
THEOREM ServerInvariant == Spec => []Invariant
<1>1. Invariant /\ [Next]_vars => Invariant'
  BY TypeStep, ExclusionStep, WorkersStep DEF Invariant
<1> QED BY InitInvariant, <1>1, PTL DEF Spec

\* No step of the server or of a client takes a variable out of its type.
THEOREM TypeCorrect == Spec => []TypeOK
<1>1. Invariant => TypeOK
  BY DEF Invariant
<1> QED BY ServerInvariant, <1>1, PTL

\* However many threads race, one at most is inside the model, and it is the one that
\* has the lock of server.py 39; no error leaves the lock taken.
THEOREM Exclusion == Spec => []OneInferenceAtATime
<1>1. Invariant => OneInferenceAtATime
  BY DEF Invariant
<1> QED BY ServerInvariant, <1>1, PTL

\* However many first requests race past _get_worker, with preload there is one loaded
\* model, and without no more than threads that came before there was a worker.
THEOREM LoadsAreOwedHolds == Spec => []LoadsAreOwed
<1>1. ASSUME Invariant PROVE LoadsAreOwed
  <2>1. made \in Nat /\ missed \in Nat /\ loaded \subseteq 1..made
        /\ server \in {"boot", "up", "gone"} /\ preload \in BOOLEAN
    BY <1>1 DEF Invariant, TypeOK
  <2>2. IsFiniteSet(1..made) /\ Cardinality(1..made) = made
    BY <2>1, FS_Interval
  <2>3. Cardinality(loaded) \in Nat /\ Cardinality(loaded) <= made
    BY <2>1, <2>2, FS_Subset, FS_CardinalityType
  <2>4. Cardinality(Creators) \in Nat
    BY <1>1, FS_CardinalityType DEF Invariant, WorkersAreOwed
  <2> QED BY <1>1, <2>1, <2>3, <2>4 DEF Invariant, WorkersAreOwed, LoadsAreOwed
<1> QED BY ServerInvariant, <1>1, PTL
=============================================================================
