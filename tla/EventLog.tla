------------------------------ MODULE EventLog ------------------------------
(***************************************************************************)
(* The event log /run/cam-daemon/events.jsonl and the processes around it: *)
(* cam-daemon, which appends a line and trims the file; lathe-pilot, which *)
(* only appends; and the lathe shell, which polls for new lines.           *)
(*                                                                         *)
(* A line is an event of one or more bytes, the last one its newline.  An  *)
(* append (O_APPEND, one write) is atomic; the trim is not: it reads the   *)
(* file, truncates it, and writes it back in chunks at its own offset.     *)
(* Each of them may fail, on a full disk for one: an append after a part   *)
(* of its line, a trim before it truncates or after any of its chunks; the *)
(* error is swallowed.  (A part that lacks no more than the newline is     *)
(* taken for incomplete.)  The shell stats the file and then opens it.     *)
(* The log lives in the RuntimeDirectory of the service, which systemd     *)
(* removes when the daemon stops.                                          *)
(***************************************************************************)
EXTENDS Naturals, Sequences, FiniteSets

CONSTANTS
    MaxEvents,   \* bound on the events of a behaviour
    MaxBoots,    \* bound on the starts of the daemon
    MaxFaults,   \* bound on the writes and trims that fail
    MaxLines,    \* bus.py _MAX_LINES
    Widths       \* lengths a line may have

ASSUME EventLogAssumption ==
    /\ MaxEvents \in Nat
    /\ MaxBoots \in Nat \ {0}
    /\ MaxFaults \in Nat
    /\ MaxLines \in Nat \ {0}
    /\ Widths \subseteq Nat \ {0}

VARIABLES
    file,       \* the bytes of the log
    inode,      \* its inode, 0 while there is no file
    boot,       \* number of starts of the daemon
    published,  \* number of events published
    dpc,        \* where publish() of the daemon is
    kept,       \* the bytes _maybe_trim writes back
    off,        \* its offset in the file
    rpc,        \* where poll() of the shell is
    pos,        \* VoiceBusReader._pos
    seen,       \* VoiceBusReader._inode, 0 for None
    primed,     \* VoiceBusReader._primed
    polled,     \* history: the events poll() returned, in order
    start,      \* history: events published when the reader was primed
    newest,     \* history: the last event the daemon wrote to this file
    late,       \* history: lines added since the daemon last held the file to its cap
    raised,     \* history: the last publish() of the daemon raised
    trimmed,    \* history: a trim has truncated the file
    failed,     \* history: a write to this file failed part-way
    faults      \* number of writes and trims that failed

vars == <<file, inode, boot, published, dpc, kept, off, rpc, pos, seen, primed,
          polled, start, newest, late, raised, trimmed, failed, faults>>

faultVars  == <<failed, faults>>
daemonVars == <<boot, dpc, kept, off, newest, raised, trimmed, faultVars>>
readerVars == <<rpc, pos, seen, primed, polled, start>>

-----------------------------------------------------------------------------

Bytes == [id : Nat, by : {"daemon", "pilot"}, part : Nat, last : BOOLEAN]

\* json.dumps(record) + "\n".
Line(id, by, w) ==
    [k \in 1..w |-> [id |-> id, by |-> by, part |-> k, last |-> k = w]]

\* The newlines of a text.
Ends(s) == {i \in DOMAIN s : s[i].last}

\* The newlines of the lines that are one event, complete and alone.
WholeEnds(s) ==
    {i \in Ends(s) :
        LET w == s[i].part
        IN  /\ w <= i
            /\ SubSeq(s, i - w + 1, i) = Line(s[i].id, s[i].by, w)
            /\ w < i => s[i - w].last}

\* A line of the text is not an event, and may not even be UTF-8.
Torn(s) == s # <<>> /\ (~s[Len(s)].last \/ WholeEnds(s) # Ends(s))

\* The k-th of some positions.
Nth(S, k) == CHOOSE i \in S : Cardinality({j \in S : j <= i}) = k

\* The events json.loads makes of the lines of a text, in order.
Parsed(s) ==
    LET ends == WholeEnds(s)
    IN  [k \in 1..Cardinality(ends) |-> s[Nth(ends, k)].id]

\* Where the lines of readlines() end: at a newline, and at the end of the text.
Lasts(s) == Ends(s) \cup {i \in DOMAIN s : i = Len(s)}

\* Faulty: lines[:_MAX_LINES].
KeepFirst(s) ==
    SubSeq(s, 1, CHOOSE i \in Lasts(s) : Cardinality({j \in Lasts(s) : j <= i}) = MaxLines)

\* Faulty: one line too many.
KeepOneMore(s) ==
    IF Cardinality(Lasts(s)) = MaxLines + 1 THEN s
    ELSE SubSeq(s, 1 + CHOOSE i \in Lasts(s) :
                          Cardinality({j \in Lasts(s) : j > i}) = MaxLines + 1, Len(s))

\* lines[-_MAX_LINES:], of a text with more lines than that.
Keep(s) ==
    SubSeq(s, 1 + CHOOSE i \in Lasts(s) :
                     Cardinality({j \in Lasts(s) : j > i}) = MaxLines, Len(s))

\* A text after a write at an offset inside it or at its end.
Overwrite(s, at, text) ==
    SubSeq(s, 1, at) \o text \o SubSeq(s, at + Len(text) + 1, Len(s))

-----------------------------------------------------------------------------

Init ==
    /\ file = <<>>
    /\ inode = 0
    /\ boot = 1
    /\ published = 0
    /\ dpc = "idle"
    /\ kept = <<>>
    /\ off = 0
    /\ rpc = "idle"
    /\ pos = 0
    /\ seen = 0
    /\ primed = FALSE
    /\ polled = <<>>
    /\ start = 0
    /\ newest = 0
    /\ late = 0
    /\ raised = FALSE
    /\ trimmed = FALSE
    /\ failed = FALSE
    /\ faults = 0

\* open(path, "a") creates the file if there is none.
Write(by) ==
    /\ published < MaxEvents
    /\ published' = published + 1
    /\ \E w \in Widths : file' = file \o Line(published + 1, by, w)
    /\ inode' = boot
    /\ late' = late + 1

\* The line does not get further than some of its bytes.
WriteFails(by) ==
    /\ published < MaxEvents /\ faults < MaxFaults
    /\ published' = published + 1
    /\ \E w \in Widths : \E n \in 0..w - 1 :
          file' = file \o SubSeq(Line(published + 1, by, w), 1, n)
    /\ inode' = boot
    /\ failed' = TRUE
    /\ faults' = faults + 1

(***************************************************************************)
(* The writers.                                                            *)
(***************************************************************************)

\* EventBus.publish of the daemon, up to _maybe_trim.
Publish ==
    /\ dpc = "idle"
    /\ Write("daemon")
    /\ dpc' = "trim"
    /\ newest' = published + 1
    /\ UNCHANGED <<boot, kept, off, raised, trimmed, faultVars, readerVars>>

\* An OSError of the append leaves the block, and nothing is trimmed.
PublishFails ==
    /\ dpc = "idle"
    /\ WriteFails("daemon")
    /\ raised' = FALSE
    /\ UNCHANGED <<boot, dpc, kept, off, newest, late, trimmed, readerVars>>

\* Faulty: the cap is off by one.
TrimLate ==
    /\ dpc = "trim"
    /\ raised' = FALSE
    /\ \/ /\ Cardinality(Lasts(file)) <= MaxLines + 1
          /\ dpc' = "idle"
          /\ late' = 0
          /\ UNCHANGED kept
       \/ /\ Cardinality(Lasts(file)) > MaxLines + 1
          /\ dpc' = "rewrite"
          /\ kept' = Keep(file)
          /\ UNCHANGED late
    /\ UNCHANGED <<file, inode, boot, published, off, newest, trimmed, faultVars, readerVars>>

\* _maybe_trim reads the file and decides.
Trim ==
    /\ dpc = "trim"
    /\ raised' = FALSE
    /\ \/ /\ Cardinality(Lasts(file)) <= MaxLines
          /\ dpc' = "idle"
          /\ late' = 0
          /\ UNCHANGED kept
       \/ /\ Cardinality(Lasts(file)) > MaxLines
          /\ dpc' = "rewrite"
          /\ kept' = Keep(file)
          /\ UNCHANGED late
    /\ UNCHANGED <<file, inode, boot, published, off, newest, trimmed, faultVars, readerVars>>

\* A line cut inside a character is not UTF-8: readlines raises, and publish with
\* it, since that is no OSError.
TrimRaises ==
    /\ dpc = "trim"
    /\ Torn(file)
    /\ dpc' = "idle"
    /\ raised' = TRUE
    /\ UNCHANGED <<file, inode, boot, published, kept, off, newest, late, trimmed,
                   faultVars, readerVars>>

\* An OSError of either open, or of the read: the file is left as it is.
TrimFails ==
    /\ dpc \in {"trim", "rewrite"}
    /\ faults < MaxFaults
    /\ dpc' = "idle"
    /\ kept' = <<>>
    /\ raised' = FALSE
    /\ faults' = faults + 1
    /\ UNCHANGED <<file, inode, boot, published, off, newest, late, trimmed, failed,
                   readerVars>>

\* Faulty: opened for appending.
RewriteAppends ==
    /\ dpc = "rewrite"
    /\ dpc' = "write"
    /\ off' = Len(file)
    /\ late' = 0
    /\ trimmed' = TRUE
    /\ UNCHANGED <<file, inode, boot, published, kept, newest, raised, faultVars, readerVars>>

\* open(path, "w") truncates.
Rewrite ==
    /\ dpc = "rewrite"
    /\ dpc' = "write"
    /\ file' = <<>>
    /\ off' = 0
    /\ late' = 0
    /\ trimmed' = TRUE
    /\ UNCHANGED <<inode, boot, published, kept, newest, raised, faultVars, readerVars>>

\* writelines flushes a chunk, wherever the file now ends; the last one closes it.
WriteBack ==
    /\ dpc = "write"
    /\ \E n \in 1..Len(kept) :
          /\ file' = Overwrite(file, off, SubSeq(kept, 1, n))
          /\ kept' = SubSeq(kept, n + 1, Len(kept))
          /\ off' = off + n
    /\ dpc' = IF kept' = <<>> THEN "idle" ELSE "write"
    /\ UNCHANGED <<inode, boot, published, newest, late, raised, trimmed, faultVars,
                   readerVars>>

\* An OSError before the next chunk: what is not written back by then is lost.
WriteBackFails ==
    /\ dpc = "write"
    /\ faults < MaxFaults
    /\ dpc' = "idle"
    /\ kept' = <<>>
    /\ failed' = TRUE
    /\ faults' = faults + 1
    /\ UNCHANGED <<file, inode, boot, published, off, newest, late, raised, trimmed,
                   readerVars>>

\* EventBus.publish of the pilot.  Without the daemon there is no directory, and
\* only systemd may create it.
PilotPublish ==
    /\ dpc # "down"
    /\ Write("pilot")
    /\ UNCHANGED <<daemonVars, readerVars>>

PilotPublishFails ==
    /\ dpc # "down"
    /\ WriteFails("pilot")
    /\ UNCHANGED <<boot, dpc, kept, off, newest, late, raised, trimmed, readerVars>>

\* The service stops, by a crash or not, wherever publish() is.
Stop ==
    /\ dpc # "down"
    /\ boot < MaxBoots
    /\ dpc' = "down"
    /\ file' = <<>>
    /\ inode' = 0
    /\ kept' = <<>>
    /\ newest' = 0
    /\ late' = 0
    /\ failed' = FALSE
    /\ UNCHANGED <<boot, published, off, raised, trimmed, faults, readerVars>>

Start ==
    /\ dpc = "down"
    /\ dpc' = "idle"
    /\ boot' = boot + 1
    /\ raised' = FALSE
    /\ UNCHANGED <<file, inode, published, kept, off, newest, late, trimmed, faultVars,
                   readerVars>>

(***************************************************************************)
(* VoiceBusReader.poll.                                                    *)
(***************************************************************************)

\* Faulty: only a smaller file is taken for a new one.
StatBySize ==
    /\ rpc = "idle"
    /\ inode # 0
    /\ rpc' = "open"
    /\ seen' = inode
    /\ pos' = IF Len(file) < pos THEN 0 ELSE pos
    /\ UNCHANGED <<file, inode, published, late, primed, polled, start, daemonVars>>

\* os.stat, and the checks for rotation and truncation; nothing without a file.
Stat ==
    /\ rpc = "idle"
    /\ inode # 0
    /\ rpc' = "open"
    /\ seen' = inode
    /\ pos' = IF seen \notin {0, inode} \/ Len(file) < pos THEN 0 ELSE pos
    /\ UNCHANGED <<file, inode, published, late, primed, polled, start, daemonVars>>

\* The first poll that opens the file skips what it finds.
Prime ==
    /\ rpc = "open" /\ inode # 0 /\ ~primed
    /\ rpc' = "idle"
    /\ pos' = Len(file)
    /\ primed' = TRUE
    /\ start' = published
    /\ UNCHANGED <<file, inode, published, late, seen, polled, daemonVars>>

\* What the open file has beyond the position.
Unread == SubSeq(file, pos + 1, Len(file))

\* Faulty: the position is not kept.
ReadForgets ==
    /\ rpc = "open" /\ inode # 0 /\ primed
    /\ rpc' = "idle"
    /\ polled' = polled \o Parsed(Unread)
    /\ UNCHANGED <<pos, file, inode, published, late, seen, primed, start, daemonVars>>

\* Faulty: every poll skips what it finds.
ReadPrimes ==
    /\ rpc = "open" /\ inode # 0 /\ primed
    /\ rpc' = "idle"
    /\ pos' = Len(file)
    /\ UNCHANGED <<file, inode, published, late, seen, primed, polled, start, daemonVars>>

\* A seek past the end reads nothing and stays there.
Read ==
    /\ rpc = "open" /\ inode # 0 /\ primed
    /\ rpc' = "idle"
    /\ polled' = polled \o Parsed(Unread)
    /\ pos' = IF Len(file) < pos THEN pos ELSE Len(file)
    /\ UNCHANGED <<file, inode, published, late, seen, primed, start, daemonVars>>

\* UnicodeDecodeError is no OSError: it leaves poll(), and the interval callback
\* of the chat pane, which ends the shell.
ReadRaises ==
    /\ rpc = "open" /\ inode # 0 /\ primed
    /\ Torn(Unread)
    /\ rpc' = "dead"
    /\ UNCHANGED <<file, inode, published, late, pos, seen, primed, polled, start,
                   daemonVars>>

\* The file went away after the stat.
OpenFails ==
    /\ rpc = "open" /\ inode = 0
    /\ rpc' = "idle"
    /\ UNCHANGED <<file, inode, published, late, pos, seen, primed, polled, start,
                   daemonVars>>

Poll == Stat \/ Prime \/ Read \/ ReadRaises \/ OpenFails

Next ==
    \/ Publish \/ Trim \/ TrimRaises \/ Rewrite \/ WriteBack
    \/ PublishFails \/ TrimFails \/ WriteBackFails
    \/ PilotPublish \/ PilotPublishFails
    \/ Stop \/ Start
    \/ Poll

\* set_interval polls for as long as the shell runs, and publish() returns.  Nobody
\* has to publish, stop or restart anything.
Fairness ==
    /\ WF_vars(Poll)
    /\ WF_vars(Trim \/ TrimRaises \/ Rewrite \/ WriteBack)

Spec     == Init /\ [][Next]_vars
FairSpec == Spec /\ Fairness

-----------------------------------------------------------------------------

\* Every variable has its type, and a trim writes back no more than the cap.
TypeOK ==
    /\ file \in Seq(Bytes)
    /\ inode \in {0, boot}
    /\ boot \in 1..MaxBoots
    /\ published \in 0..MaxEvents
    /\ dpc \in {"idle", "trim", "rewrite", "write", "down"}
    /\ kept \in Seq(Bytes) /\ Cardinality(Ends(kept)) <= MaxLines
    /\ off \in Nat
    /\ rpc \in {"idle", "open", "dead"}
    /\ pos \in Nat
    /\ seen \in 0..MaxBoots
    /\ primed \in BOOLEAN
    /\ polled \in Seq(1..MaxEvents)
    /\ start \in 0..MaxEvents
    /\ newest \in 0..MaxEvents
    /\ late \in 0..MaxEvents
    /\ raised \in BOOLEAN
    /\ trimmed \in BOOLEAN
    /\ failed \in BOOLEAN
    /\ faults \in 0..MaxFaults

\* Whatever the pilot appends while the daemon rewrites the file, and whichever write
\* fails, the events of the log stand in the order they were published and none of them
\* twice.
LogIsOrdered ==
    \A i, j \in WholeEnds(file) : i < j => file[i].id < file[j].id

\* The race of the trim with an append costs at most lines of the pilot: unless a write
\* to this file failed part-way, every line of the daemon is intact once the trim is
\* over, and its last event is there unless the cap itself makes it too old.
DaemonLinesSurvive ==
    ~failed /\ dpc \in {"idle", "trim", "rewrite"} =>
        /\ \A i \in Ends(file) : file[i].by = "daemon" => i \in WholeEnds(file)
        /\ newest # 0 /\ published < newest + MaxLines =>
              \E i \in Ends(file) : file[i].id = newest

\* bus.py 21: the file does not grow without bound.  It has the cap, and what was added
\* since the daemon last held it to that: a trim that fails is made up for by the next.
LogIsBounded == Cardinality(Ends(file)) <= MaxLines + late

\* As long as no trim shortened the log, the shell skips no line of it that is whole and
\* was published after its first poll, also behind a line cut short and across restarts of
\* the daemon: each is polled or ahead.
NothingIsSkippedBelowTheCap ==
    ~trimmed /\ primed /\ seen = inode /\ rpc = "idle" =>
        \A i \in WholeEnds(file) :
            file[i].id > start => \/ i > pos
                                  \/ \E k \in DOMAIN polled : polled[k] = file[i].id

\* As long as no trim shortened the log and the daemon was not restarted, the shell
\* gets each event once and in order.
PolledInOrderBelowTheCap ==
    ~trimmed /\ boot = 1 => \A j, k \in DOMAIN polled : j < k => polled[j] < polled[k]

\* A spoken turn published after the shell's first poll does show up in the shell,
\* unless a write fails, the log is trimmed or the daemon stops first.
TurnsShowUp ==
    \A e \in 1..MaxEvents :
        primed /\ start < e /\ e <= published
            ~> \/ \E k \in DOMAIN polled : polled[k] = e
               \/ failed \/ trimmed \/ boot > 1 \/ dpc = "down"

\* voicebus.py 52: "skip existing history, only show what happens from now on", also
\* when the "daemon trims the file" (43).  The shell is shown no event twice.
NoEventIsReplayed ==
    \A j, k \in DOMAIN polled : polled[j] = polled[k] => j = k

\* bus.py 6: a "crash-proof, append-only file", where a failed write is "never
\* something that should take the assistant down".  publish() does not raise.
PublishNeverRaises == ~raised
=============================================================================
