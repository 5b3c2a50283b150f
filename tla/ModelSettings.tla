---------------------------- MODULE ModelSettings ----------------------------
(***************************************************************************)
(* The settings of a drive in /persist/secrets/llm.env.  lathe models set  *)
(* reads the file, changes a line and writes all of it back, as root or,   *)
(* by way of sudo tee, as the user dev, who cannot read it; the first-run  *)
(* wizard appends to it; and every start of cam-daemon reads it, on top of *)
(* the baked defaults and of the heavy model picked for the host.          *)
(*                                                                         *)
(* The role vision is set and kept as voice is; what only it has, the file *)
(* camera.env after llm.env, is left out.                                  *)
(***************************************************************************)
EXTENDS Naturals, Sequences, FiniteSets, FiniteSetsExt

CONSTANTS
    Writers,   \* concurrent invocations of lathe models set
    Users,     \* the users that run it, of "root" and "dev"
    Models,    \* models a user may set
    Unset,     \* no value
    MaxSets,   \* bound on the sets and on the answers to the wizard, each
    MaxFaults, \* bound on writes and appends that fail, writers killed and power cuts
    MaxBoots   \* bound on boots and on restarts of the daemon, together

ASSUME ModelSettingsAssumption ==
    /\ Users \subseteq {"root", "dev"}
    /\ Unset \notin Writers \cup Models \cup {"big", "small", "baked", "0", "1"}
    /\ MaxSets \in Nat /\ MaxFaults \in Nat /\ MaxBoots \in Nat

Roles == {"voice", "heavy"}                \* ROLE_ENV
Keys  == Roles \cup {"cloud"}              \* and LATHEOS_CLOUD_ENABLE
Hosts == {"big", "small"}                  \* the heavy models autoselect picks from

\* What the files baked into /etc/latheos say.
Baked == [voice |-> "baked", heavy |-> "small", cloud |-> "0"]

Values == Models \cup Hosts \cup {"baked", "0", "1", Unset}
Line(k, v) == [key |-> k, value |-> v]

VARIABLES
    file,     \* the lines of llm.env; <<>> when it is empty or missing
    disk,     \* those that have reached the disk
    pc,       \* pc[p]: idle, read, open or write
    set,      \* set[p]: the user, and the line to be set
    text,     \* text[p]: what _set_in_lines made of the lines read
    host,     \* /run/latheos/heavy-model.env
    daemon,   \* the environment cam-daemon was started with; Unset when it is off
    saved,    \* history: the value reported as saved, unless SavedIsKept excuses its loss
    last,     \* history: the value reported as saved, whatever became of it
    applied,  \* history: saved when the daemon was started
    raced,    \* history: another writer touched the file since p read it
    count     \* numbers of sets, of answers, of faults, and of boots and restarts

vars == <<file, disk, pc, set, text, host, daemon, saved, last, applied, raced, count>>

writer  == <<pc, set, text>>
running == <<host, daemon, applied>>

-----------------------------------------------------------------------------

\* The value of k: the last of its lines wins.
Lookup(f, k) ==
    LET at == {n \in DOMAIN f : f[n].key = k}
    IN  IF at = {} THEN Unset ELSE f[Max(at)].value

Override(f, k, v) == IF Lookup(f, k) = Unset THEN v ELSE Lookup(f, k)

\* Faulty: the key is appended whether or not it is there, before the others.
SetInLinesFirst(f, k, v) == <<Line(k, v)>> \o f

\* _set_in_lines: every line of the key, or a new one.
SetInLines(f, k, v) ==
    IF \E n \in DOMAIN f : f[n].key = k
    THEN [n \in DOMAIN f |-> IF f[n].key = k THEN Line(k, v) ELSE f[n]]
    ELSE Append(f, Line(k, v))

\* Faulty: the baked files win over the persisted one.
ResolveBaked(u, r) == Baked[r]

\* _resolve, where the environment has nothing: dev does not see the file.
Resolve(u, r) == IF u = "root" THEN Override(file, r, Baked[r]) ELSE Baked[r]

\* Faulty: the heavy model picked at boot is loaded last.
EnvironmentPicked == [k \in Keys |-> IF k = "heavy" THEN host ELSE Override(file, k, Baked[k])]

\* What a daemon started now has: the files of /etc, of /run, the persisted one.
Environment ==
    [k \in Keys |-> Override(file, k, IF k = "heavy" THEN host ELSE Baked[k])]

Torn == \E p \in Writers : pc[p] = "write"
Nothing == [k \in Keys |-> Unset]

Goto(p, from, to) == pc[p] = from /\ pc' = [pc EXCEPT ![p] = to]
Tick(n) == count' = [count EXCEPT ![n] = @ + 1]

\* The other writers that have read the file and not written it yet.
Touched(p) == raced' = [q \in Writers |-> raced[q] \/ (q # p /\ pc[q] \in {"open", "write"})]

Init ==
    /\ file = <<>> /\ disk = <<>>
    /\ pc = [p \in Writers |-> "idle"]
    /\ set = [p \in Writers |-> [user |-> "dev", key |-> "voice", value |-> Unset]]
    /\ text = [p \in Writers |-> <<>>]
    /\ host \in Hosts
    /\ daemon = Unset
    /\ saved = Nothing /\ last = Nothing /\ applied = Nothing
    /\ raced = [p \in Writers |-> FALSE]
    /\ count = [sets |-> 0, answers |-> 0, faults |-> 0, boots |-> 0]

\* _cmd_set; that the model may not be pulled is only a warning.
Begin(p, u, r, m) ==
    /\ count.sets < MaxSets
    /\ Goto(p, "idle", "read")
    /\ set' = [set EXCEPT ![p] = [user |-> u, key |-> r, value |-> m]]
    /\ Tick("sets")
    /\ UNCHANGED <<file, disk, text, running, saved, last, raced>>

\* Faulty: a file that was read is rewritten with the line that was set.
ReadKeepsNothing(p) ==
    /\ Goto(p, "read", "open")
    /\ text' = [text EXCEPT ![p] = SetInLines(<<>>, set[p].key, set[p].value)]
    /\ raced' = [raced EXCEPT ![p] = Torn]
    /\ UNCHANGED <<file, disk, set, running, saved, last, count>>

\* A file that cannot be read counts as empty, a missing one and an unreadable one.
Read(p) ==
    /\ Goto(p, "read", "open")
    /\ LET lines == IF set[p].user = "root" THEN file ELSE <<>>
       IN  text' = [text EXCEPT ![p] = SetInLines(lines, set[p].key, set[p].value)]
    /\ raced' = [raced EXCEPT ![p] = Torn]
    /\ UNCHANGED <<file, disk, set, running, saved, last, count>>

\* open(..., "w"), or tee after the PermissionError: the file is truncated.
Open(p) ==
    /\ Goto(p, "open", "write")
    /\ file' = <<>>
    /\ Touched(p)
    /\ UNCHANGED <<disk, set, text, running, saved, last, count>>

\* The file cannot be opened, or sudo or tee is missing: nothing is written.
OpenFails(p) ==
    /\ count.faults < MaxFaults
    /\ Goto(p, "open", "idle")
    /\ Tick("faults")
    /\ UNCHANGED <<file, disk, set, text, running, saved, last, raced>>

\* p writes from the start of the file: of what others put there since p truncated
\* it, a part is covered.
Written(p) == {text[p] \o SubSeq(file, n, Len(file)) : n \in 2..Len(file) + 2}

\* The set is reported as saved.  One that raced may have lost anything, and one of
\* dev has lost the other keys.
Write(p) ==
    /\ Goto(p, "write", "idle")
    /\ file' \in Written(p)
    /\ Touched(p)
    /\ last' = [last EXCEPT ![set[p].key] = set[p].value]
    /\ saved' = IF raced[p] THEN Nothing
                ELSE [k \in Keys |-> CASE k = set[p].key         -> set[p].value
                                       [] set[p].user = "dev"  -> Unset
                                       [] OTHER                -> saved[k]]
    /\ UNCHANGED <<disk, set, text, running, count>>

\* The write fails, on a full disk for one, or the writer is killed before it.
Abort(p) ==
    /\ count.faults < MaxFaults
    /\ pc[p] # "idle"
    /\ pc' = [pc EXCEPT ![p] = "idle"]
    /\ saved' = IF pc[p] = "write" THEN Nothing ELSE saved
    /\ Tick("faults")
    /\ UNCHANGED <<file, disk, set, text, running, last, raced>>

\* The first-run wizard turns the cloud on: two short lines, appended as one.
Enable ==
    /\ count.answers < MaxSets
    /\ Tick("answers")
    /\ file' = Append(file, Line("cloud", "1"))
    /\ Touched(Unset)
    /\ last' = [last EXCEPT !["cloud"] = "1"]
    /\ saved' = [saved EXCEPT !["cloud"] = "1"]
    /\ UNCHANGED <<disk, writer, running>>

\* sudo refuses, or tee cannot write: nothing is appended, and the wizard, which does
\* not look at the status, says Stored all the same.  A line it added before is still
\* there.
EnableFails ==
    /\ count.faults < MaxFaults
    /\ Tick("faults")
    /\ last' = [last EXCEPT !["cloud"] = "1"]
    /\ UNCHANGED <<file, disk, writer, running, saved, raced>>

\* The kernel writes the file back; nothing in the code waits for it.
Sync ==
    /\ disk # file
    /\ disk' = file
    /\ UNCHANGED <<file, writer, running, saved, last, raced, count>>

\* A boot, on any host: autoselect has run before the daemon is started.
Boot(h) ==
    /\ host' = h
    /\ daemon' = Unset
    /\ applied' = Nothing
    /\ pc' = [p \in Writers |-> "idle"]
    /\ UNCHANGED <<set, text, last, raced>>

Reboot(h) ==
    /\ count.boots < MaxBoots
    /\ Tick("boots")
    /\ disk' = file
    /\ UNCHANGED file
    /\ Boot(h)
    /\ saved' = IF Torn THEN Nothing ELSE saved

\* The power goes, and what has not reached the disk.
PowerCut(h) ==
    /\ count.faults < MaxFaults
    /\ Tick("faults")
    /\ file' = disk
    /\ UNCHANGED disk
    /\ Boot(h)
    /\ saved' = IF Torn \/ disk # file THEN Nothing ELSE saved

\* systemd starts, or restarts, cam-daemon.
Start ==
    /\ count.boots < MaxBoots \/ daemon = Unset
    /\ daemon' = Environment
    /\ applied' = IF Torn THEN Nothing ELSE saved
    /\ IF daemon = Unset THEN UNCHANGED count ELSE Tick("boots")
    /\ UNCHANGED <<file, disk, writer, host, saved, last, raced>>

Set(p) ==
    \/ \E u \in Users, r \in Roles, m \in Models : Begin(p, u, r, m)
    \/ Read(p) \/ Open(p) \/ OpenFails(p) \/ Write(p) \/ Abort(p)

Next ==
    \/ \E p \in Writers : Set(p)
    \/ Enable \/ EnableFails
    \/ Sync
    \/ \E h \in Hosts : Reboot(h) \/ PowerCut(h)
    \/ Start

Spec == Init /\ [][Next]_vars

-----------------------------------------------------------------------------

\* Every variable has its type, and the text to be written sets what was asked.
TypeOK ==
    /\ file \in Seq([key : Keys, value : Values])
    /\ disk \in Seq([key : Keys, value : Values])
    /\ pc \in [Writers -> {"idle", "read", "open", "write"}]
    /\ set \in [Writers -> [user : Users \cup {"dev"}, key : Roles, value : Values]]
    /\ \A p \in Writers : pc[p] \in {"open", "write"} =>
          Lookup(text[p], set[p].key) = set[p].value
    /\ host \in Hosts
    /\ daemon \in {Unset} \cup [Keys -> Values]
    /\ saved \in [Keys -> Values] /\ last \in [Keys -> Values]
    /\ applied \in [Keys -> Values]
    /\ raced \in [Writers -> BOOLEAN]
    /\ count \in [sets : 0..MaxSets, answers : 0..MaxSets, faults : 0..MaxFaults,
                  boots : 0..MaxBoots]

\* models.py 10: "Switching persists".  What a set or the wizard reported as saved is
\* there, and root is shown it, until it is set again, whatever was set in between,
\* except for the five ways a setting is lost: dev set another one, two writers
\* overlapped, one was killed or failed after the truncation, the power went before the
\* file was on the disk, or the wizard's append failed, which it reports as stored.  The
\* first set that is reported after such a loss, and did not race, is kept again.
SavedIsKept ==
    ~Torn => \A k \in Keys : saved[k] # Unset =>
        /\ Lookup(file, k) = saved[k]
        /\ Resolve("root", k) = saved[k]

\* A daemon runs with what was saved, and not lost in one of those five ways, when it was
\* started: over the defaults of the image and over the model picked for the host it was
\* booted on.
RestartApplies ==
    daemon # Unset => \A k \in Keys : applied[k] # Unset => daemon[k] = applied[k]

\* models.py 10: "Switching persists to /persist/secrets/llm.env ... so it survives
\* reboots".  The roles are as they were last reported to be set.
SwitchesPersist ==
    ~Torn => \A r \in Roles : last[r] # Unset => Lookup(file, r) = last[r]
=============================================================================
