----------------------------- MODULE MemoryStore -----------------------------
(***************************************************************************)
(* general.db, the SQLite file of the memory engine, and the processes     *)
(* that share it: cam-daemon and each lathe-cloud.  Every operation opens  *)
(* the file anew, and what it does there is several transactions: a search *)
(* reads, awaits an embedding and strengthens what it returns by id; a     *)
(* remember inserts, then counts, ranks and deletes what is past the cap.  *)
(*                                                                         *)
(* A file is an inode with its rows; a connection keeps its inode when the *)
(* path is renamed.  The drive may be yanked, which ends all processes and *)
(* may damage the file: its header, which the canary of _open meets, or a  *)
(* page, which only a reader of the table meets.  A turn is always of the  *)
(* ops tier, so that the pull of a memory grows with last and uses.        *)
(***************************************************************************)
EXTENDS Naturals, FiniteSets, FiniteSetsExt

CONSTANTS
    Proc,      \* the processes
    MaxRows,   \* LATHEOS_MEMORY_MAX_ROWS
    TopK,      \* LATHEOS_GENERAL_K
    MaxClock,  \* bound on the operations of a behaviour
    MaxFiles   \* bound on the files it makes

ASSUME MemoryStoreAssumption ==
    /\ IsFiniteSet(Proc)
    /\ MaxRows \in Nat
    /\ TopK \in Nat
    /\ MaxClock \in Nat
    /\ MaxFiles \in Nat

VARIABLES
    db,         \* the inode at the path, 0 while there is none
    corrupt,    \* the inode at path + ".corrupt", 0 while there is none
    made,       \* number of files made
    rows,       \* the rows of each file
    health,     \* "ok", or what of the file is damaged
    op,         \* the operation of each process
    clock,      \* time, a tick per operation
    told,       \* history: the memories committed to each file
    evicted,    \* history: the memories a consolidation deleted
    unswept,    \* history: the memories whose consolidation was cut short
    contended,  \* history: two processes recovered the same path at once
    recycled    \* history: a row got the id of an earlier one

vars == <<db, corrupt, made, rows, health, op, clock, told, evicted, unswept,
          contended, recycled>>

-----------------------------------------------------------------------------

File == 1..MaxFiles

Row == [id : Nat, mem : Nat, last : Nat, uses : Nat]

Ids(s)  == {r.id : r \in s}
Mems(s) == {r.mem : r \in s}

\* Where an operation is, the inode of its connection, its time.time(), the memory
\* it adds, the rows it has selected, and what of unswept they include.
Op == [pc : {"idle", "recover", "reopen", "insert", "count", "rank", "delete",
             "select", "update"},
       todo : {"insert", "select"}, fd : 0..MaxFiles, now : Nat, mem : Nat,
       seen : SUBSET Row, swept : SUBSET Nat]

Idle == [pc |-> "idle", todo |-> "select", fd |-> 0, now |-> 0, mem |-> 0,
         seen |-> {}, swept |-> {}]

\* The transactions of a consolidation.
Consolidating(p) == op[p].pc \in {"count", "rank", "delete"}

\* _activation: recency, where what lies ahead of now counts as now, and uses.
Recency(r, now) == IF r.last < now THEN r.last ELSE now

Stronger(r, s, now) ==
    /\ Recency(r, now) >= Recency(s, now)
    /\ r.uses >= s.uses
    /\ \/ Recency(r, now) > Recency(s, now)
       \/ r.uses > s.uses
       \/ r.id < s.id

\* Faulty: ranked[max_rows + 1:].
StaleLate(s, now) ==
    {t \in SUBSET s : /\ Cardinality(t) = Cardinality(s) - MaxRows - 1
                      /\ \A r \in t, k \in s \ t : ~Stronger(r, k, now)}

\* ranked[max_rows:], in every order that recency and uses leave open.
Stale(s, now) ==
    {t \in SUBSET s : /\ Cardinality(t) = Cardinality(s) - MaxRows
                      /\ \A r \in t, k \in s \ t : ~Stronger(r, k, now)}

\* The best of the fused rankings of BM25 and vectors: any few of the rows.
Top(s) == {t \in SUBSET Ids(s) : Cardinality(t) <= TopK}

-----------------------------------------------------------------------------

Init ==
    /\ db = 0
    /\ corrupt = 0
    /\ made = 0
    /\ rows = [f \in File |-> {}]
    /\ health = [f \in File |-> "ok"]
    /\ op = [p \in Proc |-> Idle]
    /\ clock = 0
    /\ told = [f \in File |-> {}] /\ evicted = {} /\ unswept = {}
    /\ contended = FALSE
    /\ recycled = FALSE

histories == <<told, evicted, unswept, contended, recycled>>

\* sqlite3.connect and the canary on a sound file, or on none: then it makes one.
Connected(p, o) ==
    /\ \/ /\ db # 0
          /\ health[db] # "header"
          /\ UNCHANGED <<db, made>>
       \/ /\ db = 0
          /\ made < MaxFiles
          /\ made' = made + 1
          /\ db' = made + 1
    /\ IF o.todo = "insert"
       THEN /\ clock' = clock + 1
            /\ op' = [op EXCEPT ![p] = [o EXCEPT !.pc = "insert", !.fd = db',
                                                 !.now = clock + 1, !.mem = clock + 1]]
       ELSE /\ op' = [op EXCEPT ![p] = [o EXCEPT !.pc = "select", !.fd = db']]
            /\ UNCHANGED clock
    /\ UNCHANGED <<corrupt, rows, health, histories>>

\* general_search, or remember once it has its embedding, up to an open connection.
Open(p) ==
    /\ op[p].pc = "idle"
    /\ clock < MaxClock
    /\ \E todo \in {"insert", "select"} : Connected(p, [Idle EXCEPT !.todo = todo])

\* The canary raises on a damaged header.
OpenCorrupt(p) ==
    /\ op[p].pc = "idle"
    /\ clock < MaxClock
    /\ db # 0
    /\ health[db] = "header"
    /\ \E todo \in {"insert", "select"} :
          op' = [op EXCEPT ![p] = [Idle EXCEPT !.pc = "recover", !.todo = todo]]
    /\ contended' = (contended \/ \E q \in Proc \ {p} : op[q].pc = "recover")
    /\ UNCHANGED <<db, corrupt, made, rows, health, clock, told, evicted, unswept,
                   recycled>>

\* Faulty: the damaged file is removed instead of set aside, whatever is there.
RecoverRemoves(p) ==
    /\ op[p].pc = "recover"
    /\ rows' = IF db = 0 THEN rows ELSE [rows EXCEPT ![db] = {}]
    /\ db' = 0
    /\ op' = [op EXCEPT ![p].pc = "reopen"]
    /\ UNCHANGED <<corrupt, made, health, clock, histories>>

\* _recover sets aside what is at the path now, over what was set aside before.
Recover(p) ==
    /\ op[p].pc = "recover"
    /\ IF db = 0
       THEN UNCHANGED <<db, corrupt>>
       ELSE corrupt' = db /\ db' = 0
    /\ op' = [op EXCEPT ![p].pc = "reopen"]
    /\ UNCHANGED <<made, rows, health, clock, histories>>

Reopen(p) ==
    /\ op[p].pc = "reopen"
    /\ clock < MaxClock
    /\ Connected(p, op[p])

\* Faulty: the number of rows serves as the id.
InsertCounts(p) ==
    LET o  == op[p]
        id == Cardinality(rows[o.fd]) + 1
    IN  /\ o.pc = "insert"
        /\ rows' = [rows EXCEPT ![o.fd] =
                      @ \cup {[id |-> id, mem |-> o.mem, last |-> o.now, uses |-> 0]}]
        /\ op' = [op EXCEPT ![p].pc = "count"]
        /\ told' = [told EXCEPT ![o.fd] = @ \cup {o.mem}]
        /\ recycled' = (recycled \/ id <= Cardinality(told[o.fd]))
        /\ UNCHANGED <<db, corrupt, made, health, clock, evicted, unswept, contended>>

\* INSERT and commit.  Without AUTOINCREMENT the new id is one past the largest.
Insert(p) ==
    LET o  == op[p]
        id == Max({0} \cup Ids(rows[o.fd])) + 1
    IN  /\ o.pc = "insert"
        /\ rows' = [rows EXCEPT ![o.fd] =
                      @ \cup {[id |-> id, mem |-> o.mem, last |-> o.now, uses |-> 0]}]
        /\ op' = [op EXCEPT ![p].pc = "count"]
        /\ told' = [told EXCEPT ![o.fd] = @ \cup {o.mem}]
        /\ recycled' = (recycled \/ id <= Cardinality(told[o.fd]))
        /\ UNCHANGED <<db, corrupt, made, health, clock, evicted, unswept, contended>>

\* _consolidate: SELECT COUNT, which reads the whole table.
Count(p) ==
    LET f == op[p].fd
    IN  /\ op[p].pc = "count"
        /\ health[f] = "ok"
        /\ \/ /\ Cardinality(rows[f]) <= MaxRows
              /\ op' = [op EXCEPT ![p] = Idle]
           \/ /\ Cardinality(rows[f]) > MaxRows
              /\ op' = [op EXCEPT ![p].pc = "rank"]
        /\ UNCHANGED <<db, corrupt, made, rows, health, clock, histories>>

\* SELECT and rank.  Rows deleted since the count make the tail shorter, or empty.
Rank(p) ==
    LET f == op[p].fd
    IN  /\ op[p].pc = "rank"
        /\ health[f] = "ok"
        /\ \E t \in IF Cardinality(rows[f]) <= MaxRows THEN {{}}
                    ELSE Stale(rows[f], op[p].now) :
              op' = [op EXCEPT ![p].pc = "delete", ![p].seen = t, ![p].swept = unswept \cap Mems(rows[f])]
        /\ UNCHANGED <<db, corrupt, made, rows, health, clock, histories>>

\* DELETE by id and commit: a row that took over an id goes too.
Delete(p) ==
    LET o    == op[p]
        gone == {r \in rows[o.fd] : r.id \in Ids(o.seen)}
    IN  /\ o.pc = "delete"
        /\ rows' = [rows EXCEPT ![o.fd] = @ \ gone]
        /\ evicted' = evicted \cup Mems(gone)
        /\ unswept' = unswept \ o.swept
        /\ op' = [op EXCEPT ![p] = Idle]
        /\ UNCHANGED <<db, corrupt, made, health, clock, told, contended, recycled>>

\* general_search reads all rows, and goes on to await an embedding.
Select(p) ==
    LET f == op[p].fd
    IN  /\ op[p].pc = "select"
        /\ clock < MaxClock
        /\ health[f] = "ok"
        /\ clock' = clock + 1
        /\ op' = [op EXCEPT ![p] = IF rows[f] = {} THEN Idle
                                   ELSE [@ EXCEPT !.pc = "update", !.seen = rows[f],
                                                  !.now = clock + 1]]
        /\ UNCHANGED <<db, corrupt, made, rows, health, histories>>

\* Row r after a search of that time returned it.
Reinforced(r, now) == [r EXCEPT !.uses = @ + 1, !.last = now]

\* Faulty: the UPDATE has no WHERE.
UpdateAll(p) ==
    LET o == op[p]
    IN  /\ o.pc = "update"
        /\ rows' = [rows EXCEPT ![o.fd] = {Reinforced(r, o.now) : r \in @}]
        /\ op' = [op EXCEPT ![p] = Idle]
        /\ UNCHANGED <<db, corrupt, made, health, clock, histories>>

\* UPDATE by id and commit, of the rows that are still there.
Update(p) ==
    LET o == op[p]
    IN  /\ o.pc = "update"
        /\ \E top \in Top(o.seen) :
              rows' = [rows EXCEPT ![o.fd] =
                         {IF r.id \in top THEN Reinforced(r, o.now) ELSE r : r \in @}]
        /\ op' = [op EXCEPT ![p] = Idle]
        /\ UNCHANGED <<db, corrupt, made, health, clock, histories>>

\* A statement fails, on a damaged page or on a lock of more than 5 s, or the
\* process dies: the transaction is rolled back and the operation over.
Abort(p) ==
    /\ op[p].pc # "idle"
    /\ op' = [op EXCEPT ![p] = Idle]
    /\ unswept' = IF Consolidating(p) THEN unswept \cup {op[p].mem} ELSE unswept
    /\ UNCHANGED <<db, corrupt, made, rows, health, clock, told, evicted, contended,
                   recycled>>

\* The drive is yanked and the machine started again.
Yank ==
    /\ db # 0
    /\ health[db] = "ok"
    /\ \E h \in {"ok", "header", "page"} : health' = [health EXCEPT ![db] = h]
    /\ op' = [p \in Proc |-> Idle]
    /\ unswept' = unswept \cup {op[p].mem : p \in {q \in Proc : Consolidating(q)}}
    /\ UNCHANGED <<db, corrupt, made, rows, clock, told, evicted, contended, recycled>>

Step(p) ==
    \/ Open(p) \/ OpenCorrupt(p) \/ Recover(p) \/ Reopen(p)
    \/ Insert(p) \/ Count(p) \/ Rank(p) \/ Delete(p)
    \/ Select(p) \/ Update(p)
    \/ Abort(p)

Next == Yank \/ \E p \in Proc : Step(p)

Spec == Init /\ [][Next]_vars

-----------------------------------------------------------------------------

\* Every variable has its type, and an id belongs to one row of a file.
TypeOK ==
    /\ db \in 0..made /\ corrupt \in 0..made /\ made \in 0..MaxFiles
    /\ \A f \in File : rows[f] \subseteq Row
    /\ \A f \in File : \A r, s \in rows[f] : r.id = s.id => r = s
    /\ health \in [File -> {"ok", "header", "page"}]
    /\ \A p \in Proc : op[p] \in Op /\ (op[p].pc \notin {"idle", "recover", "reopen"}
                                           => op[p].fd \in 1..made)
    /\ clock \in 0..MaxClock
    /\ told \in [File -> SUBSET (1..clock)]
    /\ evicted \cup unswept \subseteq UNION {told[f] : f \in File}
    /\ contended \in BOOLEAN /\ recycled \in BOOLEAN

\* memory.py 20: "One bounded SQLite file".  Whoever consolidates at the same time,
\* and from whatever stale count, the file has the cap, the row of each process that
\* is still consolidating, and those whose consolidation was cut short and that no
\* later one has ranked.
StoreIsBounded ==
    db # 0 =>
        Cardinality(rows[db]) <= MaxRows + Cardinality(unswept)
                                    + Cardinality({p \in Proc : Consolidating(p)})

\* A memory that remember() reported as kept is in the file at the path, or a
\* consolidation evicted it, or it is in a file that a yank damaged; two processes
\* that recover at once may cost what one of them had written in between.
LossIsExplained ==
    \A f \in File : \A m \in told[f] \ evicted :
        /\ m \in Mems(rows[f])
        /\ f = db \/ health[f] # "ok" \/ contended

\* "Retrieving a memory strengthens it": a search strengthens a memory it has read,
\* though it writes by ids it read before its await; only the id of an evicted row
\* that was given out again can make it strengthen another.
RecallStrengthensWhatItRead ==
    [][\A f \in File : \A r \in rows[f], s \in rows'[f] :
          r.mem = s.mem /\ r.uses < s.uses =>
              \/ recycled
              \/ \E p \in Proc : op[p].pc = "update" /\ r.mem \in Mems(op[p].seen)]_vars

\* memory.py 211: "Quarantine it ONCE and rebuild empty so memory self-heals", "Only
\* triggers on real corruption".  What is set aside is a file the drive damaged.
OnlyCorruptIsQuarantined == corrupt # 0 => health[corrupt] # "ok"
=============================================================================
