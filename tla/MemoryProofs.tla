---------------------------- MODULE MemoryProofs -----------------------------
(***************************************************************************)
(* Proofs about MemoryStore for every number of processes, of files and of *)
(* rows: what a recovery may set aside, what may be lost, what a search    *)
(* may strengthen, and how far past its cap a file may grow.               *)
(***************************************************************************)
EXTENDS MemoryStore, FiniteSetTheorems, FunctionTheorems, TLAPS

\* The shape of the state, as far as the files go: the connections are to files that
\* were made.
Shape ==
    /\ made \in 0..MaxFiles /\ db \in 0..made /\ corrupt \in 0..made
    /\ health \in [File -> {"ok", "header", "page"}]
    /\ rows = [f \in File |-> rows[f]] /\ told = [f \in File |-> told[f]]
    /\ contended \in BOOLEAN
    /\ op = [p \in Proc |-> op[p]]
    /\ \A p \in Proc : {"pc", "fd"} \subseteq DOMAIN op[p] /\ op[p].fd \in 0..made

Recovering(p) == op[p].pc = "recover"

\* Unless two processes met in a recovery, one at most is in it, and the file at the
\* path is damaged still.
RecoveryIsAlone ==
    \/ contended
    \/ /\ \A p, q \in Proc : Recovering(p) /\ Recovering(q) => p = q
       /\ \A p \in Proc : Recovering(p) => db # 0 /\ health[db] = "header"

\* Files that are not made yet have no memories.
ToldIsMade == \A f \in File : told[f] # {} => f <= made

\* A file that was made is at the path, or damaged, or two processes recovered at once.
FilesAreExplained == \A f \in 1..made : f = db \/ health[f] # "ok" \/ contended

\* A memory that was told of and not evicted is a row of its file.
MemoriesAreRows == \A f \in File : \A m \in told[f] \ evicted : m \in Mems(rows[f])

FileInv ==
    Shape /\ RecoveryIsAlone /\ ToldIsMade /\ FilesAreExplained

Invariant == FileInv /\ MemoriesAreRows

-----------------------------------------------------------------------------

\* p goes to a place with a connection to a file that was made, the others stay.
Goes(p, places) ==
    /\ op' = [q \in Proc |-> op'[q]]
    /\ \A q \in Proc \ {p} : op'[q] = op[q]
    /\ {"pc", "fd"} \subseteq DOMAIN op'[p] /\ op'[p].fd \in 0..made'
    /\ op'[p].pc \in places

\* What the record of an operation is after its place was set.
LEMMA PlaceSet ==
    ASSUME NEW o, {"pc", "fd"} \subseteq DOMAIN o, NEW v
    PROVE  /\ {"pc", "fd"} \subseteq DOMAIN [o EXCEPT !.pc = v]
           /\ [o EXCEPT !.pc = v].pc = v /\ [o EXCEPT !.pc = v].fd = o.fd
OBVIOUS

LEMMA IdleShape == {"pc", "fd"} \subseteq DOMAIN Idle /\ Idle.pc = "idle" /\ Idle.fd = 0
BY DEF Idle

\* p goes where its record is set to.
LEMMA GoesTo ==
    ASSUME Shape, NEW p \in Proc, NEW o, op' = [op EXCEPT ![p] = o],
           {"pc", "fd"} \subseteq DOMAIN o, o.fd \in 0..made'
    PROVE  Goes(p, {o.pc})
BY DEF Shape, Goes

\* A connection is to the file that is at the path, or to the one just made there.
LEMMA ConnectedStep ==
    ASSUME Shape, NEW p \in Proc, NEW o, {"pc", "fd"} \subseteq DOMAIN o, Connected(p, o)
    PROVE  /\ Goes(p, {"insert", "select"})
           /\ \/ UNCHANGED <<db, made>>
              \/ db = 0 /\ made' \in 0..MaxFiles /\ made' = made + 1 /\ db' = made'
           /\ UNCHANGED <<corrupt, rows, health, histories>>
<1>1. /\ \/ db # 0 /\ UNCHANGED <<db, made>>
         \/ db = 0 /\ made' \in 0..MaxFiles /\ made' = made + 1 /\ db' = made'
      /\ db' \in 0..made' /\ UNCHANGED <<corrupt, rows, health, histories>>
  BY MemoryStoreAssumption DEF Shape, Connected
<1>2. CASE o.todo = "insert"
  <2> DEFINE new == [o EXCEPT !.pc = "insert", !.fd = db', !.now = clock + 1, !.mem = clock + 1]
  <2>1. {"pc", "fd"} \subseteq DOMAIN new /\ new.pc = "insert" /\ new.fd = db'
    OBVIOUS
  <2>2. op' = [op EXCEPT ![p] = new]
    BY <1>2 DEF Connected
  <2> HIDE DEF new
  <2>3. Goes(p, {new.pc})
    BY <1>1, <2>1, <2>2, GoesTo
  <2> QED BY <1>1, <2>1, <2>3 DEF Goes
<1>3. CASE o.todo # "insert"
  <2> DEFINE new == [o EXCEPT !.pc = "select", !.fd = db']
  <2>1. {"pc", "fd"} \subseteq DOMAIN new /\ new.pc = "select" /\ new.fd = db'
    OBVIOUS
  <2>2. op' = [op EXCEPT ![p] = new]
    BY <1>3 DEF Connected
  <2> HIDE DEF new
  <2>3. Goes(p, {new.pc})
    BY <1>1, <2>1, <2>2, GoesTo
  <2> QED BY <1>1, <2>1, <2>3 DEF Goes
<1> QED BY <1>1, <1>2, <1>3

\* The places of an operation with an open connection, and "idle".
Connecteds == {"idle", "insert", "count", "rank", "delete", "select", "update"}

\* A step of p that touches only rows and what was told of them keeps the files.
LEMMA RowStep ==
    ASSUME FileInv, NEW p \in Proc, Goes(p, Connecteds),
           UNCHANGED <<db, corrupt, made, health, contended>>,
           rows' = [f \in File |-> rows'[f]], told' = [f \in File |-> told'[f]],
           ToldIsMade'
    PROVE  FileInv'
<1>1. \A q \in Proc : Recovering(q)' => Recovering(q) /\ q # p
  BY DEF Goes, Connecteds, Recovering
<1>2. Shape'
  BY DEF FileInv, Shape, Goes
<1>3. RecoveryIsAlone'
  BY <1>1 DEF FileInv, RecoveryIsAlone
<1>4. FilesAreExplained'
  BY DEF FileInv, FilesAreExplained
<1> QED BY <1>2, <1>3, <1>4 DEF FileInv

\* An INSERT adds the memory to the file and to what was told of it, at once.
LEMMA InsertStep ==
    ASSUME Invariant, NEW p \in Proc, Insert(p)
    PROVE  Invariant'
<1> DEFINE f == op[p].fd
           row == [id |-> Max({0} \cup Ids(rows[f])) + 1, mem |-> op[p].mem,
                   last |-> op[p].now, uses |-> 0]
           new == [op[p] EXCEPT !.pc = "count"]
<1>1. /\ rows' = [rows EXCEPT ![f] = rows[f] \cup {row}]
      /\ told' = [told EXCEPT ![f] = told[f] \cup {op[p].mem}]
      /\ op' = [op EXCEPT ![p] = new]
      /\ UNCHANGED <<db, corrupt, made, health, evicted, contended>>
  BY DEF Insert
<1>2. row.mem = op[p].mem
  OBVIOUS
<1>3. {"pc", "fd"} \subseteq DOMAIN new /\ new.pc = "count" /\ new.fd = f /\ f \in 0..made
      /\ made \in 0..MaxFiles
  BY PlaceSet DEF Invariant, FileInv, Shape
<1> HIDE DEF row, new, f
<1>4. Shape
  BY DEF Invariant, FileInv
<1>5. Goes(p, {new.pc})
  BY <1>1, <1>3, <1>4, GoesTo
<1>6. Goes(p, Connecteds)
  BY <1>3, <1>5 DEF Goes, Connecteds
<1>7. /\ rows' = [g \in File |-> rows'[g]] /\ told' = [g \in File |-> told'[g]]
      /\ \A g \in File : \/ rows'[g] = rows[g] /\ told'[g] = told[g]
                         \/ /\ rows'[g] = rows[g] \cup {row} /\ g = f
                            /\ told'[g] = told[g] \cup {op[p].mem}
  BY <1>1, <1>4 DEF Shape
<1>8. ToldIsMade'
  BY <1>1, <1>3, <1>7 DEF Invariant, FileInv, ToldIsMade, File
<1>9. FileInv'
  BY <1>1, <1>6, <1>7, <1>8, RowStep DEF Invariant
<1>10. MemoriesAreRows'
  <2> SUFFICES ASSUME NEW g \in File, NEW m \in told'[g], m \notin evicted
               PROVE  \E r \in rows'[g] : r.mem = m
    BY <1>1 DEF MemoriesAreRows, Mems
  <2>1. CASE m \in told[g]
    <3>1. PICK r \in rows[g] : r.mem = m
      BY <2>1 DEF Invariant, MemoriesAreRows, Mems
    <3> QED BY <1>7, <3>1
  <2>2. CASE m \notin told[g]
    BY <1>2, <1>7, <2>2
  <2> QED BY <2>1, <2>2
<1> QED BY <1>9, <1>10 DEF Invariant

\* A DELETE evicts the memories of the rows it takes away.
LEMMA DeleteStep ==
    ASSUME Invariant, NEW p \in Proc, Delete(p)
    PROVE  Invariant'
<1> DEFINE f == op[p].fd
           gone == {r \in rows[f] : r.id \in Ids(op[p].seen)}
<1>1. /\ rows' = [rows EXCEPT ![f] = rows[f] \ gone]
      /\ evicted' = evicted \cup Mems(gone)
      /\ op' = [op EXCEPT ![p] = Idle]
      /\ UNCHANGED <<db, corrupt, made, health, told, contended>>
  BY DEF Delete
<1> HIDE DEF gone, f
<1>2. Shape
  BY DEF Invariant, FileInv
<1>3. 0 \in 0..made'
  BY <1>1, <1>2 DEF Shape
<1>4. Goes(p, Connecteds)
  BY <1>1, <1>2, <1>3, GoesTo, IdleShape DEF Goes, Connecteds
<1>5. /\ rows' = [g \in File |-> rows'[g]] /\ told' = [g \in File |-> told'[g]]
      /\ \A g \in File : rows'[g] \in {rows[g], rows[g] \ gone}
  BY <1>1, <1>2 DEF Shape
<1>6. FileInv'
  BY <1>1, <1>4, <1>5, RowStep DEF Invariant, FileInv, ToldIsMade
<1>7. MemoriesAreRows'
  <2> SUFFICES ASSUME NEW g \in File, NEW m \in told[g], m \notin evicted'
               PROVE  \E r \in rows'[g] : r.mem = m
    BY <1>1 DEF MemoriesAreRows, Mems
  <2>1. PICK r \in rows[g] : r.mem = m
    BY <1>1 DEF Invariant, MemoriesAreRows, Mems
  <2>2. r \notin gone
    BY <1>1, <2>1 DEF Mems
  <2> QED BY <1>5, <2>1, <2>2
<1> QED BY <1>6, <1>7 DEF Invariant

\* An UPDATE changes when and how often a memory was recalled, not which it is.
LEMMA UpdateStep ==
    ASSUME Invariant, NEW p \in Proc, Update(p)
    PROVE  Invariant'
<1> DEFINE f == op[p].fd
           Now(r, top) == IF r.id \in top THEN Reinforced(r, op[p].now) ELSE r
<1>1. PICK top \in Top(op[p].seen) :
         rows' = [rows EXCEPT ![f] = {Now(r, top) : r \in rows[f]}]
  BY DEF Update
<1>2. /\ op' = [op EXCEPT ![p] = Idle]
      /\ UNCHANGED <<db, corrupt, made, health, told, evicted, contended>>
  BY DEF Update, histories
<1>3. \A r : Now(r, top).mem = r.mem
  BY DEF Reinforced
<1> HIDE DEF Now, f
<1>4. Shape
  BY DEF Invariant, FileInv
<1>5. 0 \in 0..made'
  BY <1>2, <1>4 DEF Shape
<1>6. Goes(p, Connecteds)
  BY <1>2, <1>4, <1>5, GoesTo, IdleShape DEF Goes, Connecteds
<1>7. /\ rows' = [g \in File |-> rows'[g]] /\ told' = [g \in File |-> told'[g]]
      /\ \A g \in File : \/ rows'[g] = rows[g]
                         \/ rows'[g] = {Now(r, top) : r \in rows[g]}
  BY <1>1, <1>2, <1>4 DEF Shape
<1>8. FileInv'
  BY <1>2, <1>6, <1>7, RowStep DEF Invariant, FileInv, ToldIsMade
<1>9. MemoriesAreRows'
  <2> SUFFICES ASSUME NEW g \in File, NEW m \in told[g], m \notin evicted
               PROVE  \E r \in rows'[g] : r.mem = m
    BY <1>2 DEF MemoriesAreRows, Mems
  <2>1. PICK r \in rows[g] : r.mem = m
    BY DEF Invariant, MemoriesAreRows, Mems
  <2> QED BY <1>3, <1>7, <2>1
<1> QED BY <1>8, <1>9 DEF Invariant

\* A step that touches only the operation of p, and perhaps times, keeps everything.
LEMMA QuietStep ==
    ASSUME Invariant, NEW p \in Proc, Goes(p, Connecteds),
           UNCHANGED <<db, corrupt, made, rows, health, told, evicted, contended>>
    PROVE  Invariant'
<1>1. rows' = [f \in File |-> rows'[f]] /\ told' = [f \in File |-> told'[f]]
  BY DEF Invariant, FileInv, Shape
<1>2. FileInv'
  BY <1>1, RowStep DEF Invariant, FileInv, ToldIsMade
<1> QED BY <1>2 DEF Invariant, MemoriesAreRows

\* A SELECT, and the end of an operation by an error, are such steps.
LEMMA ReadStep ==
    ASSUME Invariant, NEW p \in Proc, Count(p) \/ Rank(p) \/ Select(p) \/ Abort(p)
    PROVE  Invariant'
<1>1. Shape
  BY DEF Invariant, FileInv
<1>2. UNCHANGED <<db, corrupt, made, rows, health, told, evicted, contended>>
  BY DEF Count, Rank, Select, Abort, histories
<1>3. {"pc", "fd"} \subseteq DOMAIN op[p] /\ op[p].fd \in 0..made' /\ 0 \in 0..made'
  BY <1>1, <1>2 DEF Shape
<1>4. \E o : /\ op' = [op EXCEPT ![p] = o]
             /\ {"pc", "fd"} \subseteq DOMAIN o /\ o.fd \in 0..made' /\ o.pc \in Connecteds
  <2>1. CASE op' = [op EXCEPT ![p] = Idle]
    BY <1>3, <2>1, IdleShape DEF Connecteds
  <2>2. CASE Count(p) /\ op' = [op EXCEPT ![p].pc = "rank"]
    <3> DEFINE o == [op[p] EXCEPT !.pc = "rank"]
    <3>1. {"pc", "fd"} \subseteq DOMAIN o /\ o.pc = "rank" /\ o.fd = op[p].fd
      BY <1>3, PlaceSet
    <3>2. op' = [op EXCEPT ![p] = o]
      BY <2>2
    <3> QED BY <1>3, <3>1, <3>2 DEF Connecteds
  <2>3. CASE Rank(p)
    <3>1. PICK t : op' = [op EXCEPT ![p].pc = "delete", ![p].seen = t,
                                    ![p].swept = unswept \cap Mems(rows[op[p].fd])]
      BY <2>3 DEF Rank
    <3> DEFINE o == [op[p] EXCEPT !.pc = "delete", !.seen = t,
                                  !.swept = unswept \cap Mems(rows[op[p].fd])]
    <3>2. {"pc", "fd"} \subseteq DOMAIN o /\ o.pc = "delete" /\ o.fd = op[p].fd
      BY <1>3
    <3>3. op' = [op EXCEPT ![p] = o]
      BY <1>1, <3>1 DEF Shape
    <3> QED BY <1>3, <3>2, <3>3 DEF Connecteds
  <2>4. CASE Select(p) /\ rows[op[p].fd] # {}
    <3> DEFINE o == [op[p] EXCEPT !.pc = "update", !.seen = rows[op[p].fd], !.now = clock + 1]
    <3>1. {"pc", "fd"} \subseteq DOMAIN o /\ o.pc = "update" /\ o.fd = op[p].fd
      BY <1>3
    <3>2. op' = [op EXCEPT ![p] = o]
      BY <2>4 DEF Select
    <3> QED BY <1>3, <3>1, <3>2 DEF Connecteds
  <2>5. Count(p) => op' = [op EXCEPT ![p] = Idle] \/ op' = [op EXCEPT ![p].pc = "rank"]
    BY DEF Count
  <2>6. Select(p) /\ rows[op[p].fd] = {} => op' = [op EXCEPT ![p] = Idle]
    BY DEF Select
  <2>7. Abort(p) => op' = [op EXCEPT ![p] = Idle]
    BY DEF Abort
  <2> QED BY <2>1, <2>2, <2>3, <2>4, <2>5, <2>6, <2>7
<1>5. Goes(p, Connecteds)
  BY <1>1, <1>4, GoesTo DEF Goes
<1> QED BY <1>2, <1>5, QuietStep

\* An open, or a reopen after a recovery, makes a file only where there is none.
LEMMA OpenStep ==
    ASSUME Invariant, NEW p \in Proc, Open(p) \/ Reopen(p)
    PROVE  Invariant'
<1>1. Shape
  BY DEF Invariant, FileInv
<1>2. \E o : {"pc", "fd"} \subseteq DOMAIN o /\ Connected(p, o)
  <2>1. CASE Open(p)
    <3>1. PICK todo \in {"insert", "select"} : Connected(p, [Idle EXCEPT !.todo = todo])
      BY <2>1 DEF Open
    <3> QED BY <3>1, IdleShape
  <2>2. CASE Reopen(p)
    BY <1>1, <2>2 DEF Reopen, Shape
  <2> QED BY <2>1, <2>2
<1>3. /\ Goes(p, {"insert", "select"})
      /\ \/ UNCHANGED <<db, made>>
         \/ db = 0 /\ made' \in 0..MaxFiles /\ made' = made + 1 /\ db' = made'
      /\ UNCHANGED <<corrupt, rows, health, told, evicted, contended>>
  BY <1>1, <1>2, ConnectedStep DEF histories
<1>4. CASE UNCHANGED <<db, made>>
  <2>1. Goes(p, Connecteds)
    BY <1>3 DEF Goes, Connecteds
  <2> QED BY <1>3, <1>4, <2>1, QuietStep
<1>5. CASE db = 0 /\ made' \in 0..MaxFiles /\ made' = made + 1 /\ db' = made'
  <2>1. Shape'
    BY <1>1, <1>3, <1>5 DEF Shape, Goes
  <2>2. RecoveryIsAlone'
    <3>1. contended \/ \A q \in Proc : ~Recovering(q)
      BY <1>5 DEF Invariant, FileInv, RecoveryIsAlone
    <3>2. \A q \in Proc : Recovering(q)' => Recovering(q)
      BY <1>3 DEF Goes, Recovering
    <3> QED BY <1>3, <3>1, <3>2 DEF RecoveryIsAlone
  <2>3. ToldIsMade'
    BY <1>1, <1>3, <1>5 DEF Invariant, FileInv, ToldIsMade, Shape, File
  <2>4. FilesAreExplained'
    BY <1>1, <1>3, <1>5 DEF Invariant, FileInv, FilesAreExplained, Shape
  <2>5. MemoriesAreRows'
    BY <1>3 DEF Invariant, MemoriesAreRows
  <2> QED BY <2>1, <2>2, <2>3, <2>4, <2>5 DEF Invariant, FileInv
<1> QED BY <1>3, <1>4, <1>5

\* Only a damaged header begins a recovery; that another is under way is noted.
LEMMA OpenCorruptStep ==
    ASSUME Invariant, NEW p \in Proc, OpenCorrupt(p)
    PROVE  Invariant'
<1>1. Shape
  BY DEF Invariant, FileInv
<1>2. /\ db # 0 /\ health[db] = "header"
      /\ contended' = (contended \/ \E q \in Proc \ {p} : Recovering(q))
      /\ UNCHANGED <<db, corrupt, made, rows, health, told, evicted>>
  BY DEF OpenCorrupt, Recovering
<1>3. PICK todo \in {"insert", "select"} :
         op' = [op EXCEPT ![p] = [Idle EXCEPT !.pc = "recover", !.todo = todo]]
  BY DEF OpenCorrupt
<1> DEFINE o == [Idle EXCEPT !.pc = "recover", !.todo = todo]
<1>4. {"pc", "fd"} \subseteq DOMAIN o /\ o.pc = "recover" /\ o.fd = 0
  BY IdleShape
<1>5. Goes(p, {"recover"})
  <2>1. op' = [op EXCEPT ![p] = o] /\ o.fd \in 0..made'
    BY <1>1, <1>2, <1>3, <1>4 DEF Shape
  <2> HIDE DEF o
  <2>2. Goes(p, {o.pc})
    BY <1>1, <1>4, <2>1, GoesTo
  <2> QED BY <1>4, <2>2
<1> HIDE DEF o
<1>6. Shape'
  BY <1>1, <1>2, <1>5 DEF Shape, Goes
<1>7. RecoveryIsAlone'
  BY <1>2, <1>5 DEF Invariant, FileInv, RecoveryIsAlone, Goes, Recovering
<1>8. contended => contended'
  BY <1>2
<1>9. ToldIsMade' /\ FilesAreExplained' /\ MemoriesAreRows'
  BY <1>2, <1>8 DEF Invariant, FileInv, ToldIsMade, FilesAreExplained, MemoriesAreRows
<1> QED BY <1>6, <1>7, <1>9 DEF Invariant, FileInv

\* A recovery sets aside what is at the path, which is damaged unless another one came
\* between.
LEMMA RecoverStep ==
    ASSUME Invariant, NEW p \in Proc, Recover(p)
    PROVE  Invariant'
<1>1. Shape
  BY DEF Invariant, FileInv
<1>2. /\ Recovering(p)
      /\ \/ db = 0 /\ UNCHANGED <<db, corrupt>>
         \/ db # 0 /\ corrupt' = db /\ db' = 0
      /\ op' = [op EXCEPT ![p].pc = "reopen"]
      /\ UNCHANGED <<made, rows, health, told, evicted, contended>>
  BY DEF Recover, Recovering, histories
<1> DEFINE o == [op[p] EXCEPT !.pc = "reopen"]
<1>3. {"pc", "fd"} \subseteq DOMAIN o /\ o.pc = "reopen" /\ o.fd \in 0..made'
  BY <1>1, <1>2, PlaceSet DEF Shape
<1>4. op' = [op EXCEPT ![p] = o]
  BY <1>2
<1> HIDE DEF o
<1>5. Goes(p, {"reopen"})
  BY <1>1, <1>3, <1>4, GoesTo DEF Goes
<1>6. Shape'
  BY <1>1, <1>2, <1>5 DEF Shape, Goes
<1>7. \A q \in Proc : Recovering(q)' => Recovering(q) /\ q # p
  BY <1>5 DEF Goes, Recovering
<1>8. contended \/ (db # 0 /\ health[db] = "header" /\ \A q \in Proc : ~Recovering(q)')
  BY <1>2, <1>7 DEF Invariant, FileInv, RecoveryIsAlone
<1>9. RecoveryIsAlone'
  BY <1>2, <1>8 DEF RecoveryIsAlone
<1>10. FilesAreExplained'
  BY <1>1, <1>2, <1>8 DEF Invariant, FileInv, FilesAreExplained, Shape
<1>11. ToldIsMade' /\ MemoriesAreRows'
  BY <1>2 DEF Invariant, FileInv, ToldIsMade, MemoriesAreRows
<1> QED BY <1>6, <1>9, <1>10, <1>11 DEF Invariant, FileInv

\* The yank of the drive ends all operations and may damage the file at the path.
LEMMA YankStep ==
    ASSUME Invariant, Yank
    PROVE  Invariant'
<1>1. Shape
  BY DEF Invariant, FileInv
<1>2. PICK h \in {"ok", "header", "page"} : health' = [health EXCEPT ![db] = h]
  BY DEF Yank
<1>3. /\ db # 0 /\ health[db] = "ok"
      /\ op' = [p \in Proc |-> Idle]
      /\ UNCHANGED <<db, corrupt, made, rows, told, evicted, contended>>
  BY DEF Yank
<1>4. Shape'
  <2>1. 0 \in 0..made
    BY <1>1 DEF Shape
  <2>2. health' \in [File -> {"ok", "header", "page"}]
    BY <1>1, <1>2 DEF Shape
  <2> QED BY <1>1, <1>3, <2>1, <2>2, IdleShape DEF Shape
<1>5. RecoveryIsAlone'
  BY <1>3, IdleShape DEF RecoveryIsAlone, Recovering
<1>6. \A f \in 1..made : f \in File /\ (f # db => health'[f] = health[f])
                         /\ (health'[f] = "ok" => health[f] = "ok")
  <2>1. 1..made \subseteq File
    BY <1>1, MemoryStoreAssumption DEF Shape, File
  <2>2. health \in [File -> {"ok", "header", "page"}]
    BY <1>1 DEF Shape
  <2>3. \A f \in File : (f # db => health'[f] = health[f])
                        /\ (health'[f] = "ok" => health[f] = "ok")
    BY <1>2, <1>3, <2>2
  <2> QED BY <2>1, <2>3
<1>7. FilesAreExplained'
  <2> SUFFICES ASSUME NEW f \in 1..made, f # db, ~contended
               PROVE  health'[f] # "ok"
    BY <1>3 DEF FilesAreExplained
  <2> QED BY <1>6 DEF Invariant, FileInv, FilesAreExplained
<1>8. ToldIsMade' /\ MemoriesAreRows'
  BY <1>3 DEF Invariant, FileInv, ToldIsMade, MemoriesAreRows
<1> QED BY <1>4, <1>5, <1>7, <1>8 DEF Invariant, FileInv

-----------------------------------------------------------------------------

\* There is no file and nobody works on one.
LEMMA InitInvariant == Init => Invariant
<1> SUFFICES ASSUME Init PROVE Invariant
  OBVIOUS
<1>1. Shape
  <2>1. made \in 0..MaxFiles /\ db \in 0..made /\ corrupt \in 0..made
    BY MemoryStoreAssumption DEF Init
  <2>2. health \in [File -> {"ok", "header", "page"}]
    BY DEF Init
  <2> QED BY <2>1, <2>2, IdleShape DEF Init, Shape
<1>2. RecoveryIsAlone
  BY IdleShape DEF Init, RecoveryIsAlone, Recovering
<1>3. ToldIsMade /\ FilesAreExplained /\ MemoriesAreRows
  BY DEF Init, ToldIsMade, FilesAreExplained, MemoriesAreRows, File
<1> QED BY <1>1, <1>2, <1>3 DEF Invariant, FileInv

\* Whatever the processes of memory.py do at once, and whatever is yanked, the files are
\* accounted for.
THEOREM StoreInvariant == Spec => []Invariant
<1>1. ASSUME Invariant, [Next]_vars PROVE Invariant'
  <2>1. CASE Yank
    BY <1>1, <2>1, YankStep
  <2>2. ASSUME NEW p \in Proc, Step(p) PROVE Invariant'
    BY <1>1, <2>2, OpenStep, OpenCorruptStep, RecoverStep, InsertStep, ReadStep,
       DeleteStep, UpdateStep DEF Step
  <2>3. CASE UNCHANGED vars
    BY <1>1, <2>3
    DEF vars, Invariant, FileInv, Shape, RecoveryIsAlone, Recovering, ToldIsMade,
        FilesAreExplained, MemoriesAreRows
  <2> QED BY <1>1, <2>1, <2>2, <2>3 DEF Next
<1> QED BY InitInvariant, <1>1, PTL DEF Spec

\* What remember() has committed is lost only by an eviction, a damage or two recoveries
\* at once, for every cap, number of processes and order of their transactions.
THEOREM LossesAreExplained == Spec => []LossIsExplained
<1>1. ASSUME Invariant PROVE LossIsExplained
  <2> SUFFICES ASSUME NEW f \in File, NEW m \in told[f] \ evicted
               PROVE  m \in Mems(rows[f]) /\ (f = db \/ health[f] # "ok" \/ contended)
    BY DEF LossIsExplained
  <2>1. f \in 1..made
    BY <1>1 DEF Invariant, FileInv, ToldIsMade, Shape, File
  <2> QED BY <1>1, <2>1 DEF Invariant, FileInv, FilesAreExplained, MemoriesAreRows
<1> QED BY StoreInvariant, <1>1, PTL

-----------------------------------------------------------------------------
(***************************************************************************)
(* The rows, the memories they hold and the operations at work on them.    *)
(***************************************************************************)

\* The types, with the domains of the functions.
StoreTypes ==
    /\ op \in [Proc -> Op]
    /\ rows \in [File -> SUBSET Row]
    /\ clock \in 0..MaxClock
    /\ told \in [File -> SUBSET (1..clock)]
    /\ contended \in BOOLEAN /\ recycled \in BOOLEAN
    /\ evicted \cup unswept \subseteq UNION {told[f] : f \in File}
    /\ \A p \in Proc : op[p].pc \notin {"idle", "recover", "reopen"} => op[p].fd \in 1..made

\* A row is of a memory that was told of, of one only, and its id is no larger than the
\* number of memories the file was told; a memory is told to one file.
RowsAreTold ==
    \A f \in File :
        /\ \A r \in rows[f] : r.mem \in told[f] /\ r.id <= Cardinality(told[f])
        /\ \A r, s \in rows[f] : r.id = s.id \/ r.mem = s.mem => r = s
        /\ \A g \in File, m \in told[f] : m \in told[g] => f = g

\* p is in a remember() that has its memory.
Remembering(p) == op[p].pc \in {"insert", "count", "rank", "delete"}

\* The memory of a remember() is its own, it is told once inserted, and nobody counts on
\* another consolidation for it.
OwnMemory ==
    \A p \in Proc : Remembering(p) =>
        /\ op[p].mem \in 1..clock /\ op[p].mem \notin unswept
        /\ op[p].pc = "insert" => \A f \in File : op[p].mem \notin told[f]
        /\ op[p].pc # "insert" => op[p].mem \in told[op[p].fd]
        /\ \A q \in Proc \ {p} : Remembering(q) => op[p].mem # op[q].mem
        /\ \A q \in Proc : op[q].pc = "delete" => op[p].mem \notin op[q].swept

\* A consolidation sweeps memories of its file.
SweptIsTold ==
    \A p \in Proc : op[p].pc = "delete" => op[p].swept \subseteq told[op[p].fd]

\* A row that a search has read is still told of, and as long as no id is given out
\* again it is still of the same memory.
SeenIsKnown ==
    \A p \in Proc : op[p].pc = "update" =>
        \A x \in op[p].seen :
            /\ x.id <= Cardinality(told[op[p].fd])
            /\ ~recycled => \A r \in rows[op[p].fd] : x.id = r.id => x.mem = r.mem

SharedInv == StoreTypes /\ RowsAreTold /\ OwnMemory /\ SweptIsTold /\ SeenIsKnown

-----------------------------------------------------------------------------

\* An operation has its fields.
LEMMA OpTypes ==
    ASSUME NEW o \in Op
    PROVE  /\ o.pc \in {"idle", "recover", "reopen", "insert", "count", "rank", "delete",
                        "select", "update"}
           /\ o.todo \in {"insert", "select"} /\ o.fd \in 0..MaxFiles /\ o.now \in Nat
           /\ o.mem \in Nat /\ o.seen \subseteq Row /\ o.swept \subseteq Nat
BY DEF Op

LEMMA IdleType == Idle \in Op
BY MemoryStoreAssumption DEF Idle, Op

\* The memories told to a file are finitely many.
LEMMA ToldFinite ==
    ASSUME StoreTypes, NEW f \in File
    PROVE  IsFiniteSet(told[f]) /\ Cardinality(told[f]) \in Nat
<1>1. 1 \in Int /\ clock \in Int
  BY MemoryStoreAssumption DEF StoreTypes
<1>2. told[f] \in SUBSET (1..clock)
  BY DEF StoreTypes
<1> QED BY <1>1, <1>2, FS_Interval, FS_Subset, FS_CardinalityType

\* An operation past its opening has a connection to a file that was made.
LEMMA Connecting ==
    ASSUME Shape, SharedInv, NEW p \in Proc, op[p].pc \notin {"idle", "recover", "reopen"}
    PROVE  op[p].fd \in File /\ op[p].fd \in 1..made
<1>1. op[p].fd \in 1..made /\ made \in 0..MaxFiles /\ MaxFiles \in Nat
  BY MemoryStoreAssumption DEF Shape, SharedInv, StoreTypes
<1> QED BY <1>1 DEF File

\* Setting the operation of p.
LEMMA OpSet ==
    ASSUME StoreTypes, NEW p \in Proc, NEW o \in Op, op' = [op EXCEPT ![p] = o]
    PROVE  op' \in [Proc -> Op] /\ op'[p] = o /\ \A q \in Proc \ {p} : op'[q] = op[q]
BY DEF StoreTypes

\* What an operation may become without touching a row: it has no memory, or a new one,
\* or goes on with the one it has inserted; what it read for an UPDATE is all there is.
Becomes(p, o) ==
    /\ o.pc \notin {"idle", "recover", "reopen"} => o.fd \in 1..made'
    /\ \/ o.pc \notin {"insert", "count", "rank", "delete"}
       \/ o.pc = "insert" /\ o.mem = clock + 1 /\ clock' = clock + 1
       \/ /\ op[p].pc \in {"count", "rank"} /\ o.pc \in {"rank", "delete"}
          /\ o.mem = op[p].mem /\ o.fd = op[p].fd
          /\ o.pc = "delete" => o.swept \subseteq unswept \cap told[o.fd]
    /\ o.pc = "update" => o.seen = rows[o.fd]

\* Such a step keeps what is known of rows and memories.
LEMMA BecomesStep ==
    ASSUME Shape, SharedInv, NEW p \in Proc, NEW o \in Op, op' = [op EXCEPT ![p] = o],
           Becomes(p, o), made' \in {made, made + 1}, made' \in 0..MaxFiles,
           clock' \in {clock, clock + 1}, clock' \in 0..MaxClock, contended' \in BOOLEAN,
           UNCHANGED <<rows, told, evicted, unswept, recycled>>
    PROVE  SharedInv'
<1>1. op' \in [Proc -> Op] /\ op'[p] = o /\ \A q \in Proc \ {p} : op'[q] = op[q]
  BY OpSet DEF SharedInv
<1>2. made \in Nat /\ clock \in Nat /\ 1..made \subseteq File
  BY MemoryStoreAssumption DEF Shape, SharedInv, StoreTypes, File
<1>3. StoreTypes'
  <2>1. told' \in [File -> SUBSET (1..clock')]
    BY <1>2 DEF SharedInv, StoreTypes
  <2>2. \A q \in Proc : op'[q].pc \notin {"idle", "recover", "reopen"} => op'[q].fd \in 1..made'
    BY <1>1, <1>2 DEF SharedInv, StoreTypes, Becomes
  <2> QED BY <1>1, <2>1, <2>2 DEF SharedInv, StoreTypes
<1>4. RowsAreTold'
  BY DEF SharedInv, RowsAreTold
<1>5. SweptIsTold'
  BY <1>1 DEF SharedInv, SweptIsTold, Becomes
<1>6. SeenIsKnown'
  <2>1. o.pc = "update" => o.fd \in File /\ o.seen = rows[o.fd]
    BY <1>2, OpTypes DEF Becomes, File
  <2> QED BY <1>1, <2>1 DEF SharedInv, SeenIsKnown, RowsAreTold
<1>7. \A m \in unswept : m \in 1..clock
  BY DEF SharedInv, StoreTypes
<1>8. \A f \in File : \A m \in told[f] : m \in 1..clock
  BY DEF SharedInv, StoreTypes
<1>9. \A q \in Proc : op[q].pc = "delete" => \A m \in op[q].swept : m \in 1..clock
  <2> SUFFICES ASSUME NEW q \in Proc, op[q].pc = "delete", NEW m \in op[q].swept
               PROVE  m \in 1..clock
    OBVIOUS
  <2>1. op[q].fd \in File
    BY <1>2 DEF SharedInv, StoreTypes
  <2> QED BY <1>8, <2>1 DEF SharedInv, SweptIsTold
<1>10. OwnMemory'
  <2> SUFFICES ASSUME NEW q \in Proc, Remembering(q)'
               PROVE  /\ op'[q].mem \in 1..clock' /\ op'[q].mem \notin unswept
                      /\ op'[q].pc = "insert" => \A f \in File : op'[q].mem \notin told[f]
                      /\ op'[q].pc # "insert" => op'[q].mem \in told[op'[q].fd]
                      /\ \A v \in Proc \ {q} : Remembering(v)' => op'[q].mem # op'[v].mem
                      /\ \A v \in Proc : op'[v].pc = "delete" => op'[q].mem \notin op'[v].swept
    BY DEF OwnMemory
  <2>1. \A v \in Proc \ {p} : Remembering(v)' <=> Remembering(v)
    BY <1>1 DEF Remembering
  <2>2. \A v \in Proc : Remembering(v) => op[v].mem \in 1..clock
    BY DEF SharedInv, OwnMemory
  <2>3. CASE o.pc \notin {"insert", "count", "rank", "delete"}
    BY <1>1, <1>2, <2>1, <2>3 DEF Remembering, SharedInv, OwnMemory
  <2>4. CASE o.pc = "insert" /\ o.mem = clock + 1 /\ clock' = clock + 1
    <3>1. CASE q = p
      BY <1>1, <1>2, <1>7, <1>8, <1>9, <2>1, <2>2, <2>4, <3>1
    <3>2. CASE q # p
      BY <1>1, <1>2, <2>1, <2>2, <2>4, <3>2 DEF SharedInv, OwnMemory
    <3> QED BY <3>1, <3>2
  <2>5. CASE /\ op[p].pc \in {"count", "rank"} /\ o.pc \in {"rank", "delete"}
             /\ o.mem = op[p].mem /\ o.fd = op[p].fd
             /\ o.pc = "delete" => o.swept \subseteq unswept \cap told[o.fd]
    <3>1. \A v \in Proc : op'[v].mem = op[v].mem \/ ~Remembering(v)'
      BY <1>1, <2>5
    <3>2. Remembering(p) /\ op[p].pc # "insert"
      BY <2>5 DEF Remembering
    <3> QED BY <1>1, <1>2, <2>1, <2>5, <3>1, <3>2 DEF SharedInv, OwnMemory
  <2> QED BY <2>3, <2>4, <2>5 DEF Becomes
<1> QED BY <1>3, <1>4, <1>5, <1>6, <1>10 DEF SharedInv

\* The largest id of a file is at most the number of memories it was told.
LEMMA LargestId ==
    ASSUME SharedInv, NEW f \in File
    PROVE  /\ Max({0} \cup Ids(rows[f])) \in 0..Cardinality(told[f])
           /\ \A r \in rows[f] : r.id <= Max({0} \cup Ids(rows[f]))
<1> DEFINE S == {0} \cup Ids(rows[f])
           T == {n \in Nat : \A x \in S : x <= n}
<1>1. Cardinality(told[f]) \in Nat
  BY ToldFinite DEF SharedInv
<1>2. \A r \in rows[f] : r.id \in Nat /\ r.id <= Cardinality(told[f])
  BY DEF SharedInv, StoreTypes, RowsAreTold, Row
<1>3. S \subseteq Nat /\ \A x \in S : x <= Cardinality(told[f])
  BY <1>1, <1>2 DEF Ids
<1>4. Cardinality(told[f]) \in T /\ T \subseteq Nat
  BY <1>1, <1>3
<1>5. PICK n \in T : \A k \in T : ~(<<k, n>> \in OpToRel(<, Nat))
  BY <1>4, WFMin, NatLessThanWellFounded
<1>6. \A k \in T : ~(k < n)
  BY <1>4, <1>5 DEF OpToRel
<1>7. n \in S
  <2>1. CASE n = 0
    BY <2>1
  <2>2. CASE n # 0
    <3>1. n - 1 \in Nat /\ n - 1 < n
      BY <2>2
    <3>2. PICK x \in S : ~(x <= n - 1)
      BY <1>6, <3>1
    <3>3. x \in Nat /\ x <= n
      BY <1>3
    <3> QED BY <3>1, <3>2, <3>3
  <2> QED BY <2>1, <2>2
<1>8. n \in S /\ \A x \in S : n >= x
  BY <1>3, <1>7
<1> HIDE DEF S, T
<1>9. Max(S) \in S /\ \A x \in S : Max(S) >= x
  BY <1>8 DEF Max
<1>10. Max(S) \in Nat /\ Max(S) <= Cardinality(told[f]) /\ \A x \in S : x <= Max(S)
  BY <1>3, <1>9
<1>11. \A r \in rows[f] : r.id \in S
  BY DEF S, Ids
<1>12. Max({0} \cup Ids(rows[f])) = Max(S)
  BY DEF S
<1> QED BY <1>1, <1>10, <1>11, <1>12

\* An INSERT adds a row of a memory nobody was told of, under an id no row has.
LEMMA InsertKeeps ==
    ASSUME Shape, SharedInv, NEW p \in Proc, Insert(p)
    PROVE  SharedInv'
<1> DEFINE f == op[p].fd
           id == Max({0} \cup Ids(rows[f])) + 1
           row == [id |-> id, mem |-> op[p].mem, last |-> op[p].now, uses |-> 0]
           new == [op[p] EXCEPT !.pc = "count"]
<1>1. /\ op[p].pc = "insert" /\ op' = [op EXCEPT ![p] = new]
      /\ rows' = [rows EXCEPT ![f] = rows[f] \cup {row}]
      /\ told' = [told EXCEPT ![f] = told[f] \cup {op[p].mem}]
      /\ recycled' = (recycled \/ id <= Cardinality(told[f]))
      /\ UNCHANGED <<made, clock, contended, evicted, unswept>>
  BY DEF Insert
<1>2. op[p] \in Op /\ f \in 1..made /\ f \in File /\ made \in Nat /\ clock \in Nat
  BY <1>1, MemoryStoreAssumption DEF Shape, SharedInv, StoreTypes, File
<1>3. new \in Op /\ new.pc = "count" /\ new.fd = f /\ new.mem = op[p].mem
  BY <1>2 DEF Op
<1> DEFINE n == Cardinality(told[f])
<1>4. IsFiniteSet(told[f]) /\ n \in Nat
  BY <1>2, ToldFinite DEF SharedInv
<1>5. /\ id \in 1..n + 1 /\ \A r \in rows[f] : r.id < id
  <2>1. \A r \in rows[f] : r.id \in Nat
    BY <1>2 DEF SharedInv, StoreTypes, Row
  <2> DEFINE top == Max({0} \cup Ids(rows[f]))
  <2>2. top \in 0..n /\ \A r \in rows[f] : r.id <= top
    BY <1>2, LargestId
  <2>3. id = top + 1
    OBVIOUS
  <2> HIDE DEF n, top, id
  <2> QED BY <1>4, <2>1, <2>2, <2>3
<1>6. op[p].mem \in 1..clock /\ op[p].mem \notin unswept /\ \A g \in File : op[p].mem \notin told[g]
  BY <1>1 DEF SharedInv, OwnMemory, Remembering
<1>7. row \in Row /\ row.id = id /\ row.mem = op[p].mem
  BY <1>2, <1>5, OpTypes DEF Row
<1> HIDE DEF row, id, new, f
<1>8. op' \in [Proc -> Op] /\ op'[p] = new /\ \A q \in Proc \ {p} : op'[q] = op[q]
  BY <1>1, <1>3, OpSet DEF SharedInv
<1>9. /\ rows' \in [File -> SUBSET Row] /\ told' \in [File -> SUBSET (1..clock)]
      /\ rows'[f] = rows[f] \cup {row} /\ told'[f] = told[f] \cup {op[p].mem}
      /\ \A g \in File \ {f} : rows'[g] = rows[g] /\ told'[g] = told[g]
  BY <1>1, <1>2, <1>6, <1>7 DEF SharedInv, StoreTypes
<1>10. Cardinality(told'[f]) = n + 1
  BY <1>2, <1>4, <1>6, <1>9, FS_AddElement
<1> HIDE DEF n
<1>11. StoreTypes'
  <2>1. recycled' \in BOOLEAN
    BY ZenonT(30), <1>1
  <2>2. \A g \in File : told[g] \subseteq told'[g]
    BY <1>9
  <2>3. evicted' \cup unswept' \subseteq UNION {told'[g] : g \in File}
    BY <1>1, <2>2 DEF SharedInv, StoreTypes
  <2>4. \A q \in Proc : op'[q].pc \notin {"idle", "recover", "reopen"} => op'[q].fd \in 1..made'
    BY <1>1, <1>2, <1>3, <1>8 DEF SharedInv, StoreTypes
  <2> QED BY <1>1, <1>8, <1>9, <2>1, <2>3, <2>4 DEF SharedInv, StoreTypes
<1>12. RowsAreTold'
  <2> SUFFICES ASSUME NEW g \in File
               PROVE  /\ \A r \in rows'[g] : r.mem \in told'[g] /\ r.id <= Cardinality(told'[g])
                      /\ \A r, s \in rows'[g] : r.id = s.id \/ r.mem = s.mem => r = s
                      /\ \A h \in File, m \in told'[g] : m \in told'[h] => g = h
    BY DEF RowsAreTold
  <2>1. /\ \A r \in rows[g] : r.mem \in told[g] /\ r.id <= Cardinality(told[g]) /\ r.id \in Nat
        /\ \A r, s \in rows[g] : r.id = s.id \/ r.mem = s.mem => r = s
        /\ \A h \in File, m \in told[g] : m \in told[h] => g = h
    BY DEF SharedInv, RowsAreTold, StoreTypes, Row
  <2>2. \A h \in File, m \in told'[g] : m \in told'[h] => g = h
    BY <1>6, <1>9, <2>1
  <2>3. CASE g = f
    <3>1. ASSUME NEW r \in rows'[g] PROVE r.mem \in told'[g] /\ r.id <= Cardinality(told'[g])
      <4>1. CASE r \in rows[f]
        <5>1. r.mem \in told[f] /\ r.id <= n /\ r.id \in Nat
          BY <2>1, <2>3, <4>1 DEF n
        <5>2. r.mem \in told'[f] /\ r.id <= n + 1
          BY <1>4, <1>9, <5>1
        <5> QED BY <1>10, <2>3, <5>2
      <4>2. CASE r = row
        BY <1>4, <1>5, <1>7, <1>9, <1>10, <2>3, <4>2
      <4> QED BY <1>9, <2>3, <4>1, <4>2
    <3>2. \A r \in rows[f] : r.id # id /\ r.mem # op[p].mem
      BY <1>2, <1>5, <1>6, <2>1, <2>3
    <3>3. \A r, s \in rows'[g] : r.id = s.id \/ r.mem = s.mem => r = s
      BY <1>7, <1>9, <2>1, <2>3, <3>2
    <3> QED BY <2>2, <3>1, <3>3
  <2>4. CASE g # f
    BY <1>9, <2>1, <2>2, <2>4
  <2> QED BY <2>3, <2>4
<1>13. \A q \in Proc \ {p} : Remembering(q)' <=> Remembering(q)
  BY <1>8 DEF Remembering
<1>14. OwnMemory'
  <2> SUFFICES ASSUME NEW q \in Proc, Remembering(q)'
               PROVE  /\ op'[q].mem \in 1..clock /\ op'[q].mem \notin unswept
                      /\ op'[q].pc = "insert" => \A g \in File : op'[q].mem \notin told'[g]
                      /\ op'[q].pc # "insert" => op'[q].mem \in told'[op'[q].fd]
                      /\ \A v \in Proc \ {q} : Remembering(v)' => op'[q].mem # op'[v].mem
                      /\ \A v \in Proc : op'[v].pc = "delete" => op'[q].mem \notin op'[v].swept
    BY <1>1 DEF OwnMemory
  <2>1. Remembering(p) /\ \A v \in Proc : op'[v].mem = op[v].mem /\ op'[v].fd = op[v].fd
    BY <1>1, <1>3, <1>8 DEF Remembering, f
  <2>2. /\ op[q].mem \in 1..clock /\ op[q].mem \notin unswept
        /\ op[q].pc = "insert" => \A g \in File : op[q].mem \notin told[g]
        /\ op[q].pc # "insert" => op[q].mem \in told[op[q].fd]
        /\ \A v \in Proc \ {q} : Remembering(v) => op[q].mem # op[v].mem
        /\ \A v \in Proc : op[v].pc = "delete" => op[q].mem \notin op[v].swept
    BY <1>13, <2>1 DEF SharedInv, OwnMemory
  <2>3. \A v \in Proc : op'[v].pc = "delete" => op[v].pc = "delete" /\ op'[v] = op[v]
    BY <1>3, <1>8
  <2>4. \A v \in Proc \ {q} : Remembering(v)' => op'[q].mem # op'[v].mem
    BY <1>13, <2>1, <2>2
  <2>5. op'[q].pc = "insert" => \A g \in File : op'[q].mem \notin told'[g]
    BY <1>3, <1>8, <1>9, <2>1, <2>2
  <2>6. op'[q].pc # "insert" => op'[q].mem \in told'[op'[q].fd]
    <3>1. CASE q = p
      BY <1>3, <1>8, <1>9, <3>1
    <3>2. CASE q # p
      <4>1. op'[q] = op[q]
        BY <1>8, <3>2
      <4>2. op[q].pc # "insert" => op[q].fd \in File
        BY <1>13, <3>2, Connecting DEF Remembering
      <4> QED BY <1>9, <2>2, <4>1, <4>2
    <3> QED BY <3>1, <3>2
  <2> QED BY <2>1, <2>2, <2>3, <2>4, <2>5, <2>6
<1>15. SweptIsTold'
  <2> SUFFICES ASSUME NEW q \in Proc, op'[q].pc = "delete"
               PROVE  op'[q].swept \subseteq told'[op'[q].fd]
    BY DEF SweptIsTold
  <2>1. op'[q] = op[q] /\ op[q].fd \in File
    BY <1>3, <1>8, Connecting
  <2> QED BY <1>9, <2>1 DEF SharedInv, SweptIsTold
<1>16. SeenIsKnown'
  <2> SUFFICES ASSUME NEW q \in Proc, op'[q].pc = "update", NEW x \in op'[q].seen
               PROVE  /\ x.id <= Cardinality(told'[op'[q].fd])
                      /\ ~recycled' => \A r \in rows'[op'[q].fd] : x.id = r.id => x.mem = r.mem
    BY DEF SeenIsKnown
  <2>1. op'[q] = op[q] /\ op[q].fd \in File /\ x.id \in Nat
    <3>1. op'[q] = op[q] /\ op[q].fd \in File
      BY <1>3, <1>8, Connecting
    <3>2. x \in Row
      BY <3>1, OpTypes DEF SharedInv, StoreTypes
    <3> QED BY <3>1, <3>2 DEF Row
  <2>2. /\ x.id <= Cardinality(told[op[q].fd])
        /\ ~recycled => \A r \in rows[op[q].fd] : x.id = r.id => x.mem = r.mem
    BY <2>1 DEF SharedInv, SeenIsKnown
  <2>3. CASE op[q].fd = f
    <3>1. x.id <= n /\ (~recycled => \A r \in rows[f] : x.id = r.id => x.mem = r.mem)
      BY <2>2, <2>3 DEF n
    <3>2. ~recycled' => ~recycled /\ ~(id <= n)
      BY <1>1 DEF n
    <3>3. x.id <= n + 1 /\ (~recycled' => x.id # id)
      BY <1>4, <1>5, <2>1, <3>1, <3>2
    <3>4. ~recycled' => \A r \in rows'[f] : x.id = r.id => x.mem = r.mem
      BY <1>7, <1>9, <3>1, <3>2, <3>3
    <3> QED BY <1>10, <2>1, <2>3, <3>3, <3>4
  <2>4. CASE op[q].fd # f
    BY <1>1, <1>9, <2>1, <2>2, <2>4
  <2> QED BY <2>3, <2>4
<1> QED BY <1>11, <1>12, <1>14, <1>15, <1>16 DEF SharedInv

\* What an operation that ends leaves to the others, with rows that are told of, and
\* fewer memories swept or more that were cut short.
LEMMA EndsStep ==
    ASSUME Shape, SharedInv, NEW p \in Proc, op' = [op EXCEPT ![p] = Idle],
           rows' \in [File -> SUBSET Row], RowsAreTold',
           \A f \in File : \A r \in rows'[f] : \E s \in rows[f] : r.id = s.id /\ r.mem = s.mem,
           evicted' \subseteq UNION {told[f] : f \in File},
           unswept' \subseteq unswept \cup {op[p].mem},
           unswept' \subseteq unswept \/ op[p].pc \in {"count", "rank", "delete"},
           UNCHANGED <<made, clock, told, contended, recycled>>
    PROVE  SharedInv'
<1>1. op' \in [Proc -> Op] /\ op'[p].pc = "idle" /\ \A q \in Proc \ {p} : op'[q] = op[q]
  BY OpSet, IdleType, IdleShape DEF SharedInv
<1>2. StoreTypes'
  <2>1. unswept' \subseteq UNION {told[f] : f \in File}
    <3>1. CASE unswept' \subseteq unswept
      BY <3>1 DEF SharedInv, StoreTypes
    <3>2. CASE op[p].pc \in {"count", "rank", "delete"}
      <4>1. op[p].mem \in told[op[p].fd] /\ op[p].fd \in File
        BY <3>2, Connecting DEF SharedInv, OwnMemory, Remembering
      <4> QED BY <4>1 DEF SharedInv, StoreTypes
    <3> QED BY <3>1, <3>2
  <2>2. \A q \in Proc : op'[q].pc \notin {"idle", "recover", "reopen"} => op'[q].fd \in 1..made'
    BY <1>1 DEF SharedInv, StoreTypes
  <2> QED BY <1>1, <2>1, <2>2 DEF SharedInv, StoreTypes
<1>3. OwnMemory'
  <2> SUFFICES ASSUME NEW q \in Proc, Remembering(q)'
               PROVE  /\ op'[q].mem \in 1..clock /\ op'[q].mem \notin unswept'
                      /\ op'[q].pc = "insert" => \A f \in File : op'[q].mem \notin told[f]
                      /\ op'[q].pc # "insert" => op'[q].mem \in told[op'[q].fd]
                      /\ \A v \in Proc \ {q} : Remembering(v)' => op'[q].mem # op'[v].mem
                      /\ \A v \in Proc : op'[v].pc = "delete" => op'[q].mem \notin op'[v].swept
    BY DEF OwnMemory
  <2>1. q # p /\ Remembering(q) /\ op'[q] = op[q]
    BY <1>1 DEF Remembering
  <2>2. op[q].mem \notin unswept'
    <3>1. CASE unswept' \subseteq unswept
      BY <2>1, <3>1 DEF SharedInv, OwnMemory
    <3>2. CASE op[p].pc \in {"count", "rank", "delete"}
      <4>1. op[q].mem # op[p].mem /\ op[q].mem \notin unswept
        BY <2>1, <3>2 DEF SharedInv, OwnMemory, Remembering
      <4> QED BY <4>1
    <3> QED BY <3>1, <3>2
  <2>3. \A v \in Proc : op'[v].pc = "delete" => op[v].pc = "delete" /\ op'[v] = op[v]
    BY <1>1
  <2>4. \A v \in Proc : Remembering(v)' => Remembering(v) /\ op'[v] = op[v]
    BY <1>1 DEF Remembering
  <2> QED BY <2>1, <2>2, <2>3, <2>4 DEF SharedInv, OwnMemory
<1>4. SweptIsTold'
  BY <1>1 DEF SharedInv, SweptIsTold
<1>5. SeenIsKnown'
  <2> SUFFICES ASSUME NEW q \in Proc, op'[q].pc = "update", NEW x \in op'[q].seen
               PROVE  /\ x.id <= Cardinality(told[op'[q].fd])
                      /\ ~recycled => \A r \in rows'[op'[q].fd] : x.id = r.id => x.mem = r.mem
    BY DEF SeenIsKnown
  <2>1. op'[q] = op[q] /\ op[q].fd \in File
    BY <1>1, Connecting
  <2>2. /\ x.id <= Cardinality(told[op[q].fd])
        /\ ~recycled => \A r \in rows[op[q].fd] : x.id = r.id => x.mem = r.mem
    BY <2>1 DEF SharedInv, SeenIsKnown
  <2> QED BY <2>1, <2>2
<1> QED BY <1>2, <1>3, <1>4, <1>5 DEF SharedInv

\* A DELETE takes rows away, and the memories it swept from those that are owed one.
LEMMA DeleteKeeps ==
    ASSUME Shape, SharedInv, NEW p \in Proc, Delete(p)
    PROVE  SharedInv'
<1> DEFINE f == op[p].fd
           gone == {r \in rows[f] : r.id \in Ids(op[p].seen)}
<1>1. /\ op[p].pc = "delete" /\ op' = [op EXCEPT ![p] = Idle]
      /\ rows' = [rows EXCEPT ![f] = rows[f] \ gone]
      /\ evicted' = evicted \cup Mems(gone) /\ unswept' = unswept \ op[p].swept
      /\ UNCHANGED <<made, clock, told, contended, recycled>>
  BY DEF Delete
<1>2. f \in File /\ gone \subseteq rows[f]
  BY <1>1, Connecting
<1> HIDE DEF gone, f
<1>3. rows' \in [File -> SUBSET Row] /\ \A g \in File : rows'[g] \subseteq rows[g]
  BY <1>1, <1>2 DEF SharedInv, StoreTypes
<1>4. RowsAreTold'
  BY <1>1, <1>3 DEF SharedInv, RowsAreTold
<1>5. evicted' \subseteq UNION {told[g] : g \in File}
  <2>1. \A r \in gone : r.mem \in told[f]
    BY <1>2 DEF SharedInv, RowsAreTold
  <2>2. Mems(gone) \subseteq told[f]
    BY <2>1 DEF Mems
  <2> QED BY <1>1, <1>2, <2>2 DEF SharedInv, StoreTypes
<1>6. /\ unswept' \subseteq unswept \cup {op[p].mem}
      /\ unswept' \subseteq unswept \/ op[p].pc \in {"count", "rank", "delete"}
  BY <1>1
<1>7. \A g \in File : \A r \in rows'[g] : \E s \in rows[g] : r.id = s.id /\ r.mem = s.mem
  BY <1>3
<1>8. op' = [op EXCEPT ![p] = Idle] /\ UNCHANGED <<made, clock, told, contended, recycled>>
  BY <1>1
<1> QED BY <1>3, <1>4, <1>5, <1>6, <1>7, <1>8, EndsStep

\* The row that a reinforced one was.
LEMMA ReinforcedRow ==
    ASSUME NEW r \in Row, NEW now \in Nat
    PROVE  /\ Reinforced(r, now) \in Row /\ Reinforced(r, now).id = r.id
           /\ Reinforced(r, now).mem = r.mem /\ Reinforced(r, now).uses = r.uses + 1
<1>1. r.id \in Nat /\ r.mem \in Nat /\ r.uses \in Nat
  BY DEF Row
<1>2. DOMAIN r = {"id", "mem", "last", "uses"} /\ r = [k \in DOMAIN r |-> r[k]]
  BY DEF Row
<1> DEFINE s == Reinforced(r, now)
<1>3. /\ s = [k \in {"id", "mem", "last", "uses"} |-> s[k]]
      /\ s.id = r.id /\ s.mem = r.mem /\ s.last = now /\ s.uses = r.uses + 1
  BY <1>2 DEF Reinforced
<1> HIDE DEF s
<1>4. s = [id |-> s.id, mem |-> s.mem, last |-> s.last, uses |-> s.uses]
  BY <1>3
<1>5. s \in Row
  BY <1>1, <1>3, <1>4 DEF Row
<1> QED BY <1>3, <1>5 DEF s

\* An UPDATE leaves every row its id and its memory; it adds a use to those with an id
\* the search has read.
LEMMA Updated ==
    ASSUME StoreTypes, NEW p \in Proc, op[p].fd \in File, Update(p)
    PROVE  /\ rows' \in [File -> SUBSET Row] /\ \A g \in File \ {op[p].fd} : rows'[g] = rows[g]
           /\ \A s \in rows'[op[p].fd] :
                 \/ s \in rows[op[p].fd]
                 \/ \E r \in rows[op[p].fd], x \in op[p].seen :
                       x.id = r.id /\ s.id = r.id /\ s.mem = r.mem
           /\ \A r \in rows[op[p].fd] : \E s \in rows'[op[p].fd] : s.id = r.id
           /\ \A q, s \in rows'[op[p].fd] : \E r, t \in rows[op[p].fd] :
                 /\ q.id = r.id /\ q.mem = r.mem /\ s.id = t.id /\ s.mem = t.mem
                 /\ r = t => q = s
<1> DEFINE f == op[p].fd
           o == op[p]
           Now(r, top) == IF r.id \in top THEN Reinforced(r, o.now) ELSE r
<1>1. PICK top \in Top(o.seen) :
         rows' = [rows EXCEPT ![f] = {Now(r, top) : r \in rows[f]}]
  BY DEF Update
<1>2. o \in Op /\ o.now \in Nat /\ rows[f] \subseteq Row /\ rows \in [File -> SUBSET Row]
  BY OpTypes DEF StoreTypes
<1>3. \A r \in rows[f] : /\ Now(r, top) \in Row /\ Now(r, top).id = r.id
                         /\ Now(r, top).mem = r.mem
                         /\ Now(r, top) = r \/ \E x \in o.seen : x.id = r.id
  <2> SUFFICES ASSUME NEW r \in rows[f]
               PROVE  /\ Now(r, top) \in Row /\ Now(r, top).id = r.id
                      /\ Now(r, top).mem = r.mem
                      /\ Now(r, top) = r \/ \E x \in o.seen : x.id = r.id
    OBVIOUS
  <2>1. CASE r.id \in top
    <3>1. \E x \in o.seen : x.id = r.id
      BY <2>1 DEF Top, Ids
    <3> QED BY <1>2, <2>1, <3>1, ReinforcedRow
  <2>2. CASE r.id \notin top
    BY <1>2, <2>2
  <2> QED BY <2>1, <2>2
<1> HIDE DEF Now, o
<1>4. {Now(r, top) : r \in rows[f]} \in SUBSET Row
  BY <1>3
<1>5. /\ rows' \in [File -> SUBSET Row] /\ rows'[f] = {Now(r, top) : r \in rows[f]}
      /\ \A g \in File \ {f} : rows'[g] = rows[g]
  BY <1>1, <1>2, <1>4
<1>6. \A s \in rows'[f] : \E r \in rows[f] : s = Now(r, top)
  BY <1>5
<1>7. \A r \in rows[f] : Now(r, top) \in rows'[f]
  BY <1>5
<1> HIDE DEF f
<1>8. \A s \in rows'[f] : s \in rows[f] \/ \E r \in rows[f], x \in o.seen :
                             x.id = r.id /\ s.id = r.id /\ s.mem = r.mem
  BY <1>3, <1>6
<1>9. \A r \in rows[f] : \E s \in rows'[f] : s.id = r.id
  BY <1>3, <1>7
<1>10. \A q, s \in rows'[f] : \E r, t \in rows[f] :
          q.id = r.id /\ q.mem = r.mem /\ s.id = t.id /\ s.mem = t.mem /\ (r = t => q = s)
  <2> SUFFICES ASSUME NEW q \in rows'[f], NEW s \in rows'[f]
               PROVE  \E r, t \in rows[f] :
                         /\ q.id = r.id /\ q.mem = r.mem /\ s.id = t.id /\ s.mem = t.mem
                         /\ r = t => q = s
    OBVIOUS
  <2>1. PICK r \in rows[f] : q = Now(r, top)
    BY <1>6
  <2>2. PICK t \in rows[f] : s = Now(t, top)
    BY <1>6
  <2> QED BY <1>3, <2>1, <2>2
<1> QED BY <1>5, <1>8, <1>9, <1>10 DEF f, o

LEMMA UpdateKeeps ==
    ASSUME Shape, SharedInv, NEW p \in Proc, Update(p)
    PROVE  SharedInv'
<1> DEFINE f == op[p].fd
<1>1. /\ op[p].pc = "update" /\ op' = [op EXCEPT ![p] = Idle]
      /\ UNCHANGED <<made, clock, told, contended, recycled, evicted, unswept>>
  BY DEF Update, histories
<1>2. f \in File
  BY <1>1, Connecting
<1>3. /\ rows' \in [File -> SUBSET Row] /\ \A g \in File \ {f} : rows'[g] = rows[g]
      /\ \A q, s \in rows'[f] : \E r, t \in rows[f] :
            q.id = r.id /\ q.mem = r.mem /\ s.id = t.id /\ s.mem = t.mem /\ (r = t => q = s)
  BY <1>2, Updated DEF SharedInv
<1> HIDE DEF f
<1>4. \A g \in File : \A q, s \in rows'[g] : \E r, t \in rows[g] :
         q.id = r.id /\ q.mem = r.mem /\ s.id = t.id /\ s.mem = t.mem /\ (r = t => q = s)
  BY <1>3
<1>5. RowsAreTold'
  <2> SUFFICES ASSUME NEW g \in File
               PROVE  /\ \A r \in rows'[g] : r.mem \in told[g] /\ r.id <= Cardinality(told[g])
                      /\ \A q, s \in rows'[g] : q.id = s.id \/ q.mem = s.mem => q = s
                      /\ \A h \in File, m \in told[g] : m \in told[h] => g = h
    BY <1>1 DEF RowsAreTold
  <2>1. /\ \A r \in rows[g] : r.mem \in told[g] /\ r.id <= Cardinality(told[g])
        /\ \A r, t \in rows[g] : r.id = t.id \/ r.mem = t.mem => r = t
        /\ \A h \in File, m \in told[g] : m \in told[h] => g = h
    BY DEF SharedInv, RowsAreTold
  <2> QED BY <1>4, <2>1
<1>6. evicted' \subseteq UNION {told[g] : g \in File}
  BY <1>1 DEF SharedInv, StoreTypes
<1> QED BY <1>1, <1>3, <1>4, <1>5, <1>6, EndsStep

\* An operation that ends by an error leaves its rows.
LEMMA AbortKeeps ==
    ASSUME Shape, SharedInv, NEW p \in Proc, Abort(p)
    PROVE  SharedInv'
<1>1. /\ op' = [op EXCEPT ![p] = Idle]
      /\ unswept' = IF Consolidating(p) THEN unswept \cup {op[p].mem} ELSE unswept
      /\ UNCHANGED <<made, clock, told, contended, recycled, evicted, rows>>
  BY DEF Abort
<1>2. RowsAreTold' /\ rows' \in [File -> SUBSET Row]
  BY <1>1 DEF SharedInv, RowsAreTold, StoreTypes
<1>3. evicted' \subseteq UNION {told[f] : f \in File}
  BY <1>1 DEF SharedInv, StoreTypes
<1>4. /\ unswept' \subseteq unswept \cup {op[p].mem}
      /\ unswept' \subseteq unswept \/ op[p].pc \in {"count", "rank", "delete"}
  BY <1>1 DEF Consolidating
<1> QED BY <1>1, <1>2, <1>3, <1>4, EndsStep

\* A yank ends all operations at once.
LEMMA YankKeeps ==
    ASSUME Shape, SharedInv, Yank
    PROVE  SharedInv'
<1>1. /\ op' = [p \in Proc |-> Idle]
      /\ unswept' = unswept \cup {op[p].mem : p \in {q \in Proc : Consolidating(q)}}
      /\ UNCHANGED <<made, rows, clock, told, evicted, contended, recycled>>
  BY DEF Yank
<1>2. \A p \in Proc : op'[p] = Idle /\ op'[p].pc = "idle"
  BY <1>1, IdleShape
<1>3. \A p \in Proc : Consolidating(p) => op[p].fd \in File /\ op[p].mem \in told[op[p].fd]
  BY Connecting DEF Consolidating, SharedInv, OwnMemory, Remembering
<1>4. {op[p].mem : p \in {q \in Proc : Consolidating(q)}} \subseteq UNION {told[f] : f \in File}
  BY <1>3
<1>5. StoreTypes'
  <2>1. op' \in [Proc -> Op]
    BY <1>1, IdleType
  <2> QED BY <1>1, <1>2, <1>4, <2>1 DEF SharedInv, StoreTypes
<1>6. RowsAreTold'
  BY <1>1 DEF SharedInv, RowsAreTold
<1>7. OwnMemory' /\ SweptIsTold' /\ SeenIsKnown'
  BY <1>2 DEF OwnMemory, Remembering, SweptIsTold, SeenIsKnown
<1> QED BY <1>5, <1>6, <1>7 DEF SharedInv

\* The keys of an operation.
Fields == {"pc", "todo", "fd", "now", "mem", "seen", "swept"}

\* An operation has its fields and no other.
LEMMA OpFields ==
    ASSUME NEW o \in Op
    PROVE  DOMAIN o = Fields /\ o = [k \in Fields |-> o[k]]
BY DEF Op, Fields

\* What has the fields of an operation is one.
LEMMA OpMade ==
    ASSUME NEW n, n = [k \in Fields |-> n[k]],
           n.pc \in {"idle", "recover", "reopen", "insert", "count", "rank", "delete",
                     "select", "update"},
           n.todo \in {"insert", "select"}, n.fd \in 0..MaxFiles, n.now \in Nat,
           n.mem \in Nat, n.seen \subseteq Row, n.swept \subseteq Nat
    PROVE  n \in Op
<1>1. n = [pc |-> n.pc, todo |-> n.todo, fd |-> n.fd, now |-> n.now, mem |-> n.mem,
           seen |-> n.seen, swept |-> n.swept]
  BY DEF Fields
<1> QED BY <1>1 DEF Op

\* Opening the file starts a search, or a remember() whose memory is new.
LEMMA OpenKeeps ==
    ASSUME Shape, Shape', SharedInv, NEW p \in Proc, Open(p) \/ Reopen(p)
    PROVE  SharedInv'
<1>1. clock < MaxClock /\ clock \in Nat /\ MaxClock \in Nat
  BY MemoryStoreAssumption DEF SharedInv, StoreTypes, Open, Reopen
<1>2. \E o \in Op : Connected(p, o)
  <2>1. CASE Open(p)
    <3>1. PICK todo \in {"insert", "select"} : Connected(p, [Idle EXCEPT !.todo = todo])
      BY <2>1 DEF Open
    <3>2. [Idle EXCEPT !.todo = todo] \in Op
      BY MemoryStoreAssumption DEF Idle, Op
    <3> QED BY <3>1, <3>2
  <2>2. CASE Reopen(p)
    BY <2>2 DEF Reopen, SharedInv, StoreTypes
  <2> QED BY <2>1, <2>2
<1>3. PICK o \in Op : Connected(p, o)
  BY <1>2
<1>4. /\ db' \in 1..made' /\ made' \in {made, made + 1} /\ made' \in 0..MaxFiles
      /\ UNCHANGED <<rows, told, evicted, unswept, contended, recycled>>
  BY <1>3 DEF Connected, Shape, histories
<1>5. db' \in 0..MaxFiles
  BY <1>4, MemoryStoreAssumption
<1>6. CASE o.todo = "insert"
  <2> DEFINE new == [o EXCEPT !.pc = "insert", !.fd = db', !.now = clock + 1, !.mem = clock + 1]
  <2>1. new \in Op /\ new.pc = "insert" /\ new.fd = db' /\ new.mem = clock + 1
    <3>1. /\ new = [k \in Fields |-> new[k]] /\ new.todo = o.todo /\ new.seen = o.seen
          /\ new.swept = o.swept /\ new.now = clock + 1
          /\ new.pc = "insert" /\ new.fd = db' /\ new.mem = clock + 1
      BY OpFields DEF Fields
    <3> HIDE DEF new
    <3> QED BY <1>1, <1>5, <3>1, OpTypes, OpMade
  <2>2. op' = [op EXCEPT ![p] = new] /\ clock' = clock + 1 /\ clock' \in 0..MaxClock
    BY <1>1, <1>3, <1>6 DEF Connected
  <2> HIDE DEF new
  <2>3. Becomes(p, new)
    BY <1>4, <2>1, <2>2 DEF Becomes
  <2> QED BY <1>4, <2>1, <2>2, <2>3, BecomesStep DEF SharedInv, StoreTypes
<1>7. CASE o.todo # "insert"
  <2> DEFINE new == [o EXCEPT !.pc = "select", !.fd = db']
  <2>1. new \in Op /\ new.pc = "select" /\ new.fd = db'
    BY <1>1, <1>5 DEF Op
  <2>2. op' = [op EXCEPT ![p] = new] /\ clock' = clock
    BY <1>3, <1>7 DEF Connected
  <2> HIDE DEF new
  <2>3. Becomes(p, new)
    BY <1>4, <2>1 DEF Becomes
  <2> QED BY <1>1, <1>4, <2>1, <2>2, <2>3, BecomesStep DEF SharedInv, StoreTypes
<1> QED BY <1>6, <1>7

\* A recovery has no connection.
LEMMA RecoveryKeeps ==
    ASSUME Shape, Shape', SharedInv, NEW p \in Proc, OpenCorrupt(p) \/ Recover(p)
    PROVE  SharedInv'
<1>1. UNCHANGED <<made, clock, rows, told, evicted, unswept, recycled>>
  BY DEF OpenCorrupt, Recover, histories
<1>2. PICK o \in Op : op' = [op EXCEPT ![p] = o] /\ o.pc \in {"recover", "reopen"}
  <2>1. CASE OpenCorrupt(p)
    <3>1. PICK todo \in {"insert", "select"} :
             op' = [op EXCEPT ![p] = [Idle EXCEPT !.pc = "recover", !.todo = todo]]
      BY <2>1 DEF OpenCorrupt
    <3> DEFINE o == [Idle EXCEPT !.pc = "recover", !.todo = todo]
    <3>2. o \in Op /\ o.pc = "recover"
      <4>1. /\ o = [k \in Fields |-> o[k]] /\ o.todo = todo /\ o.now = Idle.now
            /\ o.pc = "recover" /\ o.fd = Idle.fd /\ o.seen = Idle.seen
            /\ o.mem = Idle.mem /\ o.swept = Idle.swept
        BY IdleType, OpFields DEF Fields
      <4> HIDE DEF o
      <4> QED BY <4>1, IdleType, OpTypes, OpMade
    <3> QED BY <3>1, <3>2
  <2>2. CASE Recover(p)
    <3>1. op[p] \in Op
      BY DEF SharedInv, StoreTypes
    <3>2. [op[p] EXCEPT !.pc = "reopen"] \in Op /\ [op[p] EXCEPT !.pc = "reopen"].pc = "reopen"
      BY <3>1 DEF Op
    <3> QED BY <2>2, <3>2 DEF Recover
  <2> QED BY <2>1, <2>2
<1>3. Becomes(p, o)
  BY <1>2 DEF Becomes
<1>4. made' \in 0..MaxFiles /\ clock' \in 0..MaxClock /\ contended' \in BOOLEAN
  BY <1>1 DEF Shape, SharedInv, StoreTypes
<1> QED BY <1>1, <1>2, <1>3, <1>4, BecomesStep

\* What the SELECTs read is what the file has at that time.
LEMMA ReadKeeps ==
    ASSUME Shape, Shape', SharedInv, NEW p \in Proc, Count(p) \/ Rank(p) \/ Select(p)
    PROVE  SharedInv'
<1> DEFINE f == op[p].fd
<1>1. /\ op[p] \in Op /\ f \in File /\ f \in 1..made /\ rows[f] \subseteq Row
      /\ clock \in Nat /\ clock \in 0..MaxClock /\ MaxClock \in Nat
  <2>1. op[p].pc \notin {"idle", "recover", "reopen"}
    BY DEF Count, Rank, Select
  <2> QED BY <2>1, Connecting, MemoryStoreAssumption DEF SharedInv, StoreTypes
<1>2. /\ UNCHANGED <<made, rows, told, evicted, unswept, contended, recycled>>
      /\ made' \in 0..MaxFiles /\ contended' \in BOOLEAN
  BY DEF Count, Rank, Select, histories, Shape
<1> HIDE DEF f
<1>3. clock' \in {clock, clock + 1} /\ clock' \in 0..MaxClock
  <2>1. clock' = clock \/ (clock < MaxClock /\ clock' = clock + 1)
    BY DEF Count, Rank, Select
  <2> QED BY <1>1, <2>1
<1>4. \E o \in Op : op' = [op EXCEPT ![p] = o] /\ Becomes(p, o)
  <2>1. CASE op' = [op EXCEPT ![p] = Idle]
    BY <2>1, IdleType, IdleShape DEF Becomes
  <2>2. CASE Count(p) /\ op' = [op EXCEPT ![p].pc = "rank"]
    <3> DEFINE o == [op[p] EXCEPT !.pc = "rank"]
    <3>1. o \in Op /\ o.pc = "rank" /\ o.fd = op[p].fd /\ o.mem = op[p].mem
      BY <1>1 DEF Op
    <3>2. op' = [op EXCEPT ![p] = o] /\ op[p].pc = "count"
      BY <2>2 DEF Count
    <3> HIDE DEF o
    <3>3. Becomes(p, o)
      BY <1>1, <1>2, <3>1, <3>2 DEF Becomes, f
    <3> QED BY <3>1, <3>2, <3>3
  <2>3. CASE Rank(p)
    <3> DEFINE w == unswept \cap Mems(rows[f])
    <3>1. PICK t \in SUBSET rows[f] :
             op' = [op EXCEPT ![p].pc = "delete", ![p].seen = t, ![p].swept = w]
      BY <2>3 DEF Rank, Stale, f
    <3> DEFINE o == [op[p] EXCEPT !.pc = "delete", !.seen = t, !.swept = w]
    <3>2. w \subseteq Nat /\ w \subseteq unswept \cap told[f]
      <4>1. Mems(rows[f]) \subseteq told[f]
        BY <1>1 DEF Mems, SharedInv, RowsAreTold
      <4>2. told[f] \subseteq Nat
        BY <1>1 DEF SharedInv, StoreTypes
      <4> QED BY <4>1, <4>2
    <3> HIDE DEF w
    <3>3. o \in Op /\ o.pc = "delete" /\ o.fd = op[p].fd /\ o.mem = op[p].mem /\ o.swept = w
      BY <1>1, <3>1, <3>2 DEF Op
    <3>4. op' = [op EXCEPT ![p] = o] /\ op[p].pc = "rank"
      BY <2>3, <3>1 DEF Rank, SharedInv, StoreTypes
    <3> HIDE DEF o
    <3>5. Becomes(p, o)
      BY <1>1, <1>2, <3>2, <3>3, <3>4 DEF Becomes, f
    <3> QED BY <3>3, <3>4, <3>5
  <2>4. CASE Select(p) /\ rows[f] # {}
    <3> DEFINE o == [op[p] EXCEPT !.pc = "update", !.seen = rows[f], !.now = clock + 1]
    <3>1. o \in Op /\ o.pc = "update" /\ o.fd = op[p].fd /\ o.seen = rows[f]
      <4>1. /\ o = [k \in Fields |-> o[k]] /\ o.todo = op[p].todo /\ o.now = clock + 1
            /\ o.pc = "update" /\ o.fd = op[p].fd /\ o.seen = rows[f]
            /\ o.mem = op[p].mem /\ o.swept = op[p].swept
        BY <1>1, OpFields DEF Fields
      <4> HIDE DEF o
      <4> QED BY <1>1, <4>1, OpTypes, OpMade
    <3>2. op' = [op EXCEPT ![p] = o]
      BY <2>4 DEF Select, f
    <3> HIDE DEF o
    <3>3. Becomes(p, o)
      BY <1>1, <1>2, <3>1 DEF Becomes, f
    <3> QED BY <3>1, <3>2, <3>3
  <2>5. Count(p) => op' = [op EXCEPT ![p] = Idle] \/ op' = [op EXCEPT ![p].pc = "rank"]
    BY DEF Count
  <2>6. Select(p) /\ rows[f] = {} => op' = [op EXCEPT ![p] = Idle]
    BY DEF Select, f
  <2> QED BY <2>1, <2>2, <2>3, <2>4, <2>5, <2>6
<1> QED BY <1>1, <1>2, <1>3, <1>4, BecomesStep

\* Nobody is at work and nobody was told of anything.
LEMMA SharedInit == Init => SharedInv
<1> SUFFICES ASSUME Init PROVE SharedInv
  OBVIOUS
<1>1. \A p \in Proc : op[p].pc = "idle"
  BY IdleShape DEF Init
<1>2. StoreTypes
  <2>1. op \in [Proc -> Op] /\ clock \in 0..MaxClock
    BY IdleType, MemoryStoreAssumption DEF Init
  <2> QED BY <1>1, <2>1 DEF Init, StoreTypes
<1>3. RowsAreTold
  BY DEF Init, RowsAreTold
<1>4. OwnMemory /\ SweptIsTold /\ SeenIsKnown
  BY <1>1 DEF OwnMemory, Remembering, SweptIsTold, SeenIsKnown
<1> QED BY <1>2, <1>3, <1>4 DEF SharedInv

\* Each step keeps what is known of rows and memories.
LEMMA SharedStep == Invariant /\ Invariant' /\ SharedInv /\ [Next]_vars => SharedInv'
<1> SUFFICES ASSUME Invariant, Invariant', SharedInv, [Next]_vars PROVE SharedInv'
  OBVIOUS
<1>1. Shape /\ Shape'
  BY DEF Invariant, FileInv
<1>2. CASE Yank
  BY <1>1, <1>2, YankKeeps
<1>3. ASSUME NEW p \in Proc, Step(p) PROVE SharedInv'
  BY <1>1, <1>3, OpenKeeps, RecoveryKeeps, InsertKeeps, ReadKeeps, DeleteKeeps, UpdateKeeps,
     AbortKeeps DEF Step
<1>4. CASE UNCHANGED vars
  BY <1>4 DEF vars, SharedInv, StoreTypes, RowsAreTold, OwnMemory, Remembering, SweptIsTold,
              SeenIsKnown
<1> QED BY <1>2, <1>3, <1>4 DEF Next

\* Every memory has one row at most and every row one memory that was told of, under an id
\* of its own, whatever the processes do at once.
THEOREM MemoriesAreOwn == Spec => [](Invariant /\ SharedInv)
<1>1. Init => Invariant /\ SharedInv
  BY InitInvariant, SharedInit
<1>2. Invariant /\ Invariant' /\ SharedInv /\ [Next]_vars => SharedInv'
  BY SharedStep
<1> QED BY <1>1, <1>2, StoreInvariant, PTL DEF Spec

\* The state of the store has its type, and an id belongs to one row of a file.
THEOREM StoreTypeCorrect == Spec => []TypeOK
<1>1. ASSUME Invariant, SharedInv PROVE TypeOK
  BY <1>1 DEF Invariant, FileInv, Shape, SharedInv, StoreTypes, RowsAreTold, TypeOK
<1> QED BY <1>1, MemoriesAreOwn, PTL

\* The rows a step may leave: those there were, the one it inserts, or those an UPDATE wrote.
LEMMA RowsAfter ==
    ASSUME Shape, SharedInv, [Next]_vars, NEW f \in File, NEW s \in rows'[f]
    PROVE  \/ s \in rows[f] \/ s.uses = 0
           \/ \E p \in Proc : op[p].pc = "update" /\ op[p].fd = f /\ Update(p)
<1>0. rows \in [File -> SUBSET Row]
  BY DEF SharedInv, StoreTypes
<1>1. CASE UNCHANGED rows
  BY <1>1
<1>2. ASSUME NEW p \in Proc, Insert(p) PROVE s \in rows[f] \/ s.uses = 0
  <2> DEFINE id == Max({0} \cup Ids(rows[op[p].fd])) + 1
             row == [id |-> id, mem |-> op[p].mem, last |-> op[p].now, uses |-> 0]
  <2>1. rows' = [rows EXCEPT ![op[p].fd] = rows[op[p].fd] \cup {row}]
    BY <1>2 DEF Insert
  <2>2. row.uses = 0
    OBVIOUS
  <2> HIDE DEF row
  <2> QED BY <1>0, <2>1, <2>2
<1>3. ASSUME NEW p \in Proc, Delete(p) PROVE s \in rows[f]
  BY <1>0, <1>3 DEF Delete
<1>4. ASSUME NEW p \in Proc, Update(p) PROVE s \in rows[f] \/ op[p].fd = f
  <2>1. op[p].fd \in File
    BY <1>4, Connecting DEF Update
  <2> QED BY <1>4, <2>1, Updated DEF SharedInv
<1>5. ASSUME NEW p \in Proc, Step(p), ~Insert(p), ~Delete(p), ~Update(p) PROVE UNCHANGED rows
  BY <1>5 DEF Step, Open, OpenCorrupt, Recover, Reopen, Connected, Count, Rank, Select, Abort,
              histories
<1>6. Yank => UNCHANGED rows
  BY DEF Yank
<1>7. UNCHANGED vars => UNCHANGED rows
  BY DEF vars
<1>8. \A p \in Proc : Update(p) => op[p].pc = "update"
  BY DEF Update
<1> QED BY <1>1, <1>2, <1>3, <1>4, <1>5, <1>6, <1>7, <1>8 DEF Next

\* A search strengthens only what it has read, as long as no id is given out twice.
THEOREM RecallsStrengthenWhatTheyRead == Spec => RecallStrengthensWhatItRead
<1> DEFINE Strengthened == \A f \in File : \A r \in rows[f], s \in rows'[f] :
              r.mem = s.mem /\ r.uses < s.uses =>
                  \/ recycled
                  \/ \E p \in Proc : op[p].pc = "update" /\ r.mem \in Mems(op[p].seen)
<1>1. ASSUME Invariant, SharedInv, [Next]_vars PROVE Strengthened
  <2> SUFFICES ASSUME NEW f \in File, NEW r \in rows[f], NEW s \in rows'[f],
                      r.mem = s.mem, r.uses < s.uses, ~recycled
               PROVE  \E p \in Proc : op[p].pc = "update" /\ r.mem \in Mems(op[p].seen)
    OBVIOUS
  <2>1. Shape
    BY <1>1 DEF Invariant, FileInv
  <2>2. \A x, y \in rows[f] : x.mem = y.mem => x = y
    BY <1>1 DEF SharedInv, RowsAreTold
  <2>3. r.uses \in Nat
    BY <1>1 DEF SharedInv, StoreTypes, Row
  <2>4. s \notin rows[f] /\ s.uses # 0
    BY <2>2, <2>3
  <2>5. PICK p \in Proc : op[p].pc = "update" /\ op[p].fd = f /\ Update(p)
    BY <1>1, <2>1, <2>4, RowsAfter
  <2>6. PICK x \in op[p].seen, y \in rows[f] : x.id = y.id /\ s.mem = y.mem
    <3>1. StoreTypes /\ op[p].fd \in File /\ s \in rows'[op[p].fd] /\ s \notin rows[op[p].fd]
      BY <1>1, <2>4, <2>5 DEF SharedInv
    <3>2. \E z \in rows[op[p].fd], x \in op[p].seen :
             x.id = z.id /\ s.id = z.id /\ s.mem = z.mem
      BY <2>5, <3>1, Updated
    <3> QED BY <2>5, <3>2
  <2>7. y = r
    BY <2>2, <2>6
  <2>8. x.mem = r.mem
    BY <1>1, <2>5, <2>6, <2>7 DEF SharedInv, SeenIsKnown
  <2> QED BY <2>5, <2>8 DEF Mems
<1>2. Invariant /\ SharedInv /\ [Next]_vars => [Strengthened]_vars
  BY <1>1
<1> QED BY <1>2, MemoriesAreOwn, PTL DEF Spec, RecallStrengthensWhatItRead

-----------------------------------------------------------------------------
(***************************************************************************)
(* The cap of the store.  The DELETEs that are still to come may remove    *)
(* rows that another consolidation counted on, so the bound is stated for  *)
(* every set of them: without what those will remove, the file has the     *)
(* cap, a row per memory that none of those sweeps, and a row per          *)
(* consolidation that is not among them.                                   *)
(***************************************************************************)

\* The consolidations of file f, and those that are about to delete.
AtWork(f)   == {q \in Proc : Consolidating(q) /\ op[q].fd = f}
Deleting(f) == {q \in Proc : op[q].pc = "delete" /\ op[q].fd = f}

\* The ids of file f that outlive the deletions D, and the memories whose consolidation
\* was cut short and that D does not sweep.
Rest(f, D) == Ids(rows[f]) \ UNION {Ids(op[q].seen) : q \in D}
Owed(f, D) == (unswept \cap told[f]) \ UNION {op[q].swept : q \in D}

BoundedWithout(f, D) ==
    Cardinality(Rest(f, D)) <=
        MaxRows + Cardinality(Owed(f, D)) + Cardinality(AtWork(f) \ D)

Bounded(f) == \A D \in SUBSET Deleting(f) : BoundedWithout(f, D)

BoundedInv == \A f \in File : Bounded(f)

\* The sets the bound counts are finite.
LEMMA Counted ==
    ASSUME SharedInv, NEW f \in File, NEW D
    PROVE  /\ IsFiniteSet(Rest(f, D)) /\ Cardinality(Rest(f, D)) \in Nat
           /\ IsFiniteSet(Owed(f, D)) /\ Cardinality(Owed(f, D)) \in Nat
           /\ IsFiniteSet(AtWork(f) \ D) /\ Cardinality(AtWork(f) \ D) \in Nat
<1>1. IsFiniteSet(told[f]) /\ Cardinality(told[f]) \in Nat
  BY ToldFinite DEF SharedInv
<1>2. \A x \in Rest(f, D) : x \in Nat /\ x <= Cardinality(told[f])
  BY DEF Rest, Ids, SharedInv, StoreTypes, RowsAreTold, Row
<1>3. Rest(f, D) \in SUBSET Nat
  BY <1>2
<1>4. IsFiniteSet(Rest(f, D))
  BY <1>1, <1>2, <1>3, FS_BoundedSetOfNaturals
<1>5. IsFiniteSet(Owed(f, D))
  <2>1. Owed(f, D) \in SUBSET told[f]
    BY DEF Owed
  <2> QED BY <1>1, <2>1, FS_Subset
<1>6. IsFiniteSet(AtWork(f) \ D)
  <2>1. AtWork(f) \ D \in SUBSET Proc
    BY DEF AtWork
  <2> QED BY <2>1, FS_Subset, MemoryStoreAssumption
<1> QED BY <1>4, <1>5, <1>6, FS_CardinalityType

\* So they are after a step.
LEMMA CountedAfter ==
    ASSUME SharedInv', NEW f \in File, NEW D
    PROVE  /\ IsFiniteSet(Owed(f, D)') /\ Cardinality(Owed(f, D)') \in Nat
           /\ IsFiniteSet((AtWork(f) \ D)') /\ Cardinality((AtWork(f) \ D)') \in Nat
<1>1. told'[f] \in SUBSET (1..clock') /\ clock' \in Int /\ 1 \in Int
  BY MemoryStoreAssumption DEF SharedInv, StoreTypes
<1>2. IsFiniteSet(told'[f])
  BY <1>1, FS_Interval, FS_Subset
<1>3. IsFiniteSet(Owed(f, D)')
  <2>1. Owed(f, D)' \in SUBSET told'[f]
    BY DEF Owed
  <2> QED BY <1>2, <2>1, FS_Subset
<1>4. IsFiniteSet((AtWork(f) \ D)')
  <2>1. (AtWork(f) \ D)' \in SUBSET Proc
    BY DEF AtWork
  <2> QED BY <2>1, FS_Subset, MemoryStoreAssumption
<1> QED BY <1>3, <1>4, FS_CardinalityType

\* Fewer ids, more memories owed and more consolidations keep the bound.
LEMMA BoundKept ==
    ASSUME SharedInv, SharedInv', NEW f \in File, NEW D, NEW E, BoundedWithout(f, D),
           Rest(f, E)' \subseteq Rest(f, D), Owed(f, D) \subseteq Owed(f, E)',
           AtWork(f) \ D \subseteq (AtWork(f) \ E)'
    PROVE  BoundedWithout(f, E)'
<1> DEFINE a == Cardinality(Rest(f, D))      a1 == Cardinality(Rest(f, E)')
           b == Cardinality(Owed(f, D))      b1 == Cardinality(Owed(f, E)')
           c == Cardinality(AtWork(f) \ D)   c1 == Cardinality((AtWork(f) \ E)')
<1>1. a \in Nat /\ b \in Nat /\ c \in Nat /\ b1 \in Nat /\ c1 \in Nat
  BY Counted, CountedAfter
<1>2. a1 <= a /\ a1 \in Nat
  <2>1. Rest(f, E)' \in SUBSET Rest(f, D) /\ IsFiniteSet(Rest(f, D))
    BY Counted
  <2> QED BY <2>1, FS_Subset, FS_CardinalityType
<1>3. b <= b1
  <2>1. Owed(f, D) \in SUBSET Owed(f, E)' /\ IsFiniteSet(Owed(f, E)')
    BY CountedAfter
  <2> QED BY <2>1, FS_Subset
<1>4. c <= c1
  <2>1. AtWork(f) \ D \in SUBSET (AtWork(f) \ E)' /\ IsFiniteSet((AtWork(f) \ E)')
    BY CountedAfter
  <2> QED BY <2>1, FS_Subset
<1>5. a <= MaxRows + b + c
  BY DEF BoundedWithout
<1> HIDE DEF a, b, c, a1, b1, c1
<1>6. a1 <= MaxRows + b1 + c1
  BY <1>1, <1>2, <1>3, <1>4, <1>5, MemoryStoreAssumption
<1> QED BY <1>6 DEF BoundedWithout, a1, b1, c1

\* A file of no more ids than the cap is within the bound.
LEMMA SmallKept ==
    ASSUME SharedInv', NEW f \in File, NEW E, NEW S, IsFiniteSet(S),
           Cardinality(S) <= MaxRows, Rest(f, E)' \subseteq S
    PROVE  BoundedWithout(f, E)'
<1> DEFINE a1 == Cardinality(Rest(f, E)')   b1 == Cardinality(Owed(f, E)')
           c1 == Cardinality((AtWork(f) \ E)')   s == Cardinality(S)
<1>1. b1 \in Nat /\ c1 \in Nat
  BY CountedAfter
<1>2. a1 <= s /\ a1 \in Nat /\ s \in Nat
  <2>1. Rest(f, E)' \in SUBSET S
    OBVIOUS
  <2> QED BY <2>1, FS_Subset, FS_CardinalityType
<1>3. s <= MaxRows
  OBVIOUS
<1> HIDE DEF a1, b1, c1, s
<1>4. a1 <= MaxRows + b1 + c1
  BY <1>1, <1>2, <1>3, MemoryStoreAssumption
<1> QED BY <1>4 DEF BoundedWithout, a1, b1, c1

\* Rows have no more ids than there are, and a file has one row per id.
LEMMA IdsOfRows ==
    ASSUME SharedInv, NEW f \in File, NEW X \in SUBSET rows[f]
    PROVE  /\ IsFiniteSet(X) /\ IsFiniteSet(Ids(X)) /\ Cardinality(X) = Cardinality(Ids(X))
<1> DEFINE F == [r \in X |-> r.id]
<1>1. F \in [X -> Ids(X)]
  BY DEF Ids
<1>2. \A r, s \in X : F[r] = F[s] => r = s
  BY DEF SharedInv, RowsAreTold
<1>3. \A i \in Ids(X) : \E r \in X : F[r] = i
  BY DEF Ids
<1> HIDE DEF F
<1>4. IsFiniteSet(Ids(X))
  <2>1. IsFiniteSet(Rest(f, {}))
    BY Counted
  <2>2. Ids(X) \in SUBSET Rest(f, {})
    BY DEF Ids, Rest
  <2> QED BY <2>1, <2>2, FS_Subset
<1>5. F \in Injection(X, Ids(X)) /\ F \in Surjection(X, Ids(X))
  BY <1>1, <1>2, <1>3, Fun_IsInj, Fun_IsSurj
<1> QED BY <1>4, <1>5, FS_Injection

\* A step of p that is not the end of a consolidation of f, nor the ranking of one, keeps
\* the bound of f if it adds no id and takes no memory from those owed.
LEMMA Unmoved ==
    ASSUME SharedInv, SharedInv', NEW f \in File, Bounded(f), NEW p \in Proc,
           \A q \in Proc \ {p} : op'[q] = op[q],
           ~(op'[p].pc = "delete" /\ op'[p].fd = f),
           p \in AtWork(f) => op'[p].pc \in {"count", "rank"} /\ op'[p].fd = f,
           Ids(rows'[f]) \subseteq Ids(rows[f]),
           unswept \cap told[f] \subseteq unswept' \cap told'[f]
    PROVE  Bounded(f)'
<1> SUFFICES ASSUME NEW D \in SUBSET Deleting(f)' PROVE BoundedWithout(f, D)'
  BY DEF Bounded
<1>1. \A q \in D : op'[q] = op[q]
  BY DEF Deleting
<1>2. D \in SUBSET Deleting(f)
  BY DEF Deleting
<1>3. Rest(f, D)' \subseteq Rest(f, D)
  BY <1>1 DEF Rest
<1>4. Owed(f, D) \subseteq Owed(f, D)'
  BY <1>1 DEF Owed
<1>5. AtWork(f) \ D \subseteq (AtWork(f) \ D)'
  BY DEF AtWork, Consolidating
<1> QED BY <1>2, <1>3, <1>4, <1>5, BoundKept DEF Bounded

\* An INSERT brings an id and the consolidation that counts for it.
LEMMA InsertBounded ==
    ASSUME Shape, SharedInv, SharedInv', NEW f \in File, Bounded(f), NEW p \in Proc, Insert(p)
    PROVE  Bounded(f)'
<1> DEFINE g == op[p].fd
           id == Max({0} \cup Ids(rows[g])) + 1
           row == [id |-> id, mem |-> op[p].mem, last |-> op[p].now, uses |-> 0]
           new == [op[p] EXCEPT !.pc = "count"]
<1>1. /\ op[p].pc = "insert" /\ op' = [op EXCEPT ![p] = new]
      /\ rows' = [rows EXCEPT ![g] = rows[g] \cup {row}]
      /\ told' = [told EXCEPT ![g] = told[g] \cup {op[p].mem}] /\ UNCHANGED unswept
  BY DEF Insert
<1>2. op[p] \in Op /\ op \in [Proc -> Op] /\ g \in File
  BY <1>1, Connecting DEF SharedInv, StoreTypes
<1>3. new.pc = "count" /\ new.fd = g /\ row.id = id
  BY <1>2 DEF Op
<1> HIDE DEF new, row, id
<1>4. /\ op'[p] = new /\ \A q \in Proc \ {p} : op'[q] = op[q]
  BY <1>1, <1>2
<1>5. /\ rows'[g] = rows[g] \cup {row} /\ told[f] \subseteq told'[f]
      /\ f # g => rows'[f] = rows[f]
  BY <1>1, <1>2 DEF SharedInv, StoreTypes
<1>6. CASE f # g
  <2>1. /\ op'[p].fd # f /\ p \notin AtWork(f)
        /\ Ids(rows'[f]) \subseteq Ids(rows[f])
        /\ unswept \cap told[f] \subseteq unswept' \cap told'[f]
    BY <1>1, <1>3, <1>4, <1>5, <1>6 DEF AtWork
  <2> QED BY <1>4, <2>1, Unmoved
<1>7. CASE f = g
  <2> SUFFICES ASSUME NEW D \in SUBSET Deleting(f)' PROVE BoundedWithout(f, D)'
    BY DEF Bounded
  <2>1. p \notin D /\ \A q \in D : op'[q] = op[q]
    BY <1>3, <1>4 DEF Deleting
  <2>2. D \in SUBSET Deleting(f)
    BY <2>1 DEF Deleting
  <2>3. Rest(f, D)' \subseteq Rest(f, D) \cup {id}
    BY <1>3, <1>5, <1>7, <2>1 DEF Rest, Ids
  <2>4. Owed(f, D) \subseteq Owed(f, D)'
    BY <1>1, <1>5, <2>1 DEF Owed
  <2>5. (AtWork(f) \ D)' = (AtWork(f) \ D) \cup {p} /\ p \notin AtWork(f) \ D
    <3>1. p \notin AtWork(f)
      BY <1>1 DEF AtWork, Consolidating
    <3>2. AtWork(f)' = AtWork(f) \cup {p}
      BY <1>1, <1>3, <1>4, <1>7 DEF AtWork, Consolidating
    <3> QED BY <2>1, <3>1, <3>2
  <2> DEFINE a == Cardinality(Rest(f, D))      a1 == Cardinality(Rest(f, D)')
             b == Cardinality(Owed(f, D))      b1 == Cardinality(Owed(f, D)')
             c == Cardinality(AtWork(f) \ D)   c1 == Cardinality((AtWork(f) \ D)')
  <2>6. a \in Nat /\ b \in Nat /\ c \in Nat /\ b1 \in Nat /\ c1 \in Nat
    BY Counted, CountedAfter
  <2>7. a1 \in Nat /\ a1 <= a + 1
    <3>1. IsFiniteSet(Rest(f, D))
      BY Counted
    <3>2. /\ IsFiniteSet(Rest(f, D) \cup {id})
          /\ Cardinality(Rest(f, D) \cup {id}) \in {a, a + 1}
      BY <3>1, FS_AddElement
    <3>3. Rest(f, D)' \in SUBSET (Rest(f, D) \cup {id})
      BY <2>3
    <3>4. a1 \in Nat /\ a1 <= Cardinality(Rest(f, D) \cup {id})
      BY <3>2, <3>3, FS_Subset, FS_CardinalityType
    <3> HIDE DEF a, a1
    <3> QED BY <2>6, <3>2, <3>4
  <2>8. b <= b1
    <3>1. Owed(f, D) \in SUBSET Owed(f, D)' /\ IsFiniteSet(Owed(f, D)')
      BY <2>4, CountedAfter
    <3> QED BY <3>1, FS_Subset
  <2>9. c1 = c + 1
    <3>1. IsFiniteSet(AtWork(f) \ D)
      BY Counted
    <3> QED BY <2>5, <3>1, FS_AddElement
  <2>10. a <= MaxRows + b + c
    BY <2>2 DEF Bounded, BoundedWithout
  <2> HIDE DEF a, b, c, a1, b1, c1
  <2>11. a1 <= MaxRows + b1 + c1
    BY <2>6, <2>7, <2>8, <2>9, <2>10, MemoryStoreAssumption
  <2> QED BY <2>11 DEF BoundedWithout, a1, b1, c1
<1> QED BY <1>6, <1>7

\* A COUNT that finds no more than the cap has nothing to do.
LEMMA CountBounded ==
    ASSUME Shape, SharedInv, SharedInv', NEW f \in File, Bounded(f), NEW p \in Proc, Count(p)
    PROVE  Bounded(f)'
<1>1. /\ op[p] \in Op /\ op \in [Proc -> Op] /\ UNCHANGED <<rows, told, unswept>>
      /\ op[p].pc = "count"
  BY DEF Count, histories, SharedInv, StoreTypes
<1>2. CASE op' = [op EXCEPT ![p].pc = "rank"]
  <2>1. op'[p].pc = "rank" /\ op'[p].fd = op[p].fd /\ \A q \in Proc \ {p} : op'[q] = op[q]
    BY <1>1, <1>2, OpFields DEF Fields
  <2>2. p \in AtWork(f) => op'[p].fd = f
    BY <2>1 DEF AtWork
  <2> QED BY <1>1, <2>1, <2>2, Unmoved
<1>3. CASE op' = [op EXCEPT ![p] = Idle] /\ Cardinality(rows[op[p].fd]) <= MaxRows
  <2>1. op'[p].pc = "idle" /\ \A q \in Proc \ {p} : op'[q] = op[q]
    BY <1>1, <1>3, IdleShape
  <2>2. CASE f # op[p].fd
    <3>1. p \notin AtWork(f)
      BY <2>2 DEF AtWork
    <3> QED BY <1>1, <2>1, <3>1, Unmoved
  <2>3. CASE f = op[p].fd
    <3>1. IsFiniteSet(Ids(rows[f])) /\ Cardinality(Ids(rows[f])) <= MaxRows
      BY <1>3, <2>3, IdsOfRows
    <3>2. \A D : Rest(f, D)' \subseteq Ids(rows[f])
      BY <1>1 DEF Rest
    <3> QED BY <3>1, <3>2, SmallKept DEF Bounded
  <2> QED BY <2>2, <2>3
<1> QED BY <1>2, <1>3 DEF Count

\* A consolidation that has ranked leaves at most the cap of what it has seen.
LEMMA RankBounded ==
    ASSUME Shape, SharedInv, SharedInv', NEW f \in File, Bounded(f), NEW p \in Proc, Rank(p)
    PROVE  Bounded(f)'
<1> DEFINE g == op[p].fd
           w == unswept \cap Mems(rows[g])
<1>1. /\ op[p] \in Op /\ op \in [Proc -> Op] /\ UNCHANGED <<rows, told, unswept>>
      /\ op[p].pc = "rank"
  BY DEF Rank, histories, SharedInv, StoreTypes
<1>2. PICK t : /\ t \in (IF Cardinality(rows[g]) <= MaxRows THEN {{}}
                         ELSE Stale(rows[g], op[p].now))
               /\ op' = [op EXCEPT ![p].pc = "delete", ![p].seen = t, ![p].swept = w]
  BY DEF Rank
<1> HIDE DEF w
<1>3. /\ op'[p].pc = "delete" /\ op'[p].fd = g /\ op'[p].seen = t
      /\ \A q \in Proc \ {p} : op'[q] = op[q]
  BY <1>1, <1>2, OpFields DEF Fields
<1>4. CASE f # g
  <2>1. p \notin AtWork(f)
    BY <1>4 DEF AtWork
  <2> QED BY <1>1, <1>3, <1>4, <2>1, Unmoved
<1>5. CASE f = g
  <2> SUFFICES ASSUME NEW D \in SUBSET Deleting(f)' PROVE BoundedWithout(f, D)'
    BY DEF Bounded
  <2>1. CASE p \notin D
    <3>1. \A q \in D : op'[q] = op[q]
      BY <1>3, <2>1 DEF Deleting
    <3>2. D \in SUBSET Deleting(f)
      BY <3>1 DEF Deleting
    <3>3. Rest(f, D)' \subseteq Rest(f, D)
      BY <1>1, <3>1 DEF Rest
    <3>4. Owed(f, D) \subseteq Owed(f, D)'
      BY <1>1, <3>1 DEF Owed
    <3>5. AtWork(f) \ D \subseteq (AtWork(f) \ D)'
      BY <1>3, <1>5 DEF AtWork, Consolidating
    <3> QED BY <3>2, <3>3, <3>4, <3>5, BoundKept DEF Bounded
  <2>2. CASE p \in D
    <3>1. t \subseteq rows[f] /\ Cardinality(rows[f] \ t) <= MaxRows
      <4>1. IsFiniteSet(rows[f]) /\ Cardinality(rows[f]) \in Nat
        BY IdsOfRows, FS_CardinalityType
      <4>2. CASE Cardinality(rows[f]) <= MaxRows
        <5>1. t = {}
          BY <1>2, <1>5, <4>2
        <5> QED BY <4>2, <5>1
      <4>3. CASE ~(Cardinality(rows[f]) <= MaxRows)
        <5>1. t \subseteq rows[f] /\ Cardinality(t) = Cardinality(rows[f]) - MaxRows
          BY <1>2, <1>5, <4>3 DEF Stale
        <5>2. rows[f] \cap t = t
          BY <5>1
        <5>3. Cardinality(rows[f] \ t) = Cardinality(rows[f]) - Cardinality(t)
          BY <4>1, <5>2, FS_Difference
        <5> QED BY <4>1, <5>1, <5>3, MemoryStoreAssumption
      <4> QED BY <4>2, <4>3
    <3>2. IsFiniteSet(Ids(rows[f] \ t)) /\ Cardinality(Ids(rows[f] \ t)) <= MaxRows
      BY <3>1, IdsOfRows
    <3>3. Rest(f, D)' \subseteq Ids(rows[f] \ t)
      BY <1>1, <1>3, <2>2 DEF Rest, Ids
    <3> QED BY <3>2, <3>3, SmallKept
  <2> QED BY <2>1, <2>2
<1> QED BY <1>4, <1>5

\* A DELETE does what the bound supposed of it.
LEMMA DeleteBounded ==
    ASSUME Shape, SharedInv, SharedInv', NEW f \in File, Bounded(f), NEW p \in Proc, Delete(p)
    PROVE  Bounded(f)'
<1> DEFINE g == op[p].fd
           gone == {r \in rows[g] : r.id \in Ids(op[p].seen)}
<1>1. /\ op[p].pc = "delete" /\ op' = [op EXCEPT ![p] = Idle] /\ op \in [Proc -> Op]
      /\ rows' = [rows EXCEPT ![g] = rows[g] \ gone] /\ rows \in [File -> SUBSET Row]
      /\ unswept' = unswept \ op[p].swept /\ UNCHANGED told
  BY DEF Delete, SharedInv, StoreTypes
<1>2. op'[p].pc = "idle" /\ \A q \in Proc \ {p} : op'[q] = op[q]
  BY <1>1, IdleShape
<1>3. CASE f # g
  <2>1. p \notin AtWork(f) /\ rows'[f] = rows[f]
    BY <1>1, <1>3 DEF AtWork
  <2>2. unswept \cap told[f] \subseteq unswept' \cap told'[f]
    <3>1. op[p].swept \subseteq told[g] /\ g \in File
      BY <1>1, Connecting DEF SharedInv, SweptIsTold
    <3>2. \A m \in told[g] : m \notin told[f]
      BY <1>3, <3>1 DEF SharedInv, RowsAreTold
    <3> QED BY <1>1, <3>1, <3>2
  <2> QED BY <1>2, <2>1, <2>2, Unmoved
<1>4. CASE f = g
  <2> SUFFICES ASSUME NEW D \in SUBSET Deleting(f)' PROVE BoundedWithout(f, D)'
    BY DEF Bounded
  <2>1. p \notin D /\ \A q \in D : op'[q] = op[q]
    BY <1>2 DEF Deleting
  <2>2. D \cup {p} \in SUBSET Deleting(f)
    BY <1>1, <1>4, <2>1 DEF Deleting
  <2>3. Rest(f, D)' \subseteq Rest(f, D \cup {p})
    <3>1. rows'[f] = rows[f] \ gone
      BY <1>1, <1>4
    <3>2. Ids(rows'[f]) \subseteq Ids(rows[f]) \ Ids(op[p].seen)
      BY <1>4, <3>1 DEF Ids
    <3> QED BY <2>1, <3>2 DEF Rest
  <2>4. Owed(f, D \cup {p}) \subseteq Owed(f, D)'
    BY <1>1, <2>1 DEF Owed
  <2>5. AtWork(f) \ (D \cup {p}) \subseteq (AtWork(f) \ D)'
    BY <1>2 DEF AtWork, Consolidating
  <2> QED BY <2>2, <2>3, <2>4, <2>5, BoundKept DEF Bounded
<1> QED BY <1>3, <1>4

\* A consolidation that is cut short is owed a sweep instead.
LEMMA AbortBounded ==
    ASSUME Shape, SharedInv, SharedInv', NEW f \in File, Bounded(f), NEW p \in Proc, Abort(p)
    PROVE  Bounded(f)'
<1> DEFINE m == op[p].mem
<1>1. /\ op' = [op EXCEPT ![p] = Idle] /\ op \in [Proc -> Op] /\ UNCHANGED <<rows, told>>
      /\ unswept' = IF Consolidating(p) THEN unswept \cup {m} ELSE unswept
  BY DEF Abort, SharedInv, StoreTypes
<1>2. op'[p].pc = "idle" /\ \A q \in Proc \ {p} : op'[q] = op[q]
  BY <1>1, IdleShape
<1>3. CASE p \notin AtWork(f)
  BY <1>1, <1>2, <1>3, Unmoved
<1>4. CASE p \in AtWork(f)
  <2> SUFFICES ASSUME NEW D \in SUBSET Deleting(f)' PROVE BoundedWithout(f, D)'
    BY DEF Bounded
  <2>1. p \notin D /\ \A q \in D : op'[q] = op[q]
    BY <1>2 DEF Deleting
  <2>2. D \in SUBSET Deleting(f)
    BY <2>1 DEF Deleting
  <2>3. Rest(f, D)' \subseteq Rest(f, D)
    BY <1>1, <2>1 DEF Rest
  <2>4. Owed(f, D) \cup {m} \subseteq Owed(f, D)' /\ m \notin Owed(f, D)
    <3>1. Consolidating(p) /\ Remembering(p) /\ op[p].pc # "insert" /\ op[p].fd = f
      BY <1>4 DEF AtWork, Consolidating, Remembering
    <3>2. /\ m \notin unswept /\ m \in told[f]
          /\ \A q \in Proc : op[q].pc = "delete" => m \notin op[q].swept
      BY <3>1 DEF SharedInv, OwnMemory
    <3>3. \A q \in D : m \notin op[q].swept
      BY <2>2, <3>2 DEF Deleting
    <3> QED BY <1>1, <2>1, <3>1, <3>2, <3>3 DEF Owed
  <2>5. AtWork(f) \ D \subseteq (AtWork(f) \ D)' \cup {p} /\ p \notin (AtWork(f) \ D)'
    BY <1>2 DEF AtWork, Consolidating
  <2> DEFINE a == Cardinality(Rest(f, D))      a1 == Cardinality(Rest(f, D)')
             b == Cardinality(Owed(f, D))      b1 == Cardinality(Owed(f, D)')
             c == Cardinality(AtWork(f) \ D)   c1 == Cardinality((AtWork(f) \ D)')
  <2>6. a \in Nat /\ b \in Nat /\ c \in Nat /\ b1 \in Nat /\ c1 \in Nat
    BY Counted, CountedAfter
  <2>7. a1 <= a /\ a1 \in Nat
    <3>1. Rest(f, D)' \in SUBSET Rest(f, D) /\ IsFiniteSet(Rest(f, D))
      BY <2>3, Counted
    <3> QED BY <3>1, FS_Subset, FS_CardinalityType
  <2>8. b + 1 <= b1
    <3>1. IsFiniteSet(Owed(f, D)) /\ IsFiniteSet(Owed(f, D)')
      BY Counted, CountedAfter
    <3>2. Cardinality(Owed(f, D) \cup {m}) = b + 1
      BY <2>4, <3>1, FS_AddElement
    <3>3. (Owed(f, D) \cup {m}) \in SUBSET Owed(f, D)'
      BY <2>4
    <3>4. Cardinality(Owed(f, D) \cup {m}) <= b1
      BY <3>1, <3>3, FS_Subset
    <3> QED BY <3>2, <3>4
  <2>9. c <= c1 + 1
    <3>1. IsFiniteSet((AtWork(f) \ D)')
      BY CountedAfter
    <3>2. /\ IsFiniteSet((AtWork(f) \ D)' \cup {p})
          /\ Cardinality((AtWork(f) \ D)' \cup {p}) = c1 + 1
      BY <2>5, <3>1, FS_AddElement
    <3>3. (AtWork(f) \ D) \in SUBSET ((AtWork(f) \ D)' \cup {p})
      BY <2>5
    <3>4. c <= Cardinality((AtWork(f) \ D)' \cup {p})
      BY <3>2, <3>3, FS_Subset
    <3> QED BY <3>2, <3>4
  <2>10. a <= MaxRows + b + c
    BY <2>2 DEF Bounded, BoundedWithout
  <2> HIDE DEF a, b, c, a1, b1, c1
  <2>11. a1 <= MaxRows + b1 + c1
    BY <2>6, <2>7, <2>8, <2>9, <2>10, MemoryStoreAssumption
  <2> QED BY <2>11 DEF BoundedWithout, a1, b1, c1
<1> QED BY <1>3, <1>4

\* A yank cuts all of them short at once, each with a memory of its own.
LEMMA YankBounded ==
    ASSUME Shape, SharedInv, SharedInv', NEW f \in File, Bounded(f), Yank
    PROVE  Bounded(f)'
<1> DEFINE W == AtWork(f) \ {}
           M == {op[q].mem : q \in W}
           F == [q \in W |-> op[q].mem]
<1>1. /\ op' = [p \in Proc |-> Idle] /\ UNCHANGED <<rows, told>>
      /\ unswept' = unswept \cup {op[p].mem : p \in {q \in Proc : Consolidating(q)}}
  BY DEF Yank
<1>2. \A q \in W : /\ q \in Proc /\ Consolidating(q) /\ op[q].fd = f
                   /\ Remembering(q) /\ op[q].pc # "insert"
  BY DEF AtWork, Consolidating, Remembering
<1>3. \A q \in W : op[q].mem \in told[f] /\ op[q].mem \notin unswept
  BY <1>2 DEF SharedInv, OwnMemory
<1>4. \A q, v \in W : op[q].mem = op[v].mem => q = v
  BY <1>2 DEF SharedInv, OwnMemory
<1>5. IsFiniteSet(W)
  BY Counted
<1>6. IsFiniteSet(M) /\ Cardinality(M) = Cardinality(W)
  <2>1. F \in [W -> M] /\ (\A q, v \in W : F[q] = F[v] => q = v) /\ \A m \in M : \E q \in W : F[q] = m
    BY <1>4
  <2> HIDE DEF W, M, F
  <2>2. F \in Surjection(W, M) /\ F \in Injection(W, M)
    BY <2>1, Fun_IsInj, Fun_IsSurj
  <2> QED BY <1>5, <2>2, FS_Surjection
<1>7. Deleting(f)' = {}
  BY <1>1, IdleShape DEF Deleting
<1>8. {} \in SUBSET Deleting(f)
  OBVIOUS
<1>9. Rest(f, {})' = Rest(f, {})
  BY <1>1 DEF Rest
<1>10. Owed(f, {}) \cup M \subseteq Owed(f, {})' /\ Owed(f, {}) \cap M = {}
  <2>1. M \subseteq unswept' /\ M \subseteq told'[f] /\ \A m \in M : m \notin unswept
    BY <1>1, <1>2, <1>3
  <2> QED BY <1>1, <2>1 DEF Owed
<1> DEFINE a == Cardinality(Rest(f, {}))   b == Cardinality(Owed(f, {}))
           b1 == Cardinality(Owed(f, {})')
           c == Cardinality(W)   c1 == Cardinality((AtWork(f) \ {})')
<1>11. a \in Nat /\ b \in Nat /\ c \in Nat /\ b1 \in Nat /\ c1 \in Nat
  BY Counted, CountedAfter
<1>12. a <= MaxRows + b + c
  BY <1>8 DEF Bounded, BoundedWithout
<1> HIDE DEF W, M
<1>13. b + c <= b1
  <2>1. IsFiniteSet(Owed(f, {})) /\ IsFiniteSet(Owed(f, {})')
    BY Counted, CountedAfter
  <2>2. Cardinality(Owed(f, {}) \cup M) = b + c - Cardinality(Owed(f, {}) \cap M)
    BY <1>6, <2>1, FS_Union
  <2>3. Cardinality(Owed(f, {}) \cap M) = 0
    BY <1>10, FS_EmptySet
  <2>4. (Owed(f, {}) \cup M) \in SUBSET Owed(f, {})'
    BY <1>10
  <2>5. Cardinality(Owed(f, {}) \cup M) <= b1
    BY <2>1, <2>4, FS_Subset
  <2> HIDE DEF b, c, b1
  <2> QED BY <1>11, <2>2, <2>3, <2>5
<1> HIDE DEF a, b, c, b1, c1
<1>14. a <= MaxRows + b1 + c1
  BY <1>11, <1>12, <1>13, MemoryStoreAssumption
<1>15. BoundedWithout(f, {})'
  BY <1>9, <1>14 DEF BoundedWithout, a, b1, c1
<1> QED BY <1>7, <1>15 DEF Bounded

\* The steps that neither begin nor end a consolidation.
LEMMA OtherBounded ==
    ASSUME Shape, SharedInv, SharedInv', NEW f \in File, Bounded(f), NEW p \in Proc,
           Open(p) \/ OpenCorrupt(p) \/ Recover(p) \/ Reopen(p) \/ Select(p) \/ Update(p)
    PROVE  Bounded(f)'
<1>1. op \in [Proc -> Op] /\ op[p] \in Op
  BY DEF SharedInv, StoreTypes
<1>2. UNCHANGED <<told, unswept>> /\ p \notin AtWork(f)
  BY DEF Open, OpenCorrupt, Recover, Reopen, Connected, Select, Update, histories, AtWork,
         Consolidating
<1>3. Ids(rows'[f]) \subseteq Ids(rows[f])
  <2>1. CASE Update(p)
    <3>1. StoreTypes /\ op[p].fd \in File
      BY <2>1, Connecting DEF Update, SharedInv
    <3>2. \A s \in rows'[f] : \E r \in rows[f] : s.id = r.id
      <4>1. CASE f # op[p].fd
        BY <2>1, <3>1, <4>1, Updated
      <4>2. CASE f = op[p].fd
        <5>1. \A s \in rows'[op[p].fd] : s \in rows[op[p].fd]
                 \/ \E r \in rows[op[p].fd], x \in op[p].seen :
                       x.id = r.id /\ s.id = r.id /\ s.mem = r.mem
          BY <2>1, <3>1, Updated
        <5> QED BY <4>2, <5>1
      <4> QED BY <4>1, <4>2
    <3> QED BY <3>2 DEF Ids
  <2>2. CASE ~Update(p)
    BY <2>2 DEF Open, OpenCorrupt, Recover, Reopen, Connected, Select
  <2> QED BY <2>1, <2>2
<1>4. op'[p].pc # "delete" /\ \A q \in Proc \ {p} : op'[q] = op[q]
  <2>1. ASSUME NEW o, op' = [op EXCEPT ![p] = o], o.pc # "delete"
        PROVE  op'[p].pc # "delete" /\ \A q \in Proc \ {p} : op'[q] = op[q]
    BY <1>1, <2>1
  <2>2. CASE Open(p) \/ Reopen(p)
    <3>1. \E o : {"pc", "fd"} \subseteq DOMAIN o /\ Connected(p, o)
      <4>1. CASE Open(p)
        <5>1. PICK todo \in {"insert", "select"} : Connected(p, [Idle EXCEPT !.todo = todo])
          BY <4>1 DEF Open
        <5> QED BY <5>1, IdleShape
      <4>2. CASE Reopen(p)
        BY <4>2 DEF Reopen, Shape
      <4> QED BY <2>2, <4>1, <4>2
    <3> QED BY <3>1, ConnectedStep DEF Goes
  <2>3. CASE OpenCorrupt(p)
    <3>1. PICK todo \in {"insert", "select"} :
             op' = [op EXCEPT ![p] = [Idle EXCEPT !.pc = "recover", !.todo = todo]]
      BY <2>3 DEF OpenCorrupt
    <3>2. [Idle EXCEPT !.pc = "recover", !.todo = todo].pc = "recover"
      BY IdleShape
    <3> QED BY <2>1, <3>1, <3>2
  <2>4. CASE Recover(p)
    <3>1. [op[p] EXCEPT !.pc = "reopen"].pc = "reopen"
      BY <1>1, OpFields DEF Fields
    <3> QED BY <2>1, <2>4, <3>1 DEF Recover
  <2>5. CASE Select(p)
    <3>1. CASE op' = [op EXCEPT ![p] = Idle]
      BY <2>1, <3>1, IdleShape
    <3>2. CASE rows[op[p].fd] # {}
      <4> DEFINE o == [op[p] EXCEPT !.pc = "update", !.seen = rows[op[p].fd], !.now = clock + 1]
      <4>1. o.pc = "update"
        BY <1>1, OpFields DEF Fields
      <4>2. op' = [op EXCEPT ![p] = o]
        BY <2>5, <3>2 DEF Select
      <4> HIDE DEF o
      <4> QED BY <2>1, <4>1, <4>2
    <3> QED BY <2>5, <3>1, <3>2 DEF Select
  <2>6. CASE Update(p)
    BY <2>1, <2>6, IdleShape DEF Update
  <2> QED BY <2>2, <2>3, <2>4, <2>5, <2>6
<1> QED BY <1>2, <1>3, <1>4, Unmoved

\* There are no rows.
LEMMA InitBounded == Init => BoundedInv
<1> SUFFICES ASSUME Init, NEW f \in File, NEW D \in SUBSET Deleting(f)
             PROVE  BoundedWithout(f, D)
  BY DEF BoundedInv, Bounded
<1>1. SharedInv
  BY SharedInit
<1>2. Rest(f, D) = {}
  BY DEF Init, Rest, Ids
<1> DEFINE b == Cardinality(Owed(f, D))   c == Cardinality(AtWork(f) \ D)
<1>3. Cardinality(Rest(f, D)) = 0 /\ b \in Nat /\ c \in Nat
  BY <1>1, <1>2, Counted, FS_EmptySet
<1> HIDE DEF b, c
<1>4. Cardinality(Rest(f, D)) <= MaxRows + b + c
  BY <1>3, MemoryStoreAssumption
<1> QED BY <1>4 DEF BoundedWithout, b, c

\* Each step keeps every file within its bound.
LEMMA BoundedStep ==
    Invariant /\ SharedInv /\ SharedInv' /\ BoundedInv /\ [Next]_vars => BoundedInv'
<1> SUFFICES ASSUME Invariant, SharedInv, SharedInv', BoundedInv, [Next]_vars, NEW f \in File
             PROVE  Bounded(f)'
  BY DEF BoundedInv
<1>1. Shape /\ Bounded(f)
  BY DEF Invariant, FileInv, BoundedInv
<1>2. CASE Yank
  BY <1>1, <1>2, YankBounded
<1>3. ASSUME NEW p \in Proc, Step(p) PROVE Bounded(f)'
  BY <1>1, <1>3, InsertBounded, CountBounded, RankBounded, DeleteBounded, AbortBounded,
     OtherBounded DEF Step
<1>4. CASE UNCHANGED vars
  <2>1. UNCHANGED <<rows, told, unswept, op>>
    BY <1>4 DEF vars
  <2> QED BY <1>1, <2>1 DEF Bounded, BoundedWithout, Rest, Owed, AtWork, Deleting, Consolidating
<1> QED BY <1>2, <1>3, <1>4 DEF Next

\* The database has the cap and a row per consolidation that is under way or was cut short,
\* whoever consolidates at the same time and whatever he counted.
THEOREM StoresAreBounded == Spec => []StoreIsBounded
<1>1. ASSUME Invariant, SharedInv, BoundedInv PROVE StoreIsBounded
  <2> SUFFICES ASSUME db # 0
               PROVE  Cardinality(rows[db]) <= MaxRows + Cardinality(unswept)
                                      + Cardinality({p \in Proc : Consolidating(p)})
    BY DEF StoreIsBounded
  <2>1. db \in File
    BY <1>1, MemoryStoreAssumption DEF Invariant, FileInv, Shape, File
  <2> DEFINE S == {p \in Proc : Consolidating(p)}
             a == Cardinality(Rest(db, {}))   b == Cardinality(Owed(db, {}))
             c == Cardinality(AtWork(db) \ {})   u == Cardinality(unswept)
             s == Cardinality(S)   n == Cardinality(rows[db])
  <2>2. a <= MaxRows + b + c
    BY <1>1, <2>1 DEF BoundedInv, Bounded, BoundedWithout
  <2>3. a \in Nat /\ b \in Nat /\ c \in Nat
    BY <1>1, <2>1, Counted
  <2>4. n = a
    <3>1. Rest(db, {}) = Ids(rows[db])
      BY DEF Rest
    <3> QED BY <1>1, <2>1, <3>1, IdsOfRows
  <2>5. b <= u /\ u \in Nat
    <3>1. unswept \in SUBSET (1..clock) /\ clock \in Int /\ 1 \in Int
      <4>1. /\ unswept \subseteq UNION {told[f] : f \in File} /\ clock \in 0..MaxClock
            /\ \A f \in File : told[f] \subseteq 1..clock
        BY <1>1 DEF SharedInv, StoreTypes
      <4> QED BY <4>1, MemoryStoreAssumption
    <3>2. IsFiniteSet(unswept)
      BY <3>1, FS_Interval, FS_Subset
    <3>3. Owed(db, {}) \in SUBSET unswept
      BY DEF Owed
    <3> QED BY <3>2, <3>3, FS_Subset, FS_CardinalityType
  <2>6. c <= s /\ s \in Nat
    <3>1. S \in SUBSET Proc
      OBVIOUS
    <3>2. IsFiniteSet(S)
      BY <3>1, FS_Subset, MemoryStoreAssumption
    <3>3. (AtWork(db) \ {}) \in SUBSET S
      BY DEF AtWork
    <3> QED BY <3>2, <3>3, FS_Subset, FS_CardinalityType
  <2> HIDE DEF a, b, c, u, s, n
  <2>7. n <= MaxRows + u + s
    BY <2>2, <2>3, <2>4, <2>5, <2>6, MemoryStoreAssumption
  <2> QED BY <2>7 DEF n, u, s
<1>2. Invariant /\ SharedInv /\ SharedInv' /\ BoundedInv /\ [Next]_vars => BoundedInv'
  BY BoundedStep
<1>3. Init => BoundedInv
  BY InitBounded
<1> QED BY <1>1, <1>2, <1>3, MemoriesAreOwn, PTL DEF Spec
=============================================================================
