--------------------------- MODULE SettingsProofs ----------------------------
(***************************************************************************)
(* Proofs about ModelSettings for any number of writers, of models, of     *)
(* settings, faults and boots: what was reported as saved is in the file,  *)
(* and the daemon runs with it.                                            *)
(***************************************************************************)
EXTENDS ModelSettings, WellFoundedInduction, SequenceTheorems, TLAPS

(***************************************************************************)
(* The lines of a key.                                                     *)
(***************************************************************************)

Lines == [key : Keys, value : Values]

At(f, k) == {n \in DOMAIN f : f[n].key = k}

\* A set of positions has a largest one.
LEMMA MaxIn ==
    ASSUME NEW n \in Nat, NEW S \in SUBSET (1..n), S # {}
    PROVE  Max(S) \in S /\ \A i \in S : Max(S) >= i
<1> DEFINE T == {m \in Nat : \A i \in S : i <= m}
<1>1. T \subseteq Nat /\ n \in T
  OBVIOUS
<1>2. PICK m \in T : \A k \in T : ~(<<k, m>> \in OpToRel(<, Nat))
  BY <1>1, WFMin, NatLessThanWellFounded
<1>3. m \in Nat /\ \A i \in S : i <= m
  OBVIOUS
<1>4. \A k \in T : ~(k < m)
  BY <1>1, <1>2 DEF OpToRel
<1>5. m \in S
  <2> SUFFICES ASSUME m \notin S PROVE FALSE
    OBVIOUS
  <2>1. PICK i \in S : TRUE
    OBVIOUS
  <2>2. m >= 1 /\ \A j \in S : j <= m - 1
    BY <1>3, <2>1
  <2>3. m - 1 \in T /\ m - 1 < m
    BY <1>3, <2>2
  <2> QED BY <1>4, <2>3
<1>6. \E x \in S : \A y \in S : x >= y
  BY <1>3, <1>5
<1> QED BY <1>6 DEF Max

\* The value of a key is the value of its last line.
LEMMA LookupAt ==
    ASSUME NEW f \in Seq(Lines), NEW k, At(f, k) # {}
    PROVE  /\ Max(At(f, k)) \in DOMAIN f /\ f[Max(At(f, k))].key = k
           /\ Lookup(f, k) = f[Max(At(f, k))].value
           /\ Lookup(f, k) \in Values
<1>1. Len(f) \in Nat /\ At(f, k) \in SUBSET (1..Len(f))
  BY DEF At
<1>2. Max(At(f, k)) \in At(f, k)
  BY <1>1, MaxIn
<1>3. Max(At(f, k)) \in DOMAIN f /\ f[Max(At(f, k))].key = k
  BY <1>2 DEF At
<1>4. f[Max(At(f, k))] \in Lines
  BY <1>3
<1>5. Lookup(f, k) = f[Max(At(f, k))].value
  BY DEF Lookup, At
<1> QED BY <1>3, <1>4, <1>5 DEF Lines

\* A key with no line has no value.
LEMMA LookupNone ==
    ASSUME NEW f, NEW k, At(f, k) = {}
    PROVE  Lookup(f, k) = Unset
BY DEF Lookup, At

\* What is looked up is a value.
LEMMA LookupType ==
    ASSUME NEW f \in Seq(Lines), NEW k
    PROVE  Lookup(f, k) \in Values
BY LookupAt, LookupNone DEF Values

\* A line appended gives its key its value and leaves the others theirs.
LEMMA LookupAppend ==
    ASSUME NEW f \in Seq(Lines), NEW k, NEW v, Line(k, v) \in Lines
    PROVE  /\ Append(f, Line(k, v)) \in Seq(Lines)
           /\ Lookup(Append(f, Line(k, v)), k) = v
           /\ \A j : j # k => Lookup(Append(f, Line(k, v)), j) = Lookup(f, j)
<1> DEFINE g == Append(f, Line(k, v))
<1>1. /\ g \in Seq(Lines) /\ Len(f) \in Nat /\ DOMAIN f = 1..Len(f)
      /\ DOMAIN g = 1..(Len(f) + 1)
      /\ \A n \in DOMAIN f : g[n] = f[n]
      /\ g[Len(f) + 1] = Line(k, v)
  OBVIOUS
<1>2. Line(k, v).key = k /\ Line(k, v).value = v
  BY DEF Line
<1> HIDE DEF g
<1>3. Lookup(g, k) = v
  <2>1. Len(f) + 1 \in At(g, k)
    BY <1>1, <1>2 DEF At
  <2>2. At(g, k) \in SUBSET (1..(Len(f) + 1)) /\ Len(f) + 1 \in Nat
    BY <1>1 DEF At
  <2>3. Max(At(g, k)) \in 1..(Len(f) + 1) /\ Max(At(g, k)) >= Len(f) + 1
    BY <2>1, <2>2, MaxIn
  <2>4. Max(At(g, k)) = Len(f) + 1
    BY <1>1, <2>3
  <2> QED BY <1>1, <1>2, <2>1, <2>4, LookupAt
<1>4. ASSUME NEW j, j # k PROVE Lookup(g, j) = Lookup(f, j)
  <2>1. At(g, j) = At(f, j)
    BY <1>1, <1>2, <1>4 DEF At
  <2>2. CASE At(f, j) = {}
    BY <2>1, <2>2, LookupNone
  <2>3. CASE At(f, j) # {}
    BY <1>1, <2>1, <2>3, LookupAt
  <2> QED BY <2>2, <2>3
<1> QED BY <1>1, <1>3, <1>4 DEF g

\* _set_in_lines gives the key the value and leaves the other keys theirs, however
\* many lines each of them has.
LEMMA LookupSet ==
    ASSUME NEW f \in Seq(Lines), NEW k, NEW v, Line(k, v) \in Lines
    PROVE  /\ SetInLines(f, k, v) \in Seq(Lines)
           /\ Lookup(SetInLines(f, k, v), k) = v
           /\ \A j : j # k => Lookup(SetInLines(f, k, v), j) = Lookup(f, j)
<1>1. CASE At(f, k) = {}
  <2>1. SetInLines(f, k, v) = Append(f, Line(k, v))
    BY <1>1 DEF SetInLines, At
  <2> QED BY <2>1, LookupAppend
<1>2. CASE At(f, k) # {}
  <2> DEFINE g == [n \in DOMAIN f |-> IF f[n].key = k THEN Line(k, v) ELSE f[n]]
  <2>1. SetInLines(f, k, v) = g
    BY <1>2 DEF SetInLines, At
  <2>2. Line(k, v).key = k /\ Line(k, v).value = v
    BY DEF Line
  <2>3. DOMAIN f = 1..Len(f) /\ Len(f) \in Nat /\ \A n \in DOMAIN f : f[n] \in Lines
    OBVIOUS
  <2>4. g \in [1..Len(f) -> Lines]
    BY <2>3
  <2>5. g \in Seq(Lines) /\ DOMAIN g = DOMAIN f
    BY <2>3, <2>4
  <2>6. \A j : At(g, j) = At(f, j)
    BY <2>2 DEF At
  <2>7. Lookup(g, k) = v
    <3>1. Max(At(f, k)) \in DOMAIN f /\ f[Max(At(f, k))].key = k
      BY <1>2, LookupAt
    <3>2. g[Max(At(f, k))] = Line(k, v)
      BY <3>1
    <3> HIDE DEF g
    <3> QED BY <1>2, <2>2, <2>5, <2>6, <3>2, LookupAt
  <2>8. ASSUME NEW j, j # k PROVE Lookup(g, j) = Lookup(f, j)
    <3>1. CASE At(f, j) = {}
      BY <2>6, <3>1, LookupNone
    <3>2. CASE At(f, j) # {}
      <4>1. Max(At(f, j)) \in DOMAIN f /\ f[Max(At(f, j))].key = j
        BY <3>2, LookupAt
      <4>2. g[Max(At(f, j))] = f[Max(At(f, j))]
        BY <2>8, <4>1
      <4> HIDE DEF g
      <4> QED BY <2>5, <2>6, <3>2, <4>2, LookupAt
    <3> QED BY <3>1, <3>2
  <2> HIDE DEF g
  <2> QED BY <2>1, <2>5, <2>7, <2>8
<1> QED BY <1>1, <1>2

(***************************************************************************)
(* Types.                                                                  *)
(***************************************************************************)

Counts == [sets : 0..MaxSets, answers : 0..MaxSets, faults : 0..MaxFaults,
           boots : 0..MaxBoots]

\* A count below its bound may be taken one further.
LEMMA Ticks ==
    ASSUME count \in Counts
    PROVE  /\ Tick("sets") /\ count.sets < MaxSets => count' \in Counts
           /\ Tick("answers") /\ count.answers < MaxSets => count' \in Counts
           /\ Tick("faults") /\ count.faults < MaxFaults => count' \in Counts
           /\ Tick("boots") /\ count.boots < MaxBoots => count' \in Counts
<1>1. MaxSets \in Nat /\ MaxFaults \in Nat /\ MaxBoots \in Nat
  BY ModelSettingsAssumption
<1>2. ASSUME Tick("sets"), count.sets < MaxSets PROVE count' \in Counts
  <2>1. count.sets + 1 \in 0..MaxSets
    BY <1>1, <1>2 DEF Counts
  <2> QED BY <1>2, <2>1 DEF Counts, Tick
<1>3. ASSUME Tick("answers"), count.answers < MaxSets PROVE count' \in Counts
  <2>1. count.answers + 1 \in 0..MaxSets
    BY <1>1, <1>3 DEF Counts
  <2> QED BY <1>3, <2>1 DEF Counts, Tick
<1>4. ASSUME Tick("faults"), count.faults < MaxFaults PROVE count' \in Counts
  <2>1. count.faults + 1 \in 0..MaxFaults
    BY <1>1, <1>4 DEF Counts
  <2> QED BY <1>4, <2>1 DEF Counts, Tick
<1>5. ASSUME Tick("boots"), count.boots < MaxBoots PROVE count' \in Counts
  <2>1. count.boots + 1 \in 0..MaxBoots
    BY <1>1, <1>5 DEF Counts
  <2> QED BY <1>5, <2>1 DEF Counts, Tick
<1> QED BY <1>2, <1>3, <1>4, <1>5

\* Type correctness, the texts of the writers included.
TypeInv == TypeOK /\ text \in [Writers -> Seq(Lines)]

\* The line a set asks for is a line.
LEMMA SetIsLine ==
    ASSUME TypeInv, NEW p \in Writers
    PROVE  /\ Line(set[p].key, set[p].value) \in Lines
           /\ set[p].key \in Keys /\ set[p].value \in Values
<1>1. set[p] \in [user : Users \cup {"dev"}, key : Roles, value : Values]
  BY DEF TypeInv, TypeOK
<1> QED BY <1>1 DEF Line, Lines, Keys

\* What a writer may leave is lines.
LEMMA WrittenType ==
    ASSUME TypeInv, NEW p \in Writers, NEW f \in Written(p)
    PROVE  f \in Seq(Lines)
<1>1. text[p] \in Seq(Lines) /\ file \in Seq(Lines) /\ Len(file) \in Nat
  <2>1. file \in Seq(Lines)
    BY DEF TypeInv, TypeOK, Lines
  <2>2. text[p] \in Seq(Lines)
    BY DEF TypeInv
  <2> QED BY <2>1, <2>2
<1>2. PICK n \in 2..Len(file) + 2 : f = text[p] \o SubSeq(file, n, Len(file))
  BY DEF Written
<1>3. \A i \in n..Len(file) : file[i] \in Lines
  BY <1>1
<1>4. SubSeq(file, n, Len(file)) \in Seq(Lines)
  BY <1>1, <1>3, SubSeqProperties
<1> QED BY <1>1, <1>2, <1>4, ConcatProperties

\* The environment of a daemon has a value for every key.
LEMMA EnvironmentType == TypeInv => Environment \in [Keys -> Values]
<1> SUFFICES ASSUME TypeInv, NEW k \in Keys
             PROVE  Override(file, k, IF k = "heavy" THEN host ELSE Baked[k]) \in Values
  BY DEF Environment
<1>1. file \in Seq(Lines) /\ host \in Values
  BY DEF TypeInv, TypeOK, Lines, Values
<1>2. Baked[k] \in Values
  BY DEF Baked, Keys, Roles, Values, Hosts
<1> QED BY <1>1, <1>2, LookupType DEF Override

LEMMA TypeInit == Init => TypeInv
<1> SUFFICES ASSUME Init PROVE TypeInv
  OBVIOUS
<1>1. Nothing \in [Keys -> Values]
  BY DEF Nothing, Values
<1>2. "voice" \in Roles /\ Unset \in Values
  BY DEF Roles, Values
<1> QED BY <1>1, <1>2, ModelSettingsAssumption DEF Init, TypeInv, TypeOK, Lines

LEMMA TypeStep == TypeInv /\ [Next]_vars => TypeInv'
<1> SUFFICES ASSUME TypeInv, [Next]_vars PROVE TypeInv'
  OBVIOUS
<1>0. /\ file \in Seq(Lines) /\ disk \in Seq(Lines)
      /\ pc \in [Writers -> {"idle", "read", "open", "write"}]
      /\ set \in [Writers -> [user : Users \cup {"dev"}, key : Roles, value : Values]]
      /\ host \in Hosts /\ daemon \in {Unset} \cup [Keys -> Values]
      /\ saved \in [Keys -> Values] /\ last \in [Keys -> Values]
      /\ applied \in [Keys -> Values]
      /\ raced \in [Writers -> BOOLEAN] /\ text \in [Writers -> Seq(Lines)]
      /\ count \in Counts
  BY DEF TypeInv, TypeOK, Lines, Counts
<1>1. Nothing \in [Keys -> Values] /\ Unset \in Values /\ Roles \subseteq Keys
  BY DEF Nothing, Values, Keys
<1>3. ASSUME NEW p \in Writers, pc'[p] \in {"open", "write"}, pc[p] \in {"open", "write"},
             text'[p] = text[p], set'[p] = set[p]
      PROVE  Lookup(text'[p], set'[p].key) = set'[p].value
  BY <1>3 DEF TypeInv, TypeOK
<1>4. ASSUME NEW p \in Writers, NEW u \in Users, NEW r \in Roles, NEW m \in Models,
             Begin(p, u, r, m)
      PROVE  TypeInv'
  <2>1. m \in Values
    BY DEF Values
  <2>2. set' \in [Writers -> [user : Users \cup {"dev"}, key : Roles, value : Values]]
    BY <1>0, <1>4, <2>1 DEF Begin
  <2>3. count' \in Counts
    BY <1>0, <1>4, Ticks DEF Begin
  <2>4. pc' \in [Writers -> {"idle", "read", "open", "write"}]
    BY <1>0, <1>4 DEF Begin, Goto
  <2>5. \A q \in Writers : pc'[q] \in {"open", "write"} =>
           pc[q] \in {"open", "write"} /\ text'[q] = text[q] /\ set'[q] = set[q]
    BY <1>0, <1>4 DEF Begin, Goto
  <2> QED BY <1>0, <1>3, <1>4, <2>2, <2>3, <2>4, <2>5
          DEF Begin, running, TypeInv, TypeOK, Lines, Counts
<1>5. ASSUME NEW p \in Writers, Read(p) PROVE TypeInv'
  <2> DEFINE lines == IF set[p].user = "root" THEN file ELSE <<>>
             t == SetInLines(lines, set[p].key, set[p].value)
  <2>1. lines \in Seq(Lines)
    BY <1>0
  <2>2. Line(set[p].key, set[p].value) \in Lines
    BY SetIsLine
  <2> HIDE DEF lines
  <2>3. t \in Seq(Lines) /\ Lookup(t, set[p].key) = set[p].value
    BY <2>1, <2>2, LookupSet
  <2>4. text' = [text EXCEPT ![p] = t]
    BY <1>5 DEF Read, lines
  <2> HIDE DEF t
  <2>5. text' \in [Writers -> Seq(Lines)] /\ raced' \in [Writers -> BOOLEAN]
    BY <1>0, <1>5, <2>3, <2>4 DEF Read, Torn
  <2>6. pc' \in [Writers -> {"idle", "read", "open", "write"}]
    BY <1>0, <1>5 DEF Read, Goto
  <2>7. ASSUME NEW q \in Writers, pc'[q] \in {"open", "write"}
        PROVE  Lookup(text'[q], set'[q].key) = set'[q].value
    <3>1. CASE q = p
      BY <1>0, <1>5, <2>3, <2>4, <3>1 DEF Read
    <3>2. CASE q # p
      BY <1>0, <1>3, <1>5, <2>4, <2>7, <3>2 DEF Read, Goto
    <3> QED BY <3>1, <3>2
  <2> QED BY <1>0, <1>5, <2>5, <2>6, <2>7 DEF Read, running, TypeInv, TypeOK, Lines, Counts
<1>6. ASSUME NEW p, Touched(p) PROVE raced' \in [Writers -> BOOLEAN]
  BY <1>0, <1>6 DEF Touched
<1>7. ASSUME NEW p \in Writers, NEW from, NEW to, Goto(p, from, to),
             to = "write" => from = "open", to # "open",
             to \in {"idle", "write"}, UNCHANGED <<text, set>>
      PROVE  /\ pc' \in [Writers -> {"idle", "read", "open", "write"}]
             /\ \A q \in Writers : pc'[q] \in {"open", "write"} =>
                   Lookup(text'[q], set'[q].key) = set'[q].value
  <2>1. pc' \in [Writers -> {"idle", "read", "open", "write"}]
    BY <1>0, <1>7 DEF Goto
  <2>2. \A q \in Writers : pc'[q] \in {"open", "write"} => pc[q] \in {"open", "write"}
    BY <1>0, <1>7 DEF Goto
  <2> QED BY <1>3, <1>7, <2>1, <2>2
<1>8. ASSUME NEW p \in Writers, Open(p) PROVE TypeInv'
  <2>1. <<>> \in Seq(Lines)
    OBVIOUS
  <2> QED BY <1>0, <1>6, <1>7, <1>8, <2>1 DEF Open, running, TypeInv, TypeOK, Lines, Counts
<1>9. ASSUME Tick("faults"), count.faults < MaxFaults
      PROVE  count' \in Counts
  BY <1>0, <1>9, Ticks
<1>10. ASSUME NEW p \in Writers, OpenFails(p) PROVE TypeInv'
  BY <1>0, <1>7, <1>9, <1>10 DEF OpenFails, running, TypeInv, TypeOK, Lines, Counts
<1>11. ASSUME NEW p \in Writers, Write(p) PROVE TypeInv'
  <2>1. file' \in Seq(Lines)
    BY <1>11, WrittenType DEF Write
  <2>2. set[p].key \in Keys /\ set[p].value \in Values
    BY SetIsLine
  <2>3. last' \in [Keys -> Values] /\ saved' \in [Keys -> Values]
    <3>1. last' \in [Keys -> Values]
      BY <1>0, <1>11, <2>2 DEF Write
    <3>2. CASE raced[p]
      BY <1>1, <1>11, <3>1, <3>2 DEF Write
    <3>3. CASE ~raced[p]
      BY <1>0, <1>1, <1>11, <2>2, <3>1, <3>3 DEF Write
    <3> QED BY <3>2, <3>3
  <2> QED BY <1>0, <1>6, <1>7, <1>11, <2>1, <2>3 DEF Write, running, TypeInv, TypeOK, Lines, Counts
<1>12. ASSUME NEW p \in Writers, Abort(p) PROVE TypeInv'
  <2>1. Goto(p, pc[p], "idle")
    BY <1>12 DEF Abort, Goto
  <2>2. saved' \in [Keys -> Values]
    BY <1>0, <1>1, <1>12 DEF Abort
  <2> QED BY <1>0, <1>7, <1>9, <1>12, <2>1, <2>2 DEF Abort, running, TypeInv, TypeOK, Lines, Counts
<1>13. ASSUME NEW q \in Writers, UNCHANGED <<pc, text, set>>, pc'[q] \in {"open", "write"}
       PROVE  Lookup(text'[q], set'[q].key) = set'[q].value
  BY <1>3, <1>13
<1>14. ASSUME Enable PROVE TypeInv'
  <2>1. Line("cloud", "1") \in Lines
    BY DEF Line, Lines, Keys, Values
  <2>2. file' \in Seq(Lines)
    BY <1>0, <1>14, <2>1 DEF Enable
  <2>3. "1" \in Values
    BY DEF Values
  <2>4. last' \in [Keys -> Values] /\ saved' \in [Keys -> Values]
    BY <1>0, <1>14, <2>3 DEF Enable
  <2>5. count' \in Counts
    BY <1>0, <1>14, Ticks DEF Enable
  <2>6. pc' = pc /\ text' = text /\ set' = set
    BY <1>14 DEF Enable, writer
  <2> QED BY <1>0, <1>6, <1>13, <1>14, <2>2, <2>4, <2>5, <2>6
          DEF Enable, running, TypeInv, TypeOK, Lines, Counts
<1>15. ASSUME Sync PROVE TypeInv'
  BY <1>0, <1>13, <1>15 DEF Sync, running, writer, TypeInv, TypeOK, Lines, Counts
<1>16. ASSUME NEW h \in Hosts, Boot(h), file' \in Seq(Lines), disk' \in Seq(Lines),
              saved' \in [Keys -> Values],
              count' \in Counts
       PROVE  TypeInv'
  BY <1>0, <1>1, <1>16 DEF Boot, TypeInv, TypeOK, Lines, Counts
<1>17. ASSUME NEW h \in Hosts, Reboot(h) PROVE TypeInv'
  <2>1. count' \in Counts
    BY <1>0, <1>17, Ticks DEF Reboot
  <2> QED BY <1>0, <1>1, <1>16, <1>17, <2>1 DEF Reboot
<1>18. ASSUME NEW h \in Hosts, PowerCut(h) PROVE TypeInv'
  BY <1>0, <1>1, <1>9, <1>16, <1>18 DEF PowerCut
<1>19. ASSUME Start PROVE TypeInv'
  <2>1. daemon' \in [Keys -> Values]
    BY <1>19, EnvironmentType DEF Start
  <2>2. applied' \in [Keys -> Values]
    BY <1>0, <1>1, <1>19 DEF Start
  <2>3. count' \in Counts
    BY <1>0, <1>19, Ticks DEF Start
  <2> QED BY <1>0, <1>13, <1>19, <2>1, <2>2, <2>3 DEF Start, writer, TypeInv, TypeOK, Lines, Counts
<1>20. ASSUME EnableFails PROVE TypeInv'
  <2>1. "1" \in Values
    BY DEF Values
  <2>2. last' \in [Keys -> Values]
    BY <1>0, <1>20, <2>1 DEF EnableFails
  <2> QED BY <1>0, <1>9, <1>13, <1>20, <2>2
          DEF EnableFails, running, writer, TypeInv, TypeOK, Lines, Counts
<1>21. CASE UNCHANGED vars
  BY <1>0, <1>13, <1>21 DEF vars, writer, running, TypeInv, TypeOK, Lines, Counts
<1> QED
  BY <1>4, <1>5, <1>8, <1>10, <1>11, <1>12, <1>14, <1>15, <1>17, <1>18, <1>19, <1>20, <1>21
     DEF Next, Set

LEMMA TypeInvariant == Spec => []TypeInv
BY TypeInit, TypeStep, PTL DEF Spec

\* Every variable has its type, for any number of writers, of models, of settings, of
\* faults and of boots, and a writer's text sets what it was asked to set.
THEOREM TypeCorrect == Spec => []TypeOK
<1>1. TypeInv => TypeOK
  BY DEF TypeInv
<1> QED BY <1>1, TypeInvariant, PTL

(***************************************************************************)
(* What is saved.                                                          *)
(***************************************************************************)

Holds(f, k) == saved[k] # Unset => Lookup(f, k) = saved[k]

Pending(p) == pc[p] \in {"open", "write"} /\ ~raced[p]

\* The file has what is saved, unless a writer has truncated it.
FileKeeps == ~Torn => \A k \in Keys : Holds(file, k)

\* What root is about to write keeps the other settings, unless it raced.
TextsKeep ==
    \A p \in Writers : Pending(p) /\ set[p].user = "root" =>
        \A k \in Keys \ {set[p].key} : Holds(text[p], k)

\* A writer that did not race is alone with the file: nobody else has truncated it,
\* and what it truncated is still empty.
WritersAreAlone ==
    \A p \in Writers : Pending(p) =>
        /\ \A q \in Writers \ {p} : pc[q] # "write"
        /\ pc[p] = "write" => file = <<>>

SavedInv == FileKeeps /\ TextsKeep /\ WritersAreAlone /\ RestartApplies

\* An action that leaves the file and the settings alone, and takes no writer further
\* than it was, disturbs nothing.
LEMMA SavedQuiet ==
    ASSUME TypeInv, SavedInv, UNCHANGED <<file, raced, text, saved>>,
           \A p \in Writers : pc'[p] \in {"open", "write"} =>
               pc'[p] = pc[p] /\ set'[p] = set[p],
           \A p \in Writers : pc[p] = "write" => pc'[p] = "write"
    PROVE  FileKeeps' /\ TextsKeep' /\ WritersAreAlone'
<1>1. FileKeeps'
  BY DEF SavedInv, FileKeeps, Torn, Holds
<1>2. \A p \in Writers : Pending(p)' => Pending(p) /\ pc'[p] = pc[p] /\ set'[p] = set[p]
  BY DEF Pending
<1>3. TextsKeep'
  BY <1>2 DEF SavedInv, TextsKeep, Holds
<1>4. WritersAreAlone'
  BY <1>2 DEF SavedInv, WritersAreAlone
<1> QED BY <1>1, <1>3, <1>4

\* Once nothing is saved, or once all that write have raced, there is nothing to keep.
LEMMA NoneSaved ==
    ASSUME saved' = Nothing
    PROVE  FileKeeps' /\ TextsKeep'
<1>1. \A k \in Keys : saved'[k] = Unset
  BY DEF Nothing
<1> QED BY <1>1 DEF FileKeeps, TextsKeep, Holds

\* A writer that touches the file makes all the others race, and is the only one left.
LEMMA TouchedAlone ==
    ASSUME TypeInv, NEW p, Touched(p), UNCHANGED <<set, text>>,
           \A q \in Writers \ {p} : pc'[q] = pc[q]
    PROVE  \A q \in Writers \ {p} : ~Pending(q)'
BY DEF Touched, Pending, TypeInv, TypeOK

LEMMA SavedInit == Init => SavedInv
<1> SUFFICES ASSUME Init PROVE SavedInv
  OBVIOUS
<1>1. \A k \in Keys : saved[k] = Unset /\ applied[k] = Unset
  BY DEF Init, Nothing
<1>2. \A p \in Writers : pc[p] = "idle"
  BY DEF Init
<1> QED BY <1>1, <1>2
    DEF SavedInv, FileKeeps, TextsKeep, WritersAreAlone, RestartApplies, Holds, Pending

LEMMA SavedStep == TypeInv /\ SavedInv /\ [Next]_vars => SavedInv'
<1> SUFFICES ASSUME TypeInv, SavedInv, [Next]_vars PROVE SavedInv'
  OBVIOUS
<1>0. /\ file \in Seq(Lines) /\ text \in [Writers -> Seq(Lines)]
      /\ pc \in [Writers -> {"idle", "read", "open", "write"}]
      /\ raced \in [Writers -> BOOLEAN] /\ saved \in [Keys -> Values]
      /\ Unset \notin Writers
  BY ModelSettingsAssumption DEF TypeInv, TypeOK, Lines
<1>a. ASSUME UNCHANGED <<daemon, applied>> PROVE RestartApplies'
  BY <1>a DEF SavedInv, RestartApplies
<1>1. ASSUME NEW p \in Writers, NEW u \in Users, NEW r \in Roles, NEW m \in Models,
             Begin(p, u, r, m)
      PROVE  SavedInv'
  <2>1. pc[p] = "idle" /\ pc' = [pc EXCEPT ![p] = "read"]
    BY <1>1 DEF Begin, Goto
  <2>2. \A q \in Writers \ {p} : set'[q] = set[q]
    BY <1>1 DEF Begin, TypeInv, TypeOK
  <2> QED BY <1>0, <1>a, <1>1, <2>1, <2>2, SavedQuiet DEF Begin, running, SavedInv
<1>2. ASSUME NEW p \in Writers, Read(p) PROVE SavedInv'
  <2> DEFINE lines == IF set[p].user = "root" THEN file ELSE <<>>
             t == SetInLines(lines, set[p].key, set[p].value)
  <2>1. /\ pc[p] = "read" /\ pc' = [pc EXCEPT ![p] = "open"]
        /\ text' = [text EXCEPT ![p] = t] /\ raced' = [raced EXCEPT ![p] = Torn]
        /\ UNCHANGED <<file, set, saved, daemon, applied>>
    BY <1>2 DEF Read, Goto, running
  <2>2. \A q \in Writers \ {p} : pc'[q] = pc[q] /\ raced'[q] = raced[q] /\ text'[q] = text[q]
    BY <1>0, <2>1
  <2>3. pc'[p] = "open" /\ text'[p] = t /\ raced'[p] = Torn
    BY <1>0, <2>1
  <2>4. Torn' <=> Torn
    BY <2>1, <2>2, <2>3 DEF Torn
  <2>5. FileKeeps'
    BY <2>1, <2>4 DEF SavedInv, FileKeeps, Holds
  <2>6. \A q \in Writers \ {p} : Pending(q)' => Pending(q)
    BY <2>2 DEF Pending
  <2>7. TextsKeep'
    <3>1. ASSUME ~Torn, set[p].user = "root", NEW k \in Keys \ {set[p].key}
          PROVE  Lookup(t, k) = Lookup(file, k)
      <4>1. lines = file
        BY <3>1
      <4>2. Line(set[p].key, set[p].value) \in Lines
        BY SetIsLine
      <4> HIDE DEF lines
      <4> QED BY <1>0, <3>1, <4>1, <4>2, LookupSet
    <3> HIDE DEF t
    <3>2. ASSUME NEW q \in Writers, Pending(q)', set'[q].user = "root",
                 NEW k \in Keys \ {set'[q].key}
          PROVE  Holds(text[q], k)'
      <4>1. CASE q = p
        <5>1. ~Torn
          BY <2>3, <3>2, <4>1 DEF Pending
        <5>2. Holds(file, k)
          BY <5>1 DEF SavedInv, FileKeeps
        <5>3. Lookup(t, k) = Lookup(file, k)
          BY <2>1, <3>1, <3>2, <4>1, <5>1
        <5> QED BY <2>1, <2>3, <4>1, <5>2, <5>3 DEF Holds
      <4>2. CASE q # p
        <5>1. Pending(q)
          BY <2>6, <3>2, <4>2
        <5>2. Holds(text[q], k)
          BY <2>1, <3>2, <5>1 DEF SavedInv, TextsKeep
        <5> QED BY <2>1, <2>2, <4>2, <5>2 DEF Holds
      <4> QED BY <4>1, <4>2
    <3> QED BY <3>2 DEF TextsKeep
  <2> HIDE DEF t
  <2>8. WritersAreAlone'
    <3>1. ASSUME NEW q \in Writers, Pending(q)'
          PROVE  /\ \A o \in Writers \ {q} : pc'[o] # "write"
                 /\ pc'[q] = "write" => file' = <<>>
      <4>1. CASE q = p
        BY <2>1, <2>2, <2>3, <3>1, <4>1 DEF Pending, Torn
      <4>2. CASE q # p
        <5>1. Pending(q)
          BY <2>6, <3>1, <4>2
        <5> QED BY <2>1, <2>2, <2>3, <4>2, <5>1 DEF SavedInv, WritersAreAlone
      <4> QED BY <4>1, <4>2
    <3> QED BY <3>1 DEF WritersAreAlone
  <2> QED BY <1>a, <2>1, <2>5, <2>7, <2>8 DEF SavedInv
<1>3. ASSUME NEW p \in Writers, Open(p) PROVE SavedInv'
  <2>1. /\ pc[p] = "open" /\ pc' = [pc EXCEPT ![p] = "write"] /\ file' = <<>>
        /\ Touched(p) /\ UNCHANGED <<set, text, saved, daemon, applied>>
    BY <1>3 DEF Open, Goto, running
  <2>2. pc'[p] = "write" /\ \A q \in Writers \ {p} : pc'[q] = pc[q]
    BY <1>0, <2>1
  <2>3. \A q \in Writers \ {p} : ~Pending(q)'
    BY <2>1, <2>2, TouchedAlone
  <2>4. raced'[p] = raced[p]
    BY <1>0, <2>1 DEF Touched
  <2>5. FileKeeps'
    BY <2>2 DEF FileKeeps, Torn
  <2>6. Pending(p)' => Pending(p)
    BY <2>1, <2>4 DEF Pending
  <2>7. TextsKeep'
    BY <2>1, <2>3, <2>6 DEF SavedInv, TextsKeep, Holds
  <2>8. WritersAreAlone'
    BY <2>1, <2>2, <2>3, <2>6 DEF SavedInv, WritersAreAlone
  <2> QED BY <1>a, <2>1, <2>5, <2>7, <2>8 DEF SavedInv
<1>4. ASSUME NEW p \in Writers, OpenFails(p) PROVE SavedInv'
  <2>1. pc[p] = "open" /\ pc' = [pc EXCEPT ![p] = "idle"]
    BY <1>4 DEF OpenFails, Goto
  <2> QED BY <1>0, <1>a, <1>4, <2>1, SavedQuiet DEF OpenFails, running, SavedInv
<1>5. ASSUME NEW p \in Writers, Write(p) PROVE SavedInv'
  <2>1. /\ pc[p] = "write" /\ pc' = [pc EXCEPT ![p] = "idle"] /\ file' \in Written(p)
        /\ Touched(p) /\ UNCHANGED <<set, text, daemon, applied>>
    BY <1>5 DEF Write, Goto, running
  <2>2. pc'[p] = "idle" /\ \A q \in Writers \ {p} : pc'[q] = pc[q]
    BY <1>0, <2>1
  <2>3. \A q \in Writers : ~Pending(q)'
    BY <2>1, <2>2, TouchedAlone DEF Pending
  <2>4. TextsKeep' /\ WritersAreAlone'
    BY <2>3 DEF TextsKeep, WritersAreAlone
  <2>5. FileKeeps'
    <3>1. CASE raced[p]
      BY <1>5, <3>1, NoneSaved DEF Write
    <3>2. CASE ~raced[p]
      <4>1. Pending(p) /\ file = <<>>
        BY <2>1, <3>2 DEF Pending, SavedInv, WritersAreAlone
      <4>2. PICK n \in 2..Len(file) + 2 : file' = text[p] \o SubSeq(file, n, Len(file))
        BY <2>1 DEF Written
      <4>3. SubSeq(file, n, Len(file)) = <<>>
        BY <4>1, SubSeqEmpty
      <4>4. file' = text[p]
        BY <1>0, <4>2, <4>3, ConcatEmptySeq
      <4>5. Lookup(text[p], set[p].key) = set[p].value
        BY <2>1 DEF TypeInv, TypeOK
      <4>6. saved' = [k \in Keys |-> CASE k = set[p].key       -> set[p].value
                                       [] set[p].user = "dev"  -> Unset
                                       [] OTHER                -> saved[k]]
        BY <1>5, <3>2 DEF Write
      <4>7. ASSUME NEW k \in Keys PROVE Holds(file, k)'
        <5>1. CASE k = set[p].key
          BY <4>4, <4>5, <4>6, <5>1 DEF Holds
        <5>2. CASE k # set[p].key /\ set[p].user = "dev"
          BY <4>6, <5>2 DEF Holds
        <5>3. CASE k # set[p].key /\ set[p].user # "dev"
          <6>1. set[p].user = "root"
            <7>1. set[p].user \in Users \cup {"dev"}
              BY DEF TypeInv, TypeOK
            <7> QED BY <5>3, <7>1, ModelSettingsAssumption
          <6>2. Holds(text[p], k)
            BY <4>1, <5>3, <6>1 DEF SavedInv, TextsKeep
          <6> QED BY <4>4, <4>6, <5>3, <6>2 DEF Holds
        <5> QED BY <5>1, <5>2, <5>3
      <4> QED BY <4>7 DEF FileKeeps
    <3> QED BY <3>1, <3>2
  <2> QED BY <1>a, <2>1, <2>4, <2>5 DEF SavedInv
<1>6. ASSUME NEW p \in Writers, Abort(p) PROVE SavedInv'
  <2>1. /\ pc' = [pc EXCEPT ![p] = "idle"]
        /\ saved' = IF pc[p] = "write" THEN Nothing ELSE saved
        /\ UNCHANGED <<file, set, text, raced, daemon, applied>>
    BY <1>6 DEF Abort, running
  <2>2. pc'[p] = "idle" /\ \A q \in Writers \ {p} : pc'[q] = pc[q]
    BY <1>0, <2>1
  <2>3. CASE pc[p] = "write"
    <3>1. FileKeeps' /\ TextsKeep'
      BY <2>1, <2>3, NoneSaved
    <3>2. \A q \in Writers : Pending(q)' => Pending(q) /\ pc'[q] = pc[q]
      BY <2>1, <2>2 DEF Pending
    <3>3. WritersAreAlone'
      BY <2>1, <2>2, <3>2 DEF SavedInv, WritersAreAlone
    <3> QED BY <1>a, <2>1, <3>1, <3>3 DEF SavedInv
  <2>4. CASE pc[p] # "write"
    BY <1>0, <1>a, <2>1, <2>2, <2>4, SavedQuiet DEF SavedInv
  <2> QED BY <2>3, <2>4
<1>7. ASSUME Enable PROVE SavedInv'
  <2>1. /\ file' = Append(file, Line("cloud", "1")) /\ Touched(Unset)
        /\ saved' = [saved EXCEPT !["cloud"] = "1"]
        /\ UNCHANGED <<pc, set, text, daemon, applied>>
    BY <1>7 DEF Enable, writer, running
  <2>2. \A q \in Writers : ~Pending(q)'
    BY <1>0, <2>1, TouchedAlone
  <2>3. TextsKeep' /\ WritersAreAlone'
    BY <2>2 DEF TextsKeep, WritersAreAlone
  <2>4. Line("cloud", "1") \in Lines
    BY DEF Line, Lines, Keys, Values
  <2>5. ASSUME ~Torn, NEW k \in Keys PROVE Holds(file, k)'
    <3>1. CASE k = "cloud"
      <4>1. Lookup(file', k) = "1"
        BY <1>0, <2>1, <2>4, <3>1, LookupAppend
      <4> QED BY <1>0, <2>1, <3>1, <4>1 DEF Holds
    <3>2. CASE k # "cloud"
      <4>1. Lookup(file', k) = Lookup(file, k)
        BY <1>0, <2>1, <2>4, <3>2, LookupAppend
      <4>2. saved'[k] = saved[k]
        BY <1>0, <2>1, <3>2
      <4> QED BY <2>5, <4>1, <4>2 DEF SavedInv, FileKeeps, Holds
    <3> QED BY <3>1, <3>2
  <2>6. FileKeeps'
    BY <2>1, <2>5 DEF FileKeeps, Torn
  <2> QED BY <1>a, <2>1, <2>3, <2>6 DEF SavedInv
<1>8. ASSUME Sync PROVE SavedInv'
  BY <1>0, <1>a, <1>8, SavedQuiet DEF Sync, writer, running, SavedInv
<1>9. ASSUME NEW h \in Hosts, Boot(h),
             \/ saved' = Nothing
             \/ ~Torn /\ file' = file /\ saved' = saved
      PROVE  SavedInv'
  <2>1. \A q \in Writers : pc'[q] = "idle"
    BY <1>9 DEF Boot
  <2>2. TextsKeep' /\ WritersAreAlone'
    BY <2>1 DEF TextsKeep, WritersAreAlone, Pending
  <2>3. FileKeeps'
    BY <1>9, NoneSaved DEF SavedInv, FileKeeps, Holds
  <2>4. RestartApplies'
    BY <1>9 DEF Boot, RestartApplies
  <2> QED BY <2>2, <2>3, <2>4 DEF SavedInv
<1>10. ASSUME NEW h \in Hosts, Reboot(h) PROVE SavedInv'
  BY <1>9, <1>10 DEF Reboot
<1>11. ASSUME NEW h \in Hosts, PowerCut(h) PROVE SavedInv'
  BY <1>9, <1>11 DEF PowerCut
<1>12. ASSUME Start PROVE SavedInv'
  <2>1. /\ daemon' = Environment /\ applied' = IF Torn THEN Nothing ELSE saved
        /\ UNCHANGED <<file, pc, set, text, raced, saved>>
    BY <1>12 DEF Start, writer
  <2>2. ASSUME NEW k \in Keys, applied'[k] # Unset PROVE daemon'[k] = applied'[k]
    <3>1. ~Torn /\ applied' = saved
      BY <2>1, <2>2 DEF Nothing
    <3>2. Lookup(file, k) = saved[k] /\ saved[k] # Unset
      BY <2>2, <3>1 DEF SavedInv, FileKeeps, Holds
    <3>3. Environment[k] = Lookup(file, k)
      BY <3>2 DEF Environment, Override
    <3> QED BY <2>1, <3>1, <3>2, <3>3
  <2>3. RestartApplies'
    BY <2>2 DEF RestartApplies
  <2> QED BY <1>0, <2>1, <2>3, SavedQuiet DEF SavedInv
<1>13. ASSUME EnableFails PROVE SavedInv'
  BY <1>0, <1>a, <1>13, SavedQuiet DEF EnableFails, writer, running, SavedInv
<1>14. CASE UNCHANGED vars
  BY <1>0, <1>a, <1>14, SavedQuiet DEF vars, writer, running, SavedInv
<1> QED
  BY <1>1, <1>2, <1>3, <1>4, <1>5, <1>6, <1>7, <1>8, <1>10, <1>11, <1>12, <1>13, <1>14
     DEF Next, Set

LEMMA SavedInvariant == Spec => []SavedInv
<1>1. TypeInv /\ SavedInv /\ [Next]_vars => SavedInv'
  BY SavedStep
<1> QED BY <1>1, SavedInit, TypeInvariant, PTL DEF Spec

\* What was reported as saved is in the file and is what root is shown, until it is
\* set again, but for the five ways a setting is lost: a set by dev, a race, a writer
\* that stops after the truncation, a power cut, and an append of the wizard that failed.
THEOREM SavedIsKeptHolds == Spec => []SavedIsKept
<1>1. SavedInv => SavedIsKept
  BY DEF SavedInv, FileKeeps, Holds, SavedIsKept, Resolve, Override
<1> QED BY <1>1, SavedInvariant, PTL

\* A daemon runs with what was saved, and not lost in one of those ways, when it was
\* started, whatever the image says and whatever model was picked for the host.
THEOREM RestartAppliesHolds == Spec => []RestartApplies
<1>1. SavedInv => RestartApplies
  BY DEF SavedInv
<1> QED BY <1>1, SavedInvariant, PTL
=============================================================================
