------------------------ MODULE StreamJournalProofs ------------------------
(***************************************************************************)
(* Proofs about StreamJournal for any paths, keys and history.  The types  *)
(* need no hypothesis; what the file is needs the only faults to be        *)
(* crashes and renames that hit an append: the others really break the     *)
(* log.  That excludes a Project that comes back to a path whose cache the *)
(* process still has: it may be renamed and deleted in any other way.      *)
(*                                                                         *)
(* The invariants speak of what a reader makes of the file, with its       *)
(* tests for order and repetition.  The lemma ReadsAll is the heart of the *)
(* argument: a file without gap and repeat passes these tests entirely, so *)
(* the inductive invariant can speak of the lines themselves.              *)
(***************************************************************************)
EXTENDS StreamJournal, WellFoundedInduction, TLAPS

Benign == Faults \subseteq {"crash", "moved"}

WriterStates == [loaded : BOOLEAN, next : Nat, keys : SUBSET Keys]

KeysOf(f) == {f[i].key : i \in DOMAIN f}

RecordsOf(f) == {f[i] : i \in DOMAIN f}

IsLog(f) ==
    /\ f \in Seq(Record)
    /\ \A i \in DOMAIN f : f[i].seq = i
    /\ \A i, j \in DOMAIN f : f[i].key = f[j].key => i = j

\* An incomplete line that can be parsed is the record that comes next.
TailIsNext ==
    \A i \in DOMAIN tail :
        tail[i] # Torn => tail[i].seq = Len(lines) + 1 /\ tail[i].key \notin KeysOf(lines)

CacheIsLines ==
    there /\ writer.loaded =>
        writer.next = Len(lines) + 1 /\ writer.keys = KeysOf(lines)

\* A running import has recorded what comes before its next key.
ImportInOrder == \A j \in 1..(importing - 1) : History[j] \in KeysOf(lines)

\* The appends of a running import cached what they found and wrote.
ImportCached == importing > 1 => writer.loaded

BaselineIsLast == Baseline \in KeysOf(lines) => Imported \subseteq KeysOf(lines)

IInv ==
    /\ TypeOK
    /\ IsLog(lines)
    /\ TailIsNext
    /\ CacheIsLines
    /\ acked \subseteq RecordsOf(lines)
    /\ ImportInOrder
    /\ ImportCached
    /\ BaselineIsLast

-----------------------------------------------------------------------------
(* THE READER AND APPENDING *)

LEMMA LastIsGreatest ==
    ASSUME NEW n \in Nat, n # 0
    PROVE  (CHOOSE m \in 1..n : \A s \in 1..n : s <= m) = n
<1>1. n \in 1..n /\ \A s \in 1..n : s <= n
  OBVIOUS
<1>2. ASSUME NEW m \in 1..n, \A s \in 1..n : s <= m
      PROVE  m = n
  <2>1. n <= m
    BY <1>1, <1>2
  <2>2. QED
    BY <2>1
<1>3. QED
  BY <1>1, <1>2

\* _read_file returns every line of a file without gap and repeat, and its
\* cursor is the number of lines.
LEMMA ReadsAll ==
    ASSUME NEW f, IsLog(f)
    PROVE  /\ Events(f) = RecordsOf(f)
           /\ Cursor(f) = Len(f)
<1>1. f \in Seq(Record) /\ DOMAIN f = 1..Len(f) /\ Len(f) \in Nat
  BY DEF IsLog
<1>2. \A i \in DOMAIN f : f[i].seq = i
  BY DEF IsLog
<1>3. \A i, j \in DOMAIN f : f[i].key = f[j].key => i = j
  BY DEF IsLog
<1>4. \A i \in DOMAIN f : InOrder(f, i)
  BY <1>1, <1>2 DEF InOrder
<1>5. Kept(f) = DOMAIN f
  BY <1>1, <1>3, <1>4 DEF Kept
<1>6. Events(f) = RecordsOf(f)
  BY <1>5 DEF Events, RecordsOf
<1>7. SequencesOf(f) = 1..Len(f)
  BY <1>1, <1>2 DEF SequencesOf
<1>8. CASE f = <<>>
  BY <1>6, <1>8 DEF Cursor
<1>9. CASE f # <<>>
  <2>1. Len(f) # 0
    BY <1>1, <1>9
  <2>2. (CHOOSE m \in 1..Len(f) : \A s \in 1..Len(f) : s <= m) = Len(f)
    BY <1>1, <2>1, LastIsGreatest
  <2>3. QED
    BY <1>6, <1>7, <1>9, <2>2 DEF Cursor
<1>10. QED
  BY <1>8, <1>9

\* Appending the next record of a new key to a log gives a log.
LEMMA AppendsNext ==
    ASSUME NEW f, IsLog(f),
           NEW r \in Record, r.seq = Len(f) + 1, r.key \notin KeysOf(f)
    PROVE  /\ IsLog(Append(f, r))
           /\ Len(Append(f, r)) = Len(f) + 1
           /\ KeysOf(Append(f, r)) = KeysOf(f) \cup {r.key}
           /\ RecordsOf(Append(f, r)) = RecordsOf(f) \cup {r}
<1> DEFINE g == Append(f, r)
<1>1. f \in Seq(Record) /\ DOMAIN f = 1..Len(f) /\ Len(f) \in Nat
  BY DEF IsLog
<1>2. g \in Seq(Record) /\ Len(g) = Len(f) + 1 /\ DOMAIN g = 1..(Len(f) + 1)
  BY <1>1
<1>3. g[Len(f) + 1] = r /\ \A i \in 1..Len(f) : g[i] = f[i]
  BY <1>1
<1> HIDE DEF g
<1>4. \A i \in DOMAIN f : f[i].seq = i
  BY DEF IsLog
<1>5. \A i, j \in DOMAIN f : f[i].key = f[j].key => i = j
  BY DEF IsLog
<1>6. \A i \in DOMAIN f : f[i].key # r.key
  BY DEF KeysOf
<1>7. \A i \in DOMAIN g : i \in DOMAIN f \/ i = Len(f) + 1
  BY <1>1, <1>2
<1>8. \A i \in DOMAIN g : g[i].seq = i
  BY <1>1, <1>3, <1>4, <1>7
<1>9. \A i, j \in DOMAIN g : g[i].key = g[j].key => i = j
  BY <1>1, <1>3, <1>5, <1>6, <1>7
<1>10. IsLog(g)
  BY <1>2, <1>8, <1>9 DEF IsLog
<1>11. KeysOf(g) = KeysOf(f) \cup {r.key}
  BY <1>1, <1>2, <1>3, <1>7 DEF KeysOf
<1>12. RecordsOf(g) = RecordsOf(f) \cup {r}
  BY <1>1, <1>2, <1>3, <1>7 DEF RecordsOf
<1>13. QED
  BY <1>2, <1>10, <1>11, <1>12 DEF g

\* Before an append, the writer's state is that of the lines, cached or not.
LEMMA LoadedIsLines ==
    ASSUME IInv, there
    PROVE  Loaded = [loaded |-> TRUE, next |-> Len(lines) + 1, keys |-> KeysOf(lines)]
<1>1. CASE writer.loaded
  <2>1. writer \in WriterStates
    BY DEF IInv, TypeOK, writer, WriterStates
  <2> HIDE DEF writer
  <2> QED
    BY <1>1, <2>1 DEF IInv, CacheIsLines, Loaded, WriterStates
<1>2. CASE ~writer.loaded
  <2>1. Events(lines) = RecordsOf(lines) /\ Cursor(lines) = Len(lines)
    BY ReadsAll DEF IInv
  <2>2. {r.key : r \in Events(lines)} = KeysOf(lines)
    BY <2>1 DEF RecordsOf, KeysOf
  <2>3. QED
    BY <1>2, <2>1, <2>2 DEF Loaded
<1>3. QED
  BY <1>1, <1>2

\* An append changes the cache of the Project's path.
LEMMA CachesOne ==
    ASSUME TypeOK, NEW c \in WriterStates, Caches(c)
    PROVE  /\ states' \in [Paths -> WriterStates]
           /\ states'[project] = c
           /\ \A p \in Paths : p # project => states'[p] = states[p]
<1>1. project \in Paths /\ states \in [Paths -> WriterStates]
  BY DEF TypeOK, WriterStates
<1> QED
  BY <1>1 DEF Caches

\* The end of the process takes every cache.
LEMMA ForgetsAll ==
    ASSUME Forgotten
    PROVE  /\ states' \in [Paths -> WriterStates]
           /\ \A p \in Paths : states'[p] = Unloaded /\ ~states'[p].loaded
<1>1. Unloaded \in WriterStates /\ ~Unloaded.loaded
  BY DEF Unloaded, WriterStates
<1> QED
  BY <1>1 DEF Forgotten
-----------------------------------------------------------------------------
(* THE INDUCTIVE INVARIANT *)

LEMMA InitIInv == Init => IInv
<1> SUFFICES ASSUME Init PROVE IInv
  OBVIOUS
<1> USE Parameters DEF Init
<1>1. TypeOK
  BY DEF TypeOK, Unloaded
<1>2. IsLog(lines)
  BY DEF IsLog
<1>3. KeysOf(lines) = {}
  BY DEF KeysOf
<1>4. ~writer.loaded
  BY DEF writer, Unloaded
<1>5. TailIsNext /\ CacheIsLines /\ ImportInOrder /\ ImportCached /\ BaselineIsLast
  BY <1>3, <1>4 DEF TailIsNext, CacheIsLines, ImportInOrder, ImportCached, BaselineIsLast
<1>6. QED
  BY <1>1, <1>2, <1>5 DEF IInv

\* A step that leaves the complete lines and the acknowledgements alone.
LEMMA LinesKept ==
    ASSUME IInv, UNCHANGED lines,
           tail' = <<>> \/ UNCHANGED tail,
           project' \in Paths, there' \in BOOLEAN, failures' \in Nat,
           states' \in [Paths -> WriterStates],
           there' /\ writer'.loaded => there /\ writer' \in {Loaded, writer},
           UNCHANGED acked,
           seen' \subseteq Record,
           importing' \in 0..Len(History),
           importing' > 1 => writer'.loaded,
           \A j \in 1..(importing' - 1) : History[j] \in KeysOf(lines)
    PROVE  IInv'
<1>1. there => Loaded = [loaded |-> TRUE, next |-> Len(lines) + 1, keys |-> KeysOf(lines)]
  BY LoadedIsLines
<1>2. TypeOK'
  <2>1. tail \in Seq(Record \cup {Torn}) /\ Len(tail) <= 1
    BY DEF IInv, TypeOK
  <2>2. <<>> \in Seq(Record \cup {Torn}) /\ Len(<<>>) <= 1
    OBVIOUS
  <2>3. tail' \in Seq(Record \cup {Torn}) /\ Len(tail') <= 1
    BY <2>1, <2>2
  <2>4. QED
    BY <2>3 DEF IInv, TypeOK, WriterStates
<1>3. IsLog(lines')
  BY DEF IInv
<1>4. KeysOf(lines)' = KeysOf(lines) /\ RecordsOf(lines)' = RecordsOf(lines)
  BY DEF KeysOf, RecordsOf
<1>5. TailIsNext'
  BY <1>4 DEF IInv, TailIsNext
<1>6. CacheIsLines'
  <2> SUFFICES ASSUME there', writer'.loaded
               PROVE  writer'.next = Len(lines) + 1 /\ writer'.keys = KeysOf(lines)
    BY <1>4 DEF CacheIsLines
  <2>1. there /\ writer' \in {Loaded, writer}
    OBVIOUS
  <2>2. CASE writer' = Loaded
    BY <1>1, <2>1, <2>2
  <2>3. CASE writer' = writer
    <3> HIDE DEF writer
    <3> QED
      BY <2>1, <2>3 DEF IInv, CacheIsLines
  <2> QED
    BY <2>1, <2>2, <2>3
<1>7. ImportInOrder' /\ ImportCached' /\ BaselineIsLast'
  BY <1>4 DEF IInv, ImportInOrder, ImportCached, BaselineIsLast
<1>8. QED
  BY <1>2, <1>3, <1>4, <1>5, <1>6, <1>7 DEF IInv

\* A step that removes the file, whoever does it.
LEMMA FileRemoved ==
    ASSUME IInv, Removed,
           UNCHANGED project, there' \in BOOLEAN, UNCHANGED failures,
           states' \in [Paths -> WriterStates],
           there' => ~writer'.loaded,
           importing' = 0 \/ (importing' = importing /\ ~(importing > 1))
    PROVE  IInv'
<1>1. /\ IsLog(lines') /\ lines' \in Seq(Record)
      /\ tail' \in Seq(Record \cup {Torn}) /\ Len(tail') <= 1
  BY DEF Removed, IsLog
<1>2. KeysOf(lines)' = {}
  BY DEF Removed, KeysOf
<1>3. importing' \in 0..Len(History) /\ ~(importing' > 1)
  BY Parameters DEF IInv, TypeOK
<1>4. TypeOK'
  BY <1>1, <1>3 DEF Removed, IInv, TypeOK, WriterStates
<1>5. TailIsNext' /\ CacheIsLines' /\ ImportCached'
  BY <1>3 DEF Removed, TailIsNext, CacheIsLines, ImportCached
<1>6. ImportInOrder' /\ BaselineIsLast'
  <2>1. importing' \in {0, 1}
    BY <1>3, Parameters
  <2>2. \A j \in 1..(importing' - 1) : FALSE
    <3>1. CASE importing' = 0
      BY <3>1
    <3>2. CASE importing' = 1
      BY <3>2
    <3> QED
      BY <2>1, <3>1, <3>2
  <2> QED
    BY <1>2, <2>2 DEF ImportInOrder, BaselineIsLast
<1> QED
  BY <1>1, <1>4, <1>5, <1>6 DEF Removed, IInv

\* An append, of an import or not, leaves an import that is in order.
LEMMA ImportGoesOn ==
    ASSUME IInv, NEW k \in Keys, MayAppend(k), NextImport \/ importing' = 0,
           NEW keys, KeysOf(lines) \subseteq keys, k \in keys
    PROVE  /\ importing' \in 0..Len(History)
           /\ \A j \in 1..(importing' - 1) : History[j] \in keys
<1>1. importing \in 0..Len(History) /\ Len(History) \in Nat
  BY Parameters DEF IInv, TypeOK
<1>2. \A j \in 1..(importing - 1) : History[j] \in keys
  BY DEF IInv, ImportInOrder
<1>3. CASE importing' = 0
  BY <1>1, <1>3
<1>4. CASE importing' = importing + 1 /\ importing \in 1..(Len(History) - 1)
  <2>1. History[importing] \in keys
    BY <1>4 DEF MayAppend
  <2>2. \A j \in 1..(importing' - 1) : j \in 1..(importing - 1) \/ j = importing
    BY <1>1, <1>4
  <2>3. QED
    BY <1>1, <1>2, <1>4, <2>1, <2>2
<1>5. QED
  BY <1>3, <1>4 DEF NextImport

\* The baseline is only appended when the rest of its import is recorded.
LEMMA BaselineComesLast ==
    ASSUME IInv, MayAppend(Baseline)
    PROVE  Imported \subseteq KeysOf(lines) \cup {Baseline}
<1>1. History \in Seq(Keys) /\ Len(History) \in Nat \ {0} /\ DOMAIN History = 1..Len(History)
  BY Parameters
<1>2. Baseline \in Imported
  BY <1>1 DEF Baseline, Imported
<1>3. importing # 0
  BY <1>2, Parameters DEF MayAppend
<1>4. importing \in 1..Len(History)
  BY <1>1, <1>3 DEF IInv, TypeOK
<1>5. History[importing] = History[Len(History)]
  BY <1>3 DEF MayAppend, Baseline
<1>6. importing = Len(History)
  <2>1. importing \in DOMAIN History /\ Len(History) \in DOMAIN History
    BY <1>1, <1>4
  <2>2. QED
    BY <1>5, <2>1, Parameters
<1>7. \A j \in DOMAIN History : j \in 1..(importing - 1) \/ j = Len(History)
  BY <1>1, <1>6
<1>8. QED
  BY <1>7 DEF IInv, ImportInOrder, Imported, Baseline

\* An append that leaves its line in the file, whatever became of the rest.
LEMMA LineAdded ==
    ASSUME IInv, NEW k \in Keys, MayWrite(k),
           lines' = Append(lines, Fresh(k)),
           tail' = <<>>,
           project' \in Paths, UNCHANGED <<there, failures>>,
           states' \in [Paths -> WriterStates],
           writer'.loaded => writer' = Advanced(k),
           acked' \subseteq acked \cup {Fresh(k)},
           UNCHANGED seen,
           importing' = 0 \/ (NextImport /\ writer'.loaded)
    PROVE  IInv'
<1> DEFINE r == [seq |-> Len(lines) + 1, key |-> k]
<1>0. MayAppend(k) /\ k \notin Loaded.keys /\ there
  BY DEF MayWrite, MayAppend
<1>1. Loaded = [loaded |-> TRUE, next |-> Len(lines) + 1, keys |-> KeysOf(lines)]
  BY <1>0, LoadedIsLines
<1>2. IsLog(lines) /\ lines \in Seq(Record) /\ Len(lines) \in Nat
  BY DEF IInv, IsLog
<1>3. Fresh(k) = r /\ k \notin KeysOf(lines)
  BY <1>0, <1>1 DEF Fresh
<1>4. r \in Record
  BY <1>2 DEF Record
<1>5. /\ IsLog(lines')
      /\ Len(lines') = Len(lines) + 1
      /\ KeysOf(lines)' = KeysOf(lines) \cup {k}
      /\ RecordsOf(lines)' = RecordsOf(lines) \cup {r}
  <2>1. /\ IsLog(Append(lines, r))
        /\ Len(Append(lines, r)) = Len(lines) + 1
        /\ KeysOf(Append(lines, r)) = KeysOf(lines) \cup {r.key}
        /\ RecordsOf(Append(lines, r)) = RecordsOf(lines) \cup {r}
    <3> HIDE DEF r
    <3>1. r.seq = Len(lines) + 1 /\ r.key \notin KeysOf(lines)
      BY <1>3 DEF r
    <3>2. QED
      BY <1>2, <1>4, <3>1, AppendsNext
  <2>2. lines' = Append(lines, r)
    BY <1>3
  <2>3. QED
    BY <2>1, <2>2 DEF KeysOf, RecordsOf
<1>6. Advanced(k) = [loaded |-> TRUE,
                     next   |-> (Len(lines) + 1) + 1,
                     keys   |-> KeysOf(lines) \cup {k}]
  BY <1>1 DEF Advanced
<1>7. CacheIsLines' /\ ImportCached'
  <2>1. CacheIsLines'
    BY <1>2, <1>5, <1>6 DEF CacheIsLines
  <2> QED
    BY <2>1 DEF ImportCached
<1>8. TailIsNext'
  BY DEF TailIsNext
<1>9. importing' \in 0..Len(History) /\ ImportInOrder'
  BY <1>0, <1>5, ImportGoesOn DEF ImportInOrder
<1>10. BaselineIsLast'
  BY <1>0, <1>5, BaselineComesLast DEF IInv, BaselineIsLast
<1>11. acked' \subseteq RecordsOf(lines)'
  BY <1>3, <1>5 DEF IInv
<1>12. TypeOK'
  <2>1. tail' \in Seq(Record \cup {Torn}) /\ Len(tail') <= 1
    OBVIOUS
  <2>2. lines' \in Seq(Record)
    BY <1>5 DEF IsLog
  <2>3. acked' \subseteq Record /\ seen' \subseteq Record
    BY <1>3, <1>4 DEF IInv, TypeOK
  <2>4. there' \in BOOLEAN /\ failures' \in Nat
    BY DEF IInv, TypeOK
  <2> QED
    BY <1>9, <2>1, <2>2, <2>3, <2>4 DEF TypeOK, WriterStates
<1>13. QED
  BY <1>5, <1>7, <1>8, <1>9, <1>10, <1>11, <1>12 DEF IInv

\* A crash inside an append leaves a part of the record that comes next.
LEMMA TailLeft ==
    ASSUME IInv, NEW k \in Keys, MayWrite(k),
           NEW r \in {Torn, Fresh(k)}, tail' = <<r>>,
           Forgotten,
           importing' = 0,
           UNCHANGED <<place, lines, told, failures>>
    PROVE  IInv'
<1>0. k \notin Loaded.keys /\ there
  BY DEF MayWrite, MayAppend
<1>1. Loaded = [loaded |-> TRUE, next |-> Len(lines) + 1, keys |-> KeysOf(lines)]
  BY <1>0, LoadedIsLines
<1>2. lines \in Seq(Record) /\ Len(lines) \in Nat
  BY DEF IInv, IsLog
<1>3. Fresh(k) = [seq |-> Len(lines) + 1, key |-> k] /\ k \notin KeysOf(lines)
  BY <1>0, <1>1 DEF Fresh
<1>4. r \in Record \cup {Torn}
  BY <1>2, <1>3 DEF Record
<1>5. KeysOf(lines)' = KeysOf(lines) /\ RecordsOf(lines)' = RecordsOf(lines)
  BY DEF KeysOf, RecordsOf
<1>6. states' \in [Paths -> WriterStates] /\ ~writer'.loaded
  BY ForgetsAll DEF IInv, TypeOK, place, writer
<1>7. TypeOK'
  <2>1. tail' \in Seq(Record \cup {Torn}) /\ Len(tail') <= 1
    BY <1>4
  <2>2. importing' \in 0..Len(History)
    BY Parameters
  <2> QED
    BY <1>6, <2>1, <2>2 DEF IInv, TypeOK, place, told, WriterStates
<1>8. TailIsNext'
  <2>1. \A i \in DOMAIN tail' : tail'[i] = r
    OBVIOUS
  <2>2. r # Torn => r.seq = Len(lines) + 1 /\ r.key \notin KeysOf(lines)
    BY <1>3
  <2>3. QED
    BY <1>5, <2>1, <2>2 DEF TailIsNext
<1>9. CacheIsLines' /\ ImportCached' /\ ImportInOrder' /\ BaselineIsLast'
  BY <1>5, <1>6 DEF IInv, CacheIsLines, ImportCached, ImportInOrder, BaselineIsLast
<1>10. QED
  BY <1>5, <1>7, <1>8, <1>9 DEF IInv, told

\* Every append, whatever becomes of it, keeps the invariant.
LEMMA AppendIInv ==
    ASSUME Benign, IInv, NEW k \in Keys, AppendNow(k)
    PROVE  IInv'
<1>1. MayAppend(k) /\ there
  BY DEF AppendNow, Duplicate, Written, FailsBefore, FailsAfter, WrittenShort, CrashesIn,
         MayWrite, MayAppend
<1>2. Loaded = [loaded |-> TRUE, next |-> Len(lines) + 1, keys |-> KeysOf(lines)]
  BY <1>1, LoadedIsLines
<1>3. /\ TypeOK /\ project \in Paths /\ there \in BOOLEAN /\ failures \in Nat
      /\ importing \in 0..Len(History) /\ seen \subseteq Record /\ Len(History) \in Nat
  BY Parameters DEF IInv, TypeOK
<1>4. Loaded \in WriterStates /\ Loaded.loaded /\ Advanced(k) \in WriterStates /\ Advanced(k).loaded
  <2>1. lines \in Seq(Record) /\ Len(lines) \in Nat
    BY DEF IInv, TypeOK
  <2>2. \A i \in DOMAIN lines : lines[i] \in Record
    BY <2>1
  <2>3. KeysOf(lines) \in SUBSET Keys
    BY <2>2 DEF KeysOf, Record
  <2>4. Loaded.next + 1 \in Nat /\ Loaded.keys \cup {k} \in SUBSET Keys
    BY <1>2, <2>1, <2>3
  <2> QED
    BY <1>2, <2>1, <2>3, <2>4 DEF Advanced, WriterStates
<1>5. \A j \in 1..(0 - 1) : History[j] \in KeysOf(lines)
  OBVIOUS
<1>6. CASE Duplicate(k)
  <2>1. k \in KeysOf(lines) /\ NextImport /\ UNCHANGED <<project, there, failures, lines, acked, seen>>
    BY <1>2, <1>6 DEF Duplicate, place, told
  <2>2. /\ importing' \in 0..Len(History)
        /\ \A j \in 1..(importing' - 1) : History[j] \in KeysOf(lines)
    BY <1>1, <2>1, ImportGoesOn
  <2>3. states' \in [Paths -> WriterStates] /\ writer' = Loaded
    BY <1>3, <1>4, <1>6, <2>1, CachesOne DEF Duplicate, writer
  <2>4. tail' = <<>>
    BY <1>6 DEF Duplicate
  <2> HIDE DEF writer
  <2>5. QED
    BY <1>1, <1>3, <1>4, <2>1, <2>2, <2>3, <2>4, LinesKept
<1>7. CASE Written(k)
  <2>1. /\ MayWrite(k) /\ NextImport /\ UNCHANGED <<project, there, failures, seen>>
        /\ lines' = Append(lines, Fresh(k)) /\ tail' = <<>> /\ acked' = acked \cup {Fresh(k)}
    BY <1>7 DEF Written, place
  <2>2. states' \in [Paths -> WriterStates] /\ writer' = Advanced(k)
    BY <1>3, <1>4, <1>7, <2>1, CachesOne DEF Written, writer
  <2> HIDE DEF writer
  <2> QED
    BY <1>3, <1>4, <2>1, <2>2, LineAdded
<1>8. CASE FailsBefore(k)
  <2>1. UNCHANGED <<project, there, failures, lines, acked, seen>> /\ tail' = <<>> /\ importing' = 0
    BY <1>8 DEF FailsBefore, place, told
  <2>2. states' \in [Paths -> WriterStates] /\ writer' = Loaded
    BY <1>3, <1>4, <1>8, <2>1, CachesOne DEF FailsBefore, writer
  <2> HIDE DEF writer
  <2> QED
    BY <1>1, <1>3, <1>5, <2>1, <2>2, LinesKept
<1>9. ~FailsAfter(k) /\ ~WrittenShort(k)
  BY DEF FailsAfter, WrittenShort, Fails, Benign
<1>10. CASE CrashesIn(k)
  <2>1. /\ MayWrite(k) /\ Forgotten /\ importing' = 0
        /\ UNCHANGED <<project, there, failures, acked, seen>> /\ UNCHANGED <<place, told, failures>>
    BY <1>10 DEF CrashesIn, place, told
  <2>2. CASE UNCHANGED lines /\ \E r \in {Torn, Fresh(k)} : tail' = <<r>>
    BY <2>1, <2>2, TailLeft
  <2>3. CASE lines' = Append(lines, Fresh(k)) /\ tail' = <<>>
    <3>1. states' \in [Paths -> WriterStates] /\ ~writer'.loaded
      BY <1>3, <2>1, ForgetsAll DEF writer
    <3>2. project' \in Paths /\ acked' \subseteq acked \cup {Fresh(k)}
      BY <1>3, <2>1
    <3> HIDE DEF writer
    <3> QED
      BY <2>1, <2>3, <3>1, <3>2, LineAdded
  <2>4. QED
    BY <1>10, <2>2, <2>3 DEF CrashesIn
<1>11. QED
  BY <1>6, <1>7, <1>8, <1>9, <1>10 DEF AppendNow

\* A rename that hits an append leaves its line in the moved file, or nothing;
\* the new path has no cache.
LEMMA RenameInAppendIInv ==
    ASSUME Benign, IInv, NEW k \in Keys, NEW p \in Paths, RenameInAppend(k, p)
    PROVE  IInv'
<1>1. /\ MayWrite(k) /\ project' = p /\ p # project /\ tail' = <<>> /\ importing' = 0
      /\ UNCHANGED <<there, failures, acked, seen>>
      /\ ~states[p].loaded
  BY DEF RenameInAppend, MayComeTo, Benign, told
<1>2. TypeOK /\ there \in BOOLEAN /\ failures \in Nat /\ seen \subseteq Record /\ Len(History) \in Nat
  BY Parameters DEF IInv, TypeOK
<1>3. Loaded \in WriterStates
  <2>1. lines \in Seq(Record) /\ Len(lines) \in Nat
    BY DEF IInv, TypeOK
  <2>2. \A i \in DOMAIN lines : lines[i] \in Record
    BY <2>1
  <2>3. KeysOf(lines) \in SUBSET Keys
    BY <2>2 DEF KeysOf, Record
  <2>4. Loaded = [loaded |-> TRUE, next |-> Len(lines) + 1, keys |-> KeysOf(lines)]
    BY <1>1, LoadedIsLines DEF MayWrite, MayAppend
  <2> QED
    BY <2>1, <2>3, <2>4 DEF WriterStates
<1>4. [loaded |-> TRUE, next |-> 1, keys |-> {}] \in WriterStates
  BY DEF WriterStates
<1>5. PICK c \in WriterStates : Caches(c)
  BY <1>3, <1>4 DEF RenameInAppend
<1>6. states' \in [Paths -> WriterStates] /\ ~writer'.loaded
  BY <1>1, <1>2, <1>5, CachesOne DEF writer
<1> HIDE DEF writer
<1>7. CASE lines' = Append(lines, Fresh(k))
  <2>1. project' \in Paths /\ acked' \subseteq acked \cup {Fresh(k)} /\ UNCHANGED <<there, failures>>
    BY <1>1
  <2> QED
    BY <1>1, <1>6, <1>7, <2>1, LineAdded
<1>8. CASE UNCHANGED lines
  <2>1. \A j \in 1..(0 - 1) : History[j] \in KeysOf(lines)
    OBVIOUS
  <2> QED
    BY <1>1, <1>2, <1>6, <1>8, <2>1, LinesKept
<1> QED
  BY <1>7, <1>8 DEF RenameInAppend

LEMMA AtMostOne ==
    ASSUME NEW S, NEW t \in Seq(S), Len(t) <= 1, t # <<>>
    PROVE  Len(t) = 1
<1>1. Len(t) \in Nat /\ (Len(t) = 0 => t = <<>>)
  OBVIOUS
<1>2. QED
  BY <1>1

\* A whole line at the end is the record that comes next: the reader sees a
\* log in any case.
LEMMA ParsedIsLog ==
    ASSUME IInv
    PROVE  /\ IsLog(Parsed)
           /\ RecordsOf(lines) \subseteq RecordsOf(Parsed)
<1>1. CASE tail = <<>> \/ Head(tail) = Torn
  BY <1>1 DEF IInv, Parsed
<1>2. CASE tail # <<>> /\ Head(tail) # Torn
  <2> DEFINE r == Head(tail)
  <2>1. tail \in Seq(Record \cup {Torn}) /\ Len(tail) = 1
    <3>1. tail \in Seq(Record \cup {Torn}) /\ Len(tail) <= 1
      BY DEF IInv, TypeOK
    <3> HIDE DEF r
    <3>2. QED
      BY <1>2, <3>1, AtMostOne
  <2>2. tail = <<r>> /\ r = tail[1] /\ 1 \in DOMAIN tail
    BY <2>1
  <2>3. lines \in Seq(Record)
    BY DEF IInv, IsLog
  <2>4. r \in Record /\ r # Torn
    BY <1>2, <2>1, <2>2
  <2>5. r.seq = Len(lines) + 1 /\ r.key \notin KeysOf(lines)
    BY <2>2, <2>4 DEF IInv, TailIsNext
  <2>6. Parsed = Append(lines, r)
    <3>1. Parsed = lines \o <<r>>
      BY <1>2, <2>2 DEF Parsed
    <3> HIDE DEF r
    <3>2. lines \o <<r>> = Append(lines, r)
      BY <2>3, <2>4
    <3>3. QED
      BY <3>1, <3>2
  <2> HIDE DEF r
  <2>7. QED
    BY <2>4, <2>5, <2>6, AppendsNext DEF IInv
<1>3. QED
  BY <1>1, <1>2

\* Each step of the Journal keeps the invariant.
LEMMA NextIInv ==
    ASSUME Benign
    PROVE  IInv /\ [Next]_vars => IInv'
<1> SUFFICES ASSUME IInv, [Next]_vars PROVE IInv'
  OBVIOUS
<1>1. /\ importing \in 0..Len(History) /\ seen \subseteq Record /\ Len(History) \in Nat \ {0}
      /\ project \in Paths /\ there \in BOOLEAN /\ failures \in Nat
      /\ states \in [Paths -> WriterStates]
      /\ importing > 1 => writer.loaded
      /\ TypeOK
  BY Parameters DEF IInv, TypeOK, ImportCached, WriterStates
<1>2. /\ \A j \in 1..(importing - 1) : History[j] \in KeysOf(lines)
      /\ \A j \in 1..(0 - 1) : History[j] \in KeysOf(lines)
      /\ \A j \in 1..(1 - 1) : History[j] \in KeysOf(lines)
  BY DEF IInv, ImportInOrder
<1>3. ASSUME NEW k \in Keys, AppendNow(k)
      PROVE  IInv'
  BY <1>3, AppendIInv
<1>4. ASSUME NEW k \in Keys, NEW p \in Paths, RenameInAppend(k, p)
      PROVE  IInv'
  BY <1>4, RenameInAppendIInv
<1>5. ASSUME NEW p \in Paths, Rename(p)
      PROVE  IInv'
  <2>1. /\ project' = p /\ importing' = 0
        /\ UNCHANGED <<there, lines, tail, states, acked, seen, failures>>
    BY <1>5 DEF Rename, file, told
  <2>2. ~writer'.loaded
    BY <1>5, <2>1 DEF Rename, MayComeTo, Benign, writer
  <2> HIDE DEF writer
  <2> QED
    BY <1>1, <1>2, <2>1, <2>2, LinesKept
<1>6. CASE DeleteProject
  <2>1. /\ UNCHANGED <<project, states, failures>> /\ Removed
        /\ there' = FALSE /\ importing' = 0
    BY <1>6 DEF DeleteProject
  <2> HIDE DEF writer
  <2> QED
    BY <1>1, <2>1, FileRemoved
<1>7. CASE DeleteFails
  <2>1. UNCHANGED <<project, there, states, importing, failures>> /\ Removed
    BY <1>7 DEF DeleteFails, place
  <2>2. ~writer.loaded /\ writer' = writer
    BY <1>7, <2>1 DEF DeleteFails, MayComeTo, Benign, writer
  <2> HIDE DEF writer
  <2> QED
    BY <1>1, <2>1, <2>2, FileRemoved
<1>8. CASE Recreate
  <2>1. /\ UNCHANGED <<project, lines, tail, states, importing, acked, seen, failures>>
        /\ there' = TRUE
    BY <1>8 DEF Recreate, file, told
  <2>2. ~writer.loaded /\ writer' = writer
    BY <1>8, <2>1 DEF Recreate, MayComeTo, Benign, writer
  <2> HIDE DEF writer
  <2> QED
    BY <1>1, <1>2, <2>1, <2>2, LinesKept
<1>9. CASE BeginImport
  <2>1. /\ UNCHANGED <<project, there, lines, tail, states, acked, seen, failures>>
        /\ importing' = 1 /\ there
    BY <1>9 DEF BeginImport, place, file, told
  <2>2. writer' = writer
    BY <2>1 DEF writer
  <2> HIDE DEF writer
  <2> QED
    BY <1>1, <1>2, <2>1, <2>2, LinesKept
<1>10. CASE Read
  <2>1. IsLog(Parsed)
    BY ParsedIsLog
  <2>2. Events(Parsed) \subseteq Record
    BY <2>1 DEF IsLog, Events, Kept
  <2>3. /\ UNCHANGED <<project, there, lines, tail, states, importing, acked, failures>>
        /\ seen' \subseteq Record /\ there
    BY <1>10, <2>2 DEF Read, place, file
  <2>4. writer' = writer
    BY <2>3 DEF writer
  <2> HIDE DEF writer
  <2> QED
    BY <1>1, <1>2, <2>3, <2>4, LinesKept
<1>11. CASE Restart
  <2>1. UNCHANGED <<project, there, lines, tail, acked, seen, failures>> /\ importing' = 0
    BY <1>11 DEF Restart, place, file, told
  <2>2. states' \in [Paths -> WriterStates] /\ ~writer'.loaded
    BY <1>1, <1>11, <2>1, ForgetsAll DEF Restart, writer
  <2> HIDE DEF writer
  <2> QED
    BY <1>1, <1>2, <2>1, <2>2, LinesKept
<1>12. CASE Remove
  <2>1. UNCHANGED <<project, there, importing, failures>> /\ Removed /\ importing = 0
    BY <1>12 DEF Remove, place
  <2>2. Unloaded \in WriterStates /\ ~Unloaded.loaded
    BY DEF Unloaded, WriterStates
  <2>3. states' \in [Paths -> WriterStates] /\ ~writer'.loaded
    BY <1>1, <1>12, <2>1, <2>2, CachesOne DEF Remove, writer
  <2> HIDE DEF writer
  <2> QED
    BY <1>1, <2>1, <2>3, FileRemoved
<1>13. CASE UNCHANGED vars
  <2>1. UNCHANGED <<project, there, lines, tail, states, importing, acked, seen, failures>>
    BY <1>13 DEF vars, place, file, told
  <2>2. writer' = writer
    BY <2>1 DEF writer
  <2>3. CASE there
    <3> HIDE DEF writer
    <3> QED
      BY <1>1, <1>2, <2>1, <2>2, <2>3, LinesKept
  <2>4. CASE ~there
    <3> HIDE DEF writer
    <3> QED
      BY <1>1, <1>2, <2>1, <2>2, <2>4, LinesKept
  <2> QED
    BY <2>3, <2>4
<1>14. QED
  BY <1>3, <1>4, <1>5, <1>6, <1>7, <1>8, <1>9, <1>10, <1>11, <1>12, <1>13 DEF Next

LEMMA SpecIInv ==
    ASSUME Benign
    PROVE  Spec => []IInv
<1>1. QED
  BY InitIInv, NextIInv, PTL DEF Spec

-----------------------------------------------------------------------------
(* ANY FAULTS: the file is no log any more, but it is made of records. *)

\* The sequences of the lines have a bound, so the reader's cursor exists.
Bounded(f) == \E b \in Nat : \A i \in DOMAIN f : f[i].seq <= b

TypeInv == TypeOK /\ Bounded(lines)

\* high_water is the greatest sequence of the file.
LEMMA CursorExists ==
    ASSUME NEW f \in Seq(Record), Bounded(f)
    PROVE  Cursor(f) \in Nat
<1> DEFINE S == SequencesOf(f)
<1> DEFINE B == {b \in Nat : \A s \in S : s <= b}
<1>1. S \subseteq Nat
  <2>1. \A i \in DOMAIN f : f[i] \in Record
    OBVIOUS
  <2> QED
    BY <2>1 DEF SequencesOf, Record
<1>2. CASE f = <<>>
  BY <1>2 DEF Cursor
<1>3. CASE f # <<>>
  <2>1. B # {} /\ B \subseteq Nat
    BY DEF Bounded, SequencesOf
  <2>2. PICK b \in B : \A y \in B : ~(<<y, b>> \in OpToRel(<, Nat))
    <3> HIDE DEF B
    <3> QED
      BY <2>1, NatLessThanWellFounded, WFMin
  <2>3. \A y \in B : ~(y < b)
    BY <2>1, <2>2 DEF OpToRel
  <2>4. b \in S
    <3> SUFFICES ASSUME b \notin S PROVE FALSE
      OBVIOUS
    <3>1. b \in Nat /\ \A s \in S : s <= b /\ s # b /\ s \in Nat
      BY <1>1, <2>2
    <3>2. 1 \in DOMAIN f
      BY <1>3
    <3>3. f[1].seq \in S
      BY <3>2 DEF SequencesOf
    <3>4. b - 1 \in Nat /\ \A s \in S : s <= b - 1
      BY <3>1, <3>3
    <3>5. b - 1 \in B /\ b - 1 < b
      BY <3>1, <3>4
    <3> QED
      BY <2>3, <3>5
  <2>5. \A s \in S : s <= b
    BY <2>2
  <2>6. (CHOOSE m \in S : \A s \in S : s <= m) \in S
    BY <2>4, <2>5
  <2> QED
    BY <1>1, <1>3, <2>6 DEF Cursor
<1> QED
  BY <1>2, <1>3

LEMMA LoadedTyped ==
    ASSUME TypeInv
    PROVE  Loaded \in WriterStates
<1>1. lines \in Seq(Record) /\ writer \in WriterStates /\ Cursor(lines) \in Nat
  BY CursorExists DEF TypeInv, TypeOK, writer, WriterStates
<1>2. {x.key : x \in Events(lines)} \in SUBSET Keys
  <2>1. \A i \in DOMAIN lines : lines[i] \in Record
    BY <1>1
  <2>2. \A x \in Events(lines) : x.key \in Keys
    BY <2>1 DEF Events, Kept, Record
  <2> QED
    BY <2>2
<1> QED
  BY <1>1, <1>2 DEF Loaded, WriterStates

\* A line more has a bound more.
LEMMA LongerTyped ==
    ASSUME NEW f \in Seq(Record), Bounded(f), NEW x \in Record
    PROVE  Append(f, x) \in Seq(Record) /\ Bounded(Append(f, x))
<1> DEFINE g == Append(f, x)
<1>1. /\ g \in Seq(Record) /\ DOMAIN g = 1..(Len(f) + 1) /\ Len(f) \in Nat
      /\ \A i \in 1..Len(f) : g[i] = f[i]
      /\ g[Len(f) + 1] = x
  OBVIOUS
<1>2. DOMAIN f = 1..Len(f) /\ \A i \in DOMAIN f : f[i].seq \in Nat
  <2>1. \A i \in DOMAIN f : f[i] \in Record
    OBVIOUS
  <2> QED
    BY <2>1 DEF Record
<1> HIDE DEF g
<1>3. PICK b \in Nat : \A i \in DOMAIN f : f[i].seq <= b
  BY DEF Bounded
<1>4. x.seq \in Nat /\ b + x.seq \in Nat
  BY DEF Record
<1>5. \A i \in DOMAIN g : g[i].seq <= b + x.seq
  <2> SUFFICES ASSUME NEW i \in 1..(Len(f) + 1) PROVE g[i].seq <= b + x.seq
    BY <1>1
  <2>1. CASE i = Len(f) + 1
    BY <1>1, <1>4, <2>1
  <2>2. CASE i \in 1..Len(f)
    <3>1. g[i].seq = f[i].seq /\ f[i].seq <= b /\ f[i].seq \in Nat
      BY <1>1, <1>2, <1>3, <2>2
    <3> QED
      BY <1>4, <3>1
  <2> QED
    BY <1>1, <2>1, <2>2
<1> QED
  BY <1>1, <1>4, <1>5 DEF Bounded, g

\* Every append, whatever becomes of it, leaves records.
LEMMA AppendTyped ==
    ASSUME TypeInv, NEW k \in Keys,
           AppendNow(k) \/ \E p \in Paths : RenameInAppend(k, p)
    PROVE  TypeInv'
<1> USE DEF AppendNow, Duplicate, Written, FailsBefore, FailsAfter, WrittenShort, CrashesIn,
            RenameInAppend, Fails, place, told
<1>0. /\ lines \in Seq(Record) /\ Bounded(lines) /\ acked \subseteq Record /\ seen \subseteq Record
      /\ importing \in 0..Len(History) /\ Len(History) \in Nat
      /\ project \in Paths /\ there \in BOOLEAN /\ failures \in Nat
      /\ TypeOK /\ Loaded \in WriterStates
  BY Parameters, LoadedTyped DEF TypeInv, TypeOK
<1>1. Fresh(k) \in Record /\ Advanced(k) \in WriterStates
  <2>1. Loaded.next \in Nat /\ Loaded.next + 1 \in Nat /\ Loaded.keys \cup {k} \in SUBSET Keys
    BY <1>0 DEF WriterStates
  <2> QED
    BY <2>1 DEF Fresh, Record, Advanced, WriterStates
<1>2. lines' \in {lines, Append(lines, Fresh(k))}
  OBVIOUS
<1>3. tail' \in {<<>>, <<Torn>>, <<Fresh(k)>>}
  OBVIOUS
<1>4. states' \in [Paths -> WriterStates]
  <2>1. [loaded |-> TRUE, next |-> 1, keys |-> {}] \in WriterStates
    BY DEF WriterStates
  <2>2. (\E c \in WriterStates : Caches(c)) \/ Forgotten
    BY <1>0, <1>1, <2>1
  <2> QED
    BY <1>0, <2>2, CachesOne, ForgetsAll
<1>5. importing' = 0 \/ NextImport
  OBVIOUS
<1>6. /\ acked' \in {acked, acked \cup {Fresh(k)}} /\ seen' = seen
      /\ project' \in Paths /\ there' = there /\ failures' \in {failures, failures + 1}
  BY <1>0
<1>7. lines' \in Seq(Record) /\ Bounded(lines')
  <2>1. Append(lines, Fresh(k)) \in Seq(Record) /\ Bounded(Append(lines, Fresh(k)))
    BY <1>0, <1>1, LongerTyped
  <2> QED
    BY <1>0, <1>2, <2>1
<1>8. tail' \in Seq(Record \cup {Torn}) /\ Len(tail') <= 1
  <2>1. ASSUME NEW x \in Record \cup {Torn}, tail' = <<x>>
        PROVE  tail' \in Seq(Record \cup {Torn}) /\ Len(tail') <= 1
    BY <2>1
  <2>2. CASE tail' = <<>>
    BY <2>2
  <2>3. CASE tail' = <<Torn>>
    BY <2>1, <2>3
  <2>4. CASE tail' = <<Fresh(k)>>
    <3>1. Fresh(k) \in Record \cup {Torn}
      BY <1>1
    <3> QED
      BY <2>1, <2>4, <3>1
  <2> QED
    BY <1>3, <2>2, <2>3, <2>4
<1>9. importing' \in 0..Len(History)
  BY <1>0, <1>5 DEF NextImport
<1>10. acked' \subseteq Record /\ seen' \subseteq Record /\ there' \in BOOLEAN /\ failures' \in Nat
  BY <1>0, <1>1, <1>6
<1> QED
  BY <1>4, <1>6, <1>7, <1>8, <1>9, <1>10 DEF TypeInv, TypeOK, WriterStates

LEMMA ParsedTyped ==
    ASSUME TypeInv
    PROVE  Parsed \in Seq(Record)
<1>1. lines \in Seq(Record) /\ tail \in Seq(Record \cup {Torn}) /\ Len(tail) <= 1
  BY DEF TypeInv, TypeOK
<1>2. CASE tail # <<>> /\ Head(tail) # Torn
  <2>1. Len(tail) = 1
    BY <1>1, <1>2, AtMostOne
  <2>2. PICK x : x = Head(tail)
    OBVIOUS
  <2>3. tail = <<x>> /\ x \in Record
    BY <1>1, <1>2, <2>1, <2>2
  <2>4. <<x>> \in Seq(Record)
    BY <2>3
  <2>5. lines \o <<x>> \in Seq(Record)
    BY <1>1, <2>4
  <2> QED
    BY <1>2, <2>3, <2>5 DEF Parsed
<1> QED
  BY <1>1, <1>2 DEF Parsed

LEMMA NextTypeInv == TypeInv /\ [Next]_vars => TypeInv'
<1> SUFFICES ASSUME TypeInv, [Next]_vars PROVE TypeInv'
  OBVIOUS
<1> USE DEF place, file, told
<1>0. /\ Len(History) \in Nat \ {0} /\ TypeOK
      /\ states \in [Paths -> WriterStates] /\ Unloaded \in WriterStates
  BY Parameters DEF TypeInv, TypeOK, WriterStates, Unloaded
<1>1. ASSUME NEW k \in Keys, AppendNow(k) \/ \E p \in Paths : RenameInAppend(k, p)
      PROVE  TypeInv'
  BY <1>1, AppendTyped
<1>2. ASSUME Removed, UNCHANGED project, there' \in BOOLEAN, UNCHANGED failures,
             states' \in [Paths -> WriterStates], importing' \in {0, importing}
      PROVE  TypeInv'
  <2>1. lines' \in Seq(Record) /\ Bounded(lines') /\ tail' \in Seq(Record \cup {Torn}) /\ Len(tail') <= 1
    BY <1>2 DEF Removed, Bounded
  <2> QED
    BY <1>0, <1>2, <2>1 DEF Removed, TypeInv, TypeOK, WriterStates
<1>3. CASE BeginImport \/ Recreate \/ \E p \in Paths : Rename(p)
  <2>1. 0 \in 0..Len(History) /\ 1 \in 0..Len(History)
    BY <1>0
  <2>2. UNCHANGED <<lines, tail, states, acked, seen, failures>>
    BY <1>3 DEF BeginImport, Recreate, Rename
  <2>3. project' \in Paths /\ there' \in BOOLEAN /\ importing' \in 0..Len(History)
    BY <1>0, <1>3, <2>1 DEF BeginImport, Recreate, Rename, TypeOK
  <2> QED
    BY <2>2, <2>3 DEF TypeInv, TypeOK
<1>4. CASE Read
  <2>1. Events(Parsed) \subseteq Record
    <3>1. \A i \in DOMAIN Parsed : Parsed[i] \in Record
      BY ParsedTyped
    <3> QED
      BY <3>1 DEF Events, Kept
  <2>2. seen' \subseteq Record
    BY <1>4, <2>1 DEF Read
  <2> QED
    BY <1>4, <2>2 DEF Read, TypeInv, TypeOK
<1>5. CASE Restart
  <2>1. states' \in [Paths -> WriterStates]
    BY <1>5, ForgetsAll DEF Restart
  <2> QED
    BY <1>0, <1>5, <2>1 DEF Restart, TypeInv, TypeOK, WriterStates
<1>6. CASE DeleteProject \/ DeleteFails
  BY <1>0, <1>2, <1>6 DEF DeleteProject, DeleteFails, TypeOK
<1>7. CASE Remove
  <2>1. states' \in [Paths -> WriterStates]
    BY <1>0, <1>7, CachesOne DEF Remove
  <2> QED
    BY <1>2, <1>7, <2>1, <1>0 DEF Remove, TypeOK
<1>8. CASE UNCHANGED vars
  BY <1>8 DEF vars, TypeInv, TypeOK
<1> QED
  BY <1>1, <1>3, <1>4, <1>5, <1>6, <1>7, <1>8 DEF Next

LEMMA SpecTypeInv == Spec => []TypeInv
<1>1. Init => TypeInv
  <2> SUFFICES ASSUME Init PROVE TypeInv
    OBVIOUS
  <2>1. lines \in Seq(Record) /\ Bounded(lines) /\ tail \in Seq(Record \cup {Torn}) /\ Len(tail) <= 1
    BY DEF Init, Bounded
  <2> QED
    BY <2>1, Parameters DEF Init, TypeInv, TypeOK, Unloaded
<1> QED
  BY <1>1, NextTypeInv, PTL DEF Spec

-----------------------------------------------------------------------------
(* THEOREMS *)

\* The Journal's file, cache and import always have the shape the code gives
\* them, whatever fails: also where sequences repeat, the writer's next one is
\* defined by what is in the file.
THEOREM TypeCorrect == Spec => []TypeOK
<1>1. TypeInv => TypeOK
  BY DEF TypeInv
<1>2. QED
  BY <1>1, SpecTypeInv, PTL

\* However often the process crashes inside an append and restarts, and however
\* often the Project is renamed, deleted and created again, as long as it comes
\* to no path with a cache (hypothesis Benign), the lines of the file are
\* numbered 1, 2, 3, ... (_append_now, _prepare_path, _state).
THEOREM FileIsDense ==
    ASSUME Benign
    PROVE  Spec => []Dense
<1>1. IInv => Dense
  BY DEF IInv, IsLog, Dense
<1>2. QED
  BY <1>1, SpecIInv, PTL

\* No deduplication key is recorded twice, also across restarts and renames to
\* paths without a cache.
THEOREM KeysAreUnique ==
    ASSUME Benign
    PROVE  Spec => []OneLinePerKey
<1>1. IInv => OneLinePerKey
  BY DEF IInv, IsLog, OneLinePerKey
<1>2. QED
  BY <1>1, SpecIInv, PTL

\* The writer's cache of the Project's path is what a reader would make of the
\* file there: renames and deletes leave caches behind, but stale ones are only
\* met again by a Project that comes back to their path, which Benign excludes.
THEOREM CacheIsCurrent ==
    ASSUME Benign
    PROVE  Spec => []CacheAgrees
<1>1. ASSUME IInv PROVE CacheAgrees
  <2>1. Events(lines) = RecordsOf(lines) /\ Cursor(lines) = Len(lines)
    BY <1>1, ReadsAll DEF IInv
  <2>2. {r.key : r \in Events(lines)} = KeysOf(lines)
    BY <2>1 DEF RecordsOf, KeysOf
  <2>3. QED
    BY <1>1, <2>1, <2>2 DEF IInv, CacheIsLines, CacheAgrees, writer
<1>2. QED
  BY <1>1, SpecIInv, PTL

\* What append() acknowledged is read back until the Journal or its Project is
\* removed, also after renames to paths without a cache: a truncation only
\* takes what no caller was told of.
THEOREM Durability ==
    ASSUME Benign
    PROVE  Spec => []AckedIsRead
<1>1. ASSUME IInv PROVE AckedIsRead
  <2>1. Events(Parsed) = RecordsOf(Parsed) /\ RecordsOf(lines) \subseteq RecordsOf(Parsed)
    BY <1>1, ParsedIsLog, ReadsAll
  <2>2. QED
    BY <1>1, <2>1 DEF IInv, AckedIsRead
<1>2. QED
  BY <1>1, SpecIInv, PTL

\* The marker of a finished import is only recorded after all of the import,
\* also if a rename or a delete stops one import and another follows.
THEOREM ImportIsWhole ==
    ASSUME Benign
    PROVE  Spec => []BaselineMeansImported
<1>1. IInv => BaselineMeansImported
  BY DEF IInv, BaselineIsLast, KeysOf, BaselineMeansImported
<1>2. QED
  BY <1>1, SpecIInv, PTL

\* Every behaviour of the file's lines is one of the abstract log, as long as
\* the Project comes to no path with a cache.
THEOREM Refinement ==
    ASSUME Benign
    PROVE  Spec => ImplementsLog
<1>1. Init => Log!Init
  BY DEF Init, Log!Init
<1>2. IInv /\ [Next]_vars => [Log!Next]_lines
  <2> SUFFICES ASSUME IInv, [Next]_vars PROVE [Log!Next]_lines
    OBVIOUS
  <2>1. ASSUME NEW k \in Keys, MayWrite(k), lines' = Append(lines, Fresh(k))
        PROVE  Log!Next
    <3>1. Loaded = [loaded |-> TRUE, next |-> Len(lines) + 1, keys |-> KeysOf(lines)]
      BY <2>1, LoadedIsLines DEF MayWrite, MayAppend
    <3>2. Log!Append1(k)
      BY <2>1, <3>1 DEF MayWrite, Fresh, KeysOf, Log!Append1
    <3>3. QED
      BY <3>2 DEF Log!Next
  <2>2. ASSUME NEW k \in Keys, AppendNow(k) \/ \E p \in Paths : RenameInAppend(k, p)
        PROVE  [Log!Next]_lines
    BY <2>1, <2>2
    DEF AppendNow, Duplicate, Written, FailsBefore, FailsAfter, WrittenShort, CrashesIn,
        RenameInAppend
  <2>3. CASE DeleteProject \/ DeleteFails \/ Remove
    BY <2>3 DEF DeleteProject, DeleteFails, Remove, Removed, Log!Next, Log!RemoveAll
  <2>4. CASE \/ \E p \in Paths : Rename(p)
             \/ Recreate \/ BeginImport \/ Read \/ Restart \/ UNCHANGED vars
    BY <2>4 DEF Rename, Recreate, BeginImport, Read, Restart, file, vars
  <2>5. QED
    BY <2>2, <2>3, <2>4 DEF Next
<1>3. QED
  BY <1>1, <1>2, SpecIInv, PTL DEF Spec, ImplementsLog, Log!Spec
=============================================================================
