--------------------------- MODULE StreamJournal ---------------------------
(***************************************************************************)
(* The Stream Journal (stream_journal.py) of one Thread: a JSONL file, the *)
(* writer's caches of it (_WriterState), and the reader.                   *)
(*                                                                         *)
(* The file is in the directory of the Thread's Project, which can be      *)
(* renamed and deleted (codex_service.py, projects.py).  A cache is kept   *)
(* for a path and the Thread, and neither a rename nor a delete drops it:  *)
(* only a Thread's trashing, the retention and the end of the process do.  *)
(*                                                                         *)
(* append() never yields between taking a request from the queue and       *)
(* answering it, so an append is one action, and append_history is not     *)
(* interleaved with other appends.  What can come between is a crash of    *)
(* the process, which loses the cache and may leave the last line          *)
(* incomplete, or an OSError.                                              *)
(*                                                                         *)
(* A record is reduced to its sequence and its deduplication key.          *)
(***************************************************************************)
EXTENDS Naturals, Sequences, FiniteSets

CONSTANTS Paths,     \* the paths that the Thread's Project may have
          Live,      \* keys of live events, journal.opened among them
          History,   \* keys of an import of history, in order; the last one
                     \* is that of history.baseline_imported
          NoKey,     \* the key of a line that cannot be parsed
          Faults,    \* what may go wrong, a subset of FaultKinds
          MaxFailures   \* bound on the late and short faults

FaultKinds == {"crash",   \* the process stops at any point of an append
               "moved",   \* a rename of the Project hits an append
               "late",    \* fsync, close or chmod fails after the write
               "short",   \* write() writes less than the line and says so
               "stale"}   \* the Project comes to a path that the process has
                          \* a cache for, or stays there without its Journal

Imported == {History[i] : i \in DOMAIN History}
Keys == Live \cup Imported
Baseline == History[Len(History)]

ASSUME Parameters ==
    /\ History \in Seq(Keys)
    /\ History # <<>>
    /\ \A i, j \in DOMAIN History : History[i] = History[j] => i = j
    /\ Live \cap Imported = {}
    /\ NoKey \notin Keys
    /\ Faults \subseteq FaultKinds
    /\ MaxFailures \in Nat

VARIABLES project,    \* the path of the Thread's Project
          there,      \* the Project's directory exists
          lines,      \* the complete lines of events.jsonl
          tail,       \* the bytes after the last newline: none or one line
          states,     \* _states: the cache of each path
          importing,  \* the next key of the running append_history, or 0
          acked,      \* records that append() returned since the last removal
          seen,       \* the record that a browser's cursor names, if any
          failures    \* how many late and short faults there were

file == <<lines, tail>>
told == <<acked, seen>>
place == <<project, there>>
vars == <<place, file, states, importing, told, failures>>

\* The cache that appends use: that of the Project's path.
writer == states[project]

Record == [seq : Nat, key : Keys]
Torn == [seq |-> 0, key |-> NoKey]   \* bytes that do not parse
Unloaded == [loaded |-> FALSE, next |-> 0, keys |-> {}]

TypeOK ==
    /\ project \in Paths
    /\ there \in BOOLEAN
    /\ lines \in Seq(Record)
    /\ tail \in Seq(Record \cup {Torn})
    /\ Len(tail) <= 1
    /\ states \in [Paths -> [loaded : BOOLEAN, next : Nat, keys : SUBSET Keys]]
    /\ importing \in 0..Len(History)
    /\ acked \subseteq Record
    /\ seen \subseteq Record
    /\ failures \in Nat

Init ==
    /\ project \in Paths
    /\ there = TRUE
    /\ lines = <<>>
    /\ tail = <<>>
    /\ states = [p \in Paths |-> Unloaded]
    /\ importing = 0
    /\ acked = {}
    /\ seen = {}
    /\ failures = 0

-----------------------------------------------------------------------------
(* THE READER: _read_file *)

\* Line i passes the test "sequence >= expected": expected is one more than
\* the last sequence that passed, and what failed was below it.
InOrder(f, i) == \A j \in 1..(i - 1) : f[j].seq < f[i].seq

\* A line in order is kept unless an earlier one has its key.
Kept(f) ==
    {i \in DOMAIN f : /\ InOrder(f, i)
                      /\ \A j \in 1..(i - 1) : InOrder(f, j) => f[j].key # f[i].key}

Events(f) == {f[i] : i \in Kept(f)}

SequencesOf(f) == {f[i].seq : i \in DOMAIN f}

\* high_water counts the lines that are dropped, too.
Cursor(f) ==
    IF f = <<>> THEN 0
    ELSE CHOOSE m \in SequencesOf(f) : \A s \in SequencesOf(f) : s <= m

\* The lines that parse.  An incomplete last line counts if its bytes happen
\* to be a whole record.
Parsed == IF tail # <<>> /\ Head(tail) # Torn THEN lines \o tail ELSE lines

-----------------------------------------------------------------------------
(* THE WRITER: _append_now *)

\* Mutant: a restarted writer counts the events that it read.
LoadedCounting ==
    IF writer.loaded THEN writer
    ELSE [loaded |-> TRUE,
          next   |-> Cardinality(Events(lines)) + 1,
          keys   |-> {r.key : r \in Events(lines)}]

\* _prepare_path removes an incomplete last line, then _state reads the file
\* unless it is cached.
Loaded ==
    IF writer.loaded THEN writer
    ELSE [loaded |-> TRUE,
          next   |-> Cursor(lines) + 1,
          keys   |-> {r.key : r \in Events(lines)}]

Fresh(k) == [seq |-> Loaded.next, key |-> k]

Advanced(k) ==
    [loaded |-> TRUE, next |-> Loaded.next + 1, keys |-> Loaded.keys \cup {k}]

\* append_history appends its keys in order; nothing else is appended then.
\* Without the Project's directory _prepare_path raises.
MayAppend(k) ==
    /\ there
    /\ IF importing = 0 THEN k \in Live ELSE k = History[importing]

\* append() is about to write a line.
MayWrite(k) == MayAppend(k) /\ k \notin Loaded.keys

Caches(c) == states' = [states EXCEPT ![project] = c]

NextImport ==
    importing' = IF importing \in 1..(Len(History) - 1) THEN importing + 1 ELSE 0

Duplicate(k) ==
    /\ MayAppend(k)
    /\ k \in Loaded.keys
    /\ tail' = <<>>
    /\ Caches(Loaded)
    /\ NextImport
    /\ UNCHANGED <<place, lines, told, failures>>

Written(k) ==
    /\ MayWrite(k)
    /\ lines' = Append(lines, Fresh(k))
    /\ tail' = <<>>
    /\ Caches(Advanced(k))
    /\ acked' = acked \cup {Fresh(k)}
    /\ NextImport
    /\ UNCHANGED <<place, seen, failures>>

\* Mutant: the sequence is consumed before the line is written.
FailsAdvanced(k) ==
    /\ MayWrite(k)
    /\ tail' = <<>>
    /\ Caches([Loaded EXCEPT !.next = @ + 1])
    /\ importing' = 0
    /\ UNCHANGED <<place, lines, told, failures>>

\* Mutant: the error is swallowed and the record returned.
FailsSilently(k) ==
    /\ MayWrite(k)
    /\ tail' = <<>>
    /\ Caches(Loaded)
    /\ acked' = acked \cup {Fresh(k)}
    /\ importing' = 0
    /\ UNCHANGED <<place, lines, seen, failures>>

\* Mutant: an import goes on after an append failed.
FailsImporting(k) ==
    /\ MayWrite(k)
    /\ tail' = <<>>
    /\ Caches(Loaded)
    /\ NextImport
    /\ UNCHANGED <<place, lines, told, failures>>

\* open() or write() raises: append raises, and an import stops.
FailsBefore(k) ==
    /\ MayWrite(k)
    /\ tail' = <<>>
    /\ Caches(Loaded)
    /\ importing' = 0
    /\ UNCHANGED <<place, lines, told, failures>>

Fails(kind) ==
    /\ kind \in Faults
    /\ failures < MaxFailures
    /\ failures' = failures + 1

\* The line is in the file when append raises: the cache does not count it.
FailsAfter(k) ==
    /\ MayWrite(k)
    /\ Fails("late")
    /\ lines' = Append(lines, Fresh(k))
    /\ tail' = <<>>
    /\ Caches(Loaded)
    /\ importing' = 0
    /\ UNCHANGED <<place, told>>

\* The count that write() returns is ignored: append succeeds.
WrittenShort(k) ==
    /\ MayWrite(k)
    /\ Fails("short")
    /\ \E r \in {Torn, Fresh(k)} : tail' = <<r>>
    /\ Caches(Advanced(k))
    /\ acked' = acked \cup {Fresh(k)}
    /\ NextImport
    /\ UNCHANGED <<place, lines, seen>>

Forgotten == states' = [p \in Paths |-> Unloaded]

\* The process stops while it appends: some, all or none of the line is there.
CrashesIn(k) ==
    /\ "crash" \in Faults
    /\ MayWrite(k)
    /\ \/ /\ \E r \in {Torn, Fresh(k)} : tail' = <<r>>
          /\ UNCHANGED lines
       \/ /\ lines' = Append(lines, Fresh(k))
          /\ tail' = <<>>
    /\ Forgotten
    /\ importing' = 0
    /\ UNCHANGED <<place, told, failures>>

-----------------------------------------------------------------------------
(* THE PROJECT: rename_project, delete_project, create *)

\* The Project may come to path p: the writer has no cache for it.
MayComeTo(p) == states[p].loaded => "stale" \in Faults

\* The Journal moves with the directory.  Nothing touches the caches, and a
\* running import's next append does not find the old path.
Rename(p) ==
    /\ there
    /\ p # project
    /\ MayComeTo(p)
    /\ project' = p
    /\ importing' = 0
    /\ UNCHANGED <<there, file, states, told, failures>>

\* registry.rename runs in a thread, so it can hit an append: the line is in
\* the moved file and chmod does not find it, or it is not written at all, as
\* _state may have read the old path once it was empty.
RenameInAppend(k, p) ==
    /\ "moved" \in Faults
    /\ MayWrite(k)
    /\ p # project
    /\ MayComeTo(p)
    /\ \/ /\ lines' = Append(lines, Fresh(k))
          /\ Caches(Loaded)
       \/ /\ UNCHANGED lines
          /\ Caches([loaded |-> TRUE, next |-> 1, keys |-> {}])
    /\ tail' = <<>>
    /\ project' = p
    /\ importing' = 0
    /\ UNCHANGED <<there, told, failures>>

\* Mutant: the first line is kept.
RemovedFollowing ==
    /\ lines' = IF lines = <<>> THEN <<>> ELSE <<Head(lines)>>
    /\ tail' = <<>>
    /\ acked' = {}
    /\ seen' = {}

Removed ==
    /\ lines' = <<>>
    /\ tail' = <<>>
    /\ acked' = {}
    /\ seen' = {}

DeleteProject ==
    /\ there
    /\ Removed
    /\ there' = FALSE
    /\ importing' = 0
    /\ UNCHANGED <<project, states, failures>>

\* rmtree raises after it removed the Journal: the Project stays.
DeleteFails ==
    /\ there
    /\ MayComeTo(project)
    /\ Removed
    /\ UNCHANGED <<place, states, importing, failures>>

\* A Project is created at the path of the deleted one, where Codex still
\* has the Thread.
Recreate ==
    /\ ~there
    /\ MayComeTo(project)
    /\ there' = TRUE
    /\ UNCHANGED <<project, file, states, importing, told, failures>>

-----------------------------------------------------------------------------
\* A read that finds the history not imported, or the Journal not complete
\* (Turn boundaries are not modelled), starts append_history.  History is what
\* it does not skip: the Turns without a complete live stream.
BeginImport ==
    /\ there
    /\ importing = 0
    /\ importing' = 1
    /\ UNCHANGED <<place, file, states, told, failures>>

\* read() for a snapshot or a replay: its last record becomes the cursor.
Read ==
    /\ there
    /\ seen' = {r \in Events(Parsed) : r.seq = Cursor(Parsed)}
    /\ UNCHANGED <<place, file, states, importing, acked, failures>>

Restart ==
    /\ Forgotten
    /\ importing' = 0
    /\ UNCHANGED <<place, file, told, failures>>

\* trash_thread and prune_retention drop the cache with the file.
Remove ==
    /\ there
    /\ importing = 0
    /\ Removed
    /\ Caches(Unloaded)
    /\ UNCHANGED <<place, importing, failures>>

AppendNow(k) ==
    \/ Duplicate(k)
    \/ Written(k)
    \/ FailsBefore(k)
    \/ FailsAfter(k)
    \/ WrittenShort(k)
    \/ CrashesIn(k)

Next ==
    \/ \E k \in Keys : AppendNow(k) \/ \E p \in Paths : RenameInAppend(k, p)
    \/ \E p \in Paths : Rename(p)
    \/ DeleteProject
    \/ DeleteFails
    \/ Recreate
    \/ BeginImport
    \/ Read
    \/ Restart
    \/ Remove

Spec == Init /\ [][Next]_vars

-----------------------------------------------------------------------------
(* PROPERTIES *)

\* The file's sequences are 1, 2, 3, ...: a replay has neither gap nor repeat,
\* across restarts and truncated lines.
Dense == \A i \in DOMAIN lines : lines[i].seq = i

\* A key is recorded once, also by a writer that was restarted in between.
OneLinePerKey == \A i, j \in DOMAIN lines : lines[i].key = lines[j].key => i = j

\* The cache never disagrees with what a reader would make of the file.
CacheAgrees ==
    there /\ writer.loaded => /\ writer.next = Cursor(lines) + 1
                              /\ writer.keys = {r.key : r \in Events(lines)}

\* What append() returned is read back, with its sequence, also after the
\* Project was renamed and as long as the file is not removed: truncation only
\* takes what nobody was told of.
AckedIsRead == acked \subseteq Events(Parsed)

\* The marker of a finished import is only there if the whole import is.
BaselineMeansImported ==
    (\E i \in DOMAIN lines : lines[i].key = Baseline) =>
        \A k \in Imported : \E i \in DOMAIN lines : lines[i].key = k

\* A record that was shown to a browser keeps its sequence: no other record
\* ever takes it.
SeenIsStable == \A r \in seen, i \in DOMAIN lines : lines[i].seq = r.seq => lines[i] = r

\* An append that raised after its write, or wrote less than its line, costs at
\* most one acknowledged event, whatever appends, renames, crashes and restarts
\* follow on it: what the reader drops for it does not add up.
LossIsBounded ==
    Cardinality({r.key : r \in acked} \ {r.key : r \in Events(Parsed)}) <= failures

Log == INSTANCE JournalLog WITH log <- lines

\* The complete lines of the file are the log that JournalLog promises.
ImplementsLog == Log!Spec
=============================================================================
