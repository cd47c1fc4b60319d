--------------------------- MODULE EventDelivery ---------------------------
(***************************************************************************)
(* How the events of one Thread reach a browser: CodexService appends them *)
(* to the Stream Journal and fans them out through the EventHub, the SSE   *)
(* endpoint replays and then follows, and the console shows a snapshot of  *)
(* the Journal followed by live items.                                     *)
(*                                                                         *)
(* An event is its sequence.  The Journal is the log that JournalLog       *)
(* promises; of a record only matters whether it has attachments, because  *)
(* these are decorated in a thread pool between append and publish.        *)
(* Connections deliver or break: what a broken one still carried was not   *)
(* sent, as far as the browser can tell.                                   *)
(***************************************************************************)
EXTENDS Integers, Sequences, FiniteSetsExt

CONSTANTS HistoryLimit, QueueLimit,
          MaxSeq,      \* bound on the records
          MaxBatch,    \* bound on the records of one import
          MaxBreaks    \* bound on restarts, broken or refused connections
                       \* and failed requests

ASSUME Limits == {HistoryLimit, QueueLimit} \subseteq Nat \ {0}
ASSUME Bounds == MaxSeq \in Nat /\ MaxBatch \in Nat \ {0} /\ MaxBreaks \in Nat

VARIABLES log,      \* the records: "plain" or "attached"
          torn,     \* the file ends in an incomplete line
          fan,      \* the record being decorated by the holder of
                    \* _publish_lock, or 0
          sequence, history, registered, queue,   \* the EventHub
          conn,     \* the EventSource and its stream
          after,    \* after_sequence or Last-Event-ID of the next connection
          snap,     \* the requested timeline snapshot
          base,     \* journal cursor of the snapshot on display
          live,     \* events displayed as live items
          cursor,   \* lastEventSequences[threadId]
          error,    \* an error banner is on display
          unsent,   \* events whose publication was rejected
          breaks    \* how many of these breaks there were

journalVars == <<log, torn, fan, unsent>>
hubVars == <<sequence, history, registered, queue>>
browserVars == <<after, snap, base, live, cursor, error>>
vars == <<journalVars, hubVars, conn, browserVars, breaks>>

\* The only subscription: a connection has its own, and the browser one connection.
Sub == "browser"
Hub == INSTANCE EventHub WITH Subs <- {Sub}

Kinds == {"plain", "attached"}
Phases == {"none",     \* no EventSource yet
           "off",      \* the EventSource is connecting
           "refused",  \* the EventSource is closed for good
           "resync",   \* console.stream.resync_required comes next
           "replay",   \* the replay comes next
           "ready",    \* console.stream.ready comes next
           "live"}     \* the subscription's queue comes next

NoConn == [phase |-> "none", replay |-> {}, boundary |-> 0]
Idle == [at |-> "none", cursor |-> 0, again |-> FALSE, connect |-> FALSE]

TypeOK ==
    /\ log \in Seq(Kinds) /\ Len(log) <= MaxSeq
    /\ torn \in BOOLEAN /\ error \in BOOLEAN
    /\ {fan, after, base, cursor} \subseteq 0..Len(log)
    /\ Hub!TypeOK
    /\ conn \in [phase : Phases, replay : SUBSET (1..MaxSeq), boundary : 0..MaxSeq]
    /\ snap \in [at : {"none", "asked", "read"}, cursor : 0..MaxSeq,
                 again : BOOLEAN, connect : BOOLEAN]
    /\ live \subseteq 1..Len(log) /\ unsent \subseteq 1..Len(log)
    /\ breaks \in 0..MaxBreaks

\* The browser has selected a new Thread.
Init ==
    /\ log = <<>> /\ torn = FALSE /\ fan = 0 /\ unsent = {}
    /\ Hub!Init
    /\ conn = NoConn
    /\ after = 0 /\ base = 0 /\ live = {} /\ cursor = 0 /\ error = FALSE
    /\ snap = [Idle EXCEPT !.at = "asked", !.connect = TRUE]
    /\ breaks = 0

Larger(a, b) == IF a < b THEN b ELSE a

Break == breaks < MaxBreaks /\ breaks' = breaks + 1

-----------------------------------------------------------------------------
(* THE SERVICE: append, then _fan_out_record for each record *)

Attached(records, first) == {i \in first..Len(records) : records[i] = "attached"}

\* From first on, records are published up to the next with attachments, whose
\* decoration yields.
FanOut(records, first, todecorate) ==
    LET last == IF todecorate = {} THEN Len(records) ELSE Min(todecorate) - 1 IN
    /\ IF first <= last THEN Hub!Publish(first, last) ELSE UNCHANGED hubVars
    /\ fan' = IF todecorate = {} THEN 0 ELSE Min(todecorate)

\* _publish, or an import of history with several records.
Record ==
    /\ fan = 0
    /\ \E n \in 1..MaxBatch : \E batch \in [1..n -> Kinds] :
        /\ Len(log) + n <= MaxSeq
        /\ log' = log \o batch
        /\ FanOut(log', Len(log) + 1, Attached(log', Len(log) + 1))
    /\ torn' = FALSE
    /\ UNCHANGED <<unsent, conn, browserVars, breaks>>

\* The decoration is done: the record is published, then those behind it.
Decorated ==
    /\ fan # 0
    /\ Hub!Accepts(fan)
    /\ FanOut(log, fan, Attached(log, fan + 1))
    /\ UNCHANGED <<log, torn, unsent, conn, browserVars, breaks>>

\* A reader advanced the hub to the Journal's cursor meanwhile: publish raises,
\* and what is behind the record is not published either.
Rejected ==
    /\ fan # 0
    /\ ~Hub!Accepts(fan)
    /\ unsent' = unsent \cup (fan..Len(log))
    /\ fan' = 0
    /\ UNCHANGED <<log, torn, hubVars, conn, browserVars, breaks>>

\* Another browser's snapshot or stream aligns the hub.
OtherReads ==
    /\ sequence < Len(log)
    /\ Hub!Advance(Len(log))
    /\ UNCHANGED <<journalVars, history, registered, queue, conn, browserVars, breaks>>

-----------------------------------------------------------------------------
(* THE CONSOLE: what events and snapshots do to the display *)

Show(e) ==
    /\ live' = live \cup {e}
    /\ cursor' = Larger(cursor, e)
    /\ after' = e
    /\ UNCHANGED <<snap, base, error>>

\* refreshThread and refreshThreadAndList; one snapshot is loaded at a time.
Asked(s) == IF s.at = "none" THEN [s EXCEPT !.at = "asked"] ELSE [s EXCEPT !.again = TRUE]

\* Mutant: the display is cleared and nothing loaded.
ResyncedOnly(c) ==
    /\ live' = {}
    /\ cursor' = c
    /\ after' = c
    /\ UNCHANGED <<snap, base, error>>

\* console.stream.resync_required: the sequence replaces the cursor.
Resynced(c) ==
    /\ live' = {}
    /\ cursor' = c
    /\ after' = c
    /\ snap' = Asked(snap)
    /\ UNCHANGED <<base, error>>

-----------------------------------------------------------------------------
(* THE STREAM: api_thread_events and subscribe_events *)

\* subscribe_events subscribes, reads the Journal and aligns the hub without a
\* yield.
Connect ==
    /\ conn.phase = "off"
    /\ Hub!Subscribe(Sub)
    /\ Hub!Advance(Len(log))
    /\ LET replay == Hub!Initial(after) \cup ((after + 1)..Len(log))
           resync == \/ after > Len(log)
                     \/ torn
                     \/ replay # {} /\ Min(replay) # after + 1
       IN conn' = [phase    |-> IF resync THEN "resync" ELSE "replay",
                   replay   |-> replay,
                   boundary |-> Len(log)]
    /\ UNCHANGED <<journalVars, history, browserVars, breaks>>

\* read_thread raises before the stream starts: the answer is 404, 409 or 503,
\* after which an EventSource does not try again.  The console's onerror only
\* displays "reconnecting".
Refused ==
    /\ Break
    /\ conn.phase = "off"
    /\ conn' = [NoConn EXCEPT !.phase = "refused"]
    /\ UNCHANGED <<journalVars, hubVars, browserVars>>

SendResync ==
    /\ conn.phase = "resync"
    /\ conn' = [conn EXCEPT !.phase = "ready"]
    /\ Resynced(conn.boundary)
    /\ UNCHANGED <<journalVars, hubVars, breaks>>

SendReplay ==
    /\ conn.phase = "replay"
    /\ conn.replay # {}
    /\ conn' = [conn EXCEPT !.replay = @ \ {Min(@)}]
    /\ Show(Min(conn.replay))
    /\ UNCHANGED <<journalVars, hubVars, breaks>>

SendReady ==
    /\ conn.phase = "ready" \/ (conn.phase = "replay" /\ conn.replay = {})
    /\ conn' = [conn EXCEPT !.phase = "live", !.replay = {}]
    /\ cursor' = Larger(cursor, conn.boundary)
    /\ after' = conn.boundary
    /\ UNCHANGED <<journalVars, hubVars, snap, base, live, error, breaks>>

SendLive ==
    /\ conn.phase = "live"
    /\ Hub!Take(Sub)
    /\ Head(queue[Sub]) # Hub!Resync
    /\ IF Head(queue[Sub]) > conn.boundary
         THEN Show(Head(queue[Sub]))
         ELSE UNCHANGED browserVars
    /\ UNCHANGED <<journalVars, sequence, history, conn, breaks>>

\* The queue overflowed: the browser is told to resync, and the stream ends.
SendOverflow ==
    /\ conn.phase = "live"
    /\ queue[Sub] = <<Hub!Resync>>
    /\ Hub!Close(Sub)
    /\ Hub!Advance(Len(log))
    /\ Resynced(Len(log))
    /\ conn' = [NoConn EXCEPT !.phase = "off"]
    /\ UNCHANGED <<journalVars, history, breaks>>

\* Mutant: the console closes the EventSource when its connection breaks.
DisconnectFinal ==
    /\ Break
    /\ conn.phase \notin {"none", "off", "refused"}
    /\ Hub!Close(Sub)
    /\ conn' = NoConn
    /\ UNCHANGED <<journalVars, sequence, history, browserVars>>

\* The connection breaks; the EventSource tries again by itself.
Disconnect ==
    /\ Break
    /\ conn.phase \notin {"none", "off", "refused"}
    /\ Hub!Close(Sub)
    /\ conn' = [NoConn EXCEPT !.phase = "off"]
    /\ UNCHANGED <<journalVars, sequence, history, browserVars>>

-----------------------------------------------------------------------------
(* SNAPSHOTS *)

\* A terminal event or an answer of the user's makes the console refresh.
Refresh ==
    /\ snap' = Asked(snap)
    /\ UNCHANGED <<journalVars, hubVars, conn, after, base, live, cursor, error, breaks>>

\* selectThread: when the snapshot is there, connectEvents replaces the stream.
Select ==
    /\ live' = {}
    /\ error' = FALSE
    /\ snap' = [Asked(snap) EXCEPT !.connect = TRUE]
    /\ UNCHANGED <<journalVars, hubVars, conn, after, base, cursor, breaks>>

\* _materialized_view reads the Journal and aligns the hub.
SnapshotRead ==
    /\ snap.at = "asked"
    /\ snap' = [snap EXCEPT !.at = "read", !.cursor = Len(log)]
    /\ Hub!Advance(Len(log))
    /\ UNCHANGED <<journalVars, history, registered, queue, conn,
                   after, base, live, cursor, error, breaks>>

\* convergeTimelineSnapshot, then connectEvents if this ends a selection.
SnapshotArrives ==
    /\ snap.at = "read"
    /\ base' = snap.cursor
    /\ live' = {e \in live : e > snap.cursor}
    /\ cursor' = Larger(cursor, snap.cursor)
    /\ IF snap.again
         THEN /\ snap' = [Idle EXCEPT !.at = "asked", !.connect = snap.connect]
              /\ UNCHANGED <<conn, registered, queue, after>>
         ELSE /\ snap' = Idle
              /\ IF snap.connect
                   THEN /\ conn' = [NoConn EXCEPT !.phase = "off"]
                        /\ Hub!Close(Sub)
                        /\ after' = cursor'
                   ELSE UNCHANGED <<conn, registered, queue, after>>
    /\ UNCHANGED <<journalVars, sequence, history, error, breaks>>

\* The request fails: the console says so and does not ask again.
SnapshotFails ==
    /\ Break
    /\ snap.at # "none"
    /\ snap' = Idle
    /\ error' = TRUE
    /\ UNCHANGED <<journalVars, hubVars, conn, after, base, live, cursor>>

-----------------------------------------------------------------------------
\* The server restarts, perhaps out of the middle of an append.
Restart ==
    /\ Break
    /\ torn' \in BOOLEAN
    /\ fan' = 0
    /\ sequence' = 0 /\ history' = <<>> /\ registered' = {}
    /\ queue' = [queue EXCEPT ![Sub] = <<>>]
    /\ conn' = IF conn.phase \in {"none", "refused"} THEN conn
               ELSE [NoConn EXCEPT !.phase = "off"]
    /\ snap' = Idle
    /\ error' = (error \/ snap.at # "none")
    /\ UNCHANGED <<log, unsent, after, base, live, cursor>>

Server == Record \/ Decorated \/ Rejected \/ OtherReads

Stream ==
    \/ Connect \/ Refused \/ Disconnect
    \/ SendResync \/ SendReplay \/ SendReady \/ SendLive \/ SendOverflow

Console == Refresh \/ Select \/ SnapshotRead \/ SnapshotArrives \/ SnapshotFails

Next == Server \/ Stream \/ Console \/ Restart

Spec == Init /\ [][Next]_vars

\* The thread pool answers, a connection that is not refused is made and sends,
\* and requests are answered.
Fairness ==
    /\ WF_vars(Decorated) /\ WF_vars(Rejected)
    /\ WF_vars(Connect) /\ WF_vars(SendResync) /\ WF_vars(SendReplay)
    /\ WF_vars(SendReady) /\ WF_vars(SendLive) /\ WF_vars(SendOverflow)
    /\ WF_vars(SnapshotRead) /\ WF_vars(SnapshotArrives)

FairSpec == Spec /\ Fairness

-----------------------------------------------------------------------------
(* PROPERTIES *)

Shown == (1..base) \cup live

FannedOut == IF fan = 0 THEN Len(log) ELSE fan - 1

\* A snapshot is on its way, or the user was told that one failed.
GapIsKnown == snap.at # "none" \/ error

\* What the browser's cursor has passed is on display: reconnecting with it
\* loses nothing.
NothingSkipped == GapIsKnown \/ (1..cursor) \subseteq Shown

\* The same, but for publications that the hub rejected.
OnlyRejectedAreSkipped == GapIsKnown \/ (1..cursor) \subseteq Shown \cup unsent

\* A stream's queue is exactly what was recorded since what it has sent: there
\* is neither gap nor repeat between snapshot, replay and live events.
StreamContinues ==
    conn.phase = "live" /\ queue[Sub] # <<Hub!Resync>> =>
        LET coming == {i \in DOMAIN queue[Sub] : queue[Sub][i] > conn.boundary} IN
        /\ {queue[Sub][i] : i \in coming} = ((after + 1)..FannedOut) \ unsent
        /\ \A i, j \in coming : i < j => queue[Sub][i] < queue[Sub][j]

\* No event is on display twice.
ShownOnce == live \cap (1..base) = {}

\* When nothing breaks any more, the display catches up with the Journal, unless
\* the last thing that broke is that a connection was refused: then only a
\* selection of the user's connects again.
CatchesUp ==
    <>[](\/ error
         \/ conn.phase = "refused"
         \/ 1..Len(log) \subseteq Shown \cup unsent)

\* The same of every stream, also of one that was refused.
AlwaysCatchesUp == <>[](error \/ 1..Len(log) \subseteq Shown \cup unsent)
=============================================================================
