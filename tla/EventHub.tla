------------------------------ MODULE EventHub ------------------------------
(***************************************************************************)
(* The EventHub (event_hub.py): the process-local fan-out of one Thread.   *)
(* No method yields while it holds the hub's lock, so a call is a step;    *)
(* the actions below name the variables they change and are composed by    *)
(* callers that make several calls in one step.                            *)
(*                                                                         *)
(* The limits are positive; EventDelivery assumes it.                      *)
(*                                                                         *)
(* An event is its sequence; Resync stands for the marker _RESYNC.         *)
(***************************************************************************)
EXTENDS Integers, Sequences

CONSTANTS Subs,          \* subscriptions
          HistoryLimit,  \* history_limit
          QueueLimit     \* subscriber_queue_limit

VARIABLES sequence,    \* _ThreadEvents.sequence
          history,     \* _ThreadEvents.history
          registered,  \* _ThreadEvents.subscribers
          queue        \* Subscription.queue

hubVars == <<sequence, history, registered, queue>>

Resync == 0

TypeOK ==
    /\ sequence \in Nat
    /\ history \in Seq(Nat \ {Resync})
    /\ registered \subseteq Subs
    /\ queue \in [Subs -> Seq(Nat)]

Init ==
    /\ sequence = 0
    /\ history = <<>>
    /\ registered = {}
    /\ queue = [s \in Subs |-> <<>>]

Run(first, last) == [i \in 1..(last - first + 1) |-> first + i - 1]

Newest(events) ==
    IF Len(events) <= HistoryLimit THEN events
    ELSE SubSeq(events, Len(events) - HistoryLimit + 1, Len(events))

\* publish raises ValueError for a sequence that the hub has reached.
Accepts(event) == event > sequence

Slow(n) == {s \in registered : Len(queue[s]) + n > QueueLimit}

\* Mutant: what does not fit into a full queue is dropped.
PublishDropping(first, last) ==
    /\ first <= last
    /\ Accepts(first)
    /\ sequence' = last
    /\ history' = Newest(history \o Run(first, last))
    /\ queue' = [s \in Subs |->
                    IF s \in registered \ Slow(last - first + 1)
                      THEN queue[s] \o Run(first, last)
                      ELSE queue[s]]
    /\ UNCHANGED registered

\* publish, called for first..last without a yield.  A subscriber whose queue
\* is full is dropped, and its queue replaced by the marker.
Publish(first, last) ==
    /\ first <= last
    /\ Accepts(first)
    /\ sequence' = last
    /\ history' = Newest(history \o Run(first, last))
    /\ LET slow == Slow(last - first + 1) IN
       /\ registered' = registered \ slow
       /\ queue' = [s \in Subs |->
                       IF s \in slow THEN <<Resync>>
                       ELSE IF s \in registered THEN queue[s] \o Run(first, last)
                       ELSE queue[s]]

\* advance_sequence
Advance(cursor) == sequence' = IF cursor > sequence THEN cursor ELSE sequence

\* subscribe registers; Initial and Behind are its initial_events and
\* resync_required.
Subscribe(s) ==
    /\ registered' = registered \cup {s}
    /\ queue' = [queue EXCEPT ![s] = <<>>]

Initial(after) == {e \in {history[i] : i \in DOMAIN history} : e > after}

Behind(after) ==
    \/ after > sequence
    \/ history # <<>> /\ after < Head(history) - 1

\* next_event
Take(s) ==
    /\ queue[s] # <<>>
    /\ queue' = [queue EXCEPT ![s] = Tail(@)]
    /\ UNCHANGED registered

\* close, after which nobody reads the queue.
Close(s) ==
    /\ registered' = registered \ {s}
    /\ queue' = [queue EXCEPT ![s] = <<>>]
=============================================================================
