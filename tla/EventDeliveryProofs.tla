------------------------ MODULE EventDeliveryProofs --------------------------
(***************************************************************************)
(* Proofs about EventDelivery: what the browser's cursor has passed is on  *)
(* display, was rejected by the hub, or is known to be missing; and a      *)
(* stream's queue is what follows what the stream has sent.                *)
(*                                                                         *)
(* The inductive invariant joins three accounts of the same events.        *)
(*   HubOK     the hub's sequence and history and the snapshot's cursor do *)
(*             not pass the Journal, and what was rejected lies behind the *)
(*             record in decoration;                                       *)
(*   StreamOK  a subscription's queue is increasing and holds what was     *)
(*             fanned out since its boundary (or since the last live       *)
(*             event), and a replay is the run from Last-Event-ID to the   *)
(*             boundary;                                                   *)
(*   CursorOK  the cursor of the next connection is not ahead of the       *)
(*             console's, and what the console's has passed is shown or    *)
(*             unsent, also by the display that an answered snapshot       *)
(*             is about to make.                                           *)
(* A queue is compared as a set of events with an order on its positions:  *)
(* Elements and Increasing, not a fold over it.                            *)
(***************************************************************************)
EXTENDS EventDelivery, WellFoundedInduction, TLAPS

Increasing(q) == \A i, j \in DOMAIN q : i < j => q[i] < q[j]
Elements(q) == {q[i] : i \in DOMAIN q}

HubOK ==
    /\ sequence <= Len(log)
    /\ \A i \in DOMAIN history : history[i] <= Len(log)
    /\ snap.cursor <= Len(log)
    /\ unsent \subseteq 1..FannedOut

Streaming == conn.phase \notin {"none", "off", "refused"}

\* What the stream has sent, or sends from the Journal.
Position == IF conn.phase = "live" THEN after ELSE conn.boundary

StreamOK ==
    Streaming =>
        /\ conn.boundary <= sequence
        /\ conn.phase = "replay" => after <= conn.boundary /\ conn.replay = (after + 1)..conn.boundary
        /\ conn.phase = "ready" => conn.boundary <= cursor
        /\ conn.phase = "live" => conn.boundary <= after /\ after <= sequence
        /\ \/ Sub \notin registered /\ queue[Sub] = <<Hub!Resync>>
           \/ /\ Sub \in registered
              /\ Increasing(queue[Sub])
              /\ Elements(queue[Sub]) = ((Position + 1)..FannedOut) \ unsent
              /\ \A e \in Elements(queue[Sub]) : e <= sequence

CursorOK ==
    /\ after <= cursor
    /\ GapIsKnown \/ (1..cursor) \subseteq Shown \cup unsent
    /\ snap.at = "read" /\ ~snap.again => ((snap.cursor + 1)..cursor) \subseteq live \cup unsent

IInv == TypeOK /\ HubOK /\ StreamOK /\ CursorOK

-----------------------------------------------------------------------------
(* Smallest elements, and queues *)

LEMMA MinFacts ==
    ASSUME NEW S, S \subseteq Nat, S # {}
    PROVE  Min(S) \in S /\ \A y \in S : Min(S) <= y
<1>1. PICK x \in S : \A y \in S : ~(<<y, x>> \in OpToRel(<, Nat))
  BY NatLessThanWellFounded, WFMin
<1>2. \A y \in S : <<y, x>> \in Nat \X Nat
  BY <1>1
<1>3. \A y \in S : ~(y < x)
  BY <1>1, <1>2 DEF OpToRel
<1>4. \A y \in S : x <= y
  BY <1>3
<1> QED
  BY <1>4 DEF Min

LEMMA RunFacts ==
    ASSUME NEW a \in Nat, NEW b \in Nat, a <= b
    PROVE  /\ Hub!Run(a, b) \in Seq(Nat)
           /\ Len(Hub!Run(a, b)) = b - a + 1
           /\ \A i \in 1..(b - a + 1) : Hub!Run(a, b)[i] = a + i - 1
BY DEF Hub!Run

LEMMA RunJoins ==
    ASSUME NEW q \in Seq(Nat), NEW a \in Nat, NEW b \in Nat, a <= b,
           Increasing(q), \A e \in Elements(q) : e < a
    PROVE  /\ q \o Hub!Run(a, b) \in Seq(Nat)
           /\ Increasing(q \o Hub!Run(a, b))
           /\ Elements(q \o Hub!Run(a, b)) = Elements(q) \cup (a..b)
<1> DEFINE r == Hub!Run(a, b)
<1> DEFINE j == q \o r
<1>1. r \in Seq(Nat) /\ Len(r) = b - a + 1 /\ \A i \in 1..(b - a + 1) : r[i] = a + i - 1
  BY RunFacts
<1> HIDE DEF r
<1>2. /\ j \in Seq(Nat) /\ Len(j) = Len(q) + Len(r)
      /\ \A i \in 1..Len(q) : j[i] = q[i]
      /\ \A i \in (Len(q) + 1)..Len(j) : j[i] = r[i - Len(q)]
  <2>1. r \in Seq(Nat) /\ q \in Seq(Nat)
    BY <1>1
  <2>2. j \in Seq(Nat) /\ Len(j) = Len(q) + Len(r)
    BY <2>1
  <2>3. \A i \in 1..Len(q) : j[i] = q[i]
    BY <2>1
  <2>4. \A i \in (Len(q) + 1)..(Len(q) + Len(r)) : j[i] = r[i - Len(q)]
    BY <2>1
  <2> QED
    BY <2>2, <2>3, <2>4
<1>n. Len(q) \in Nat /\ DOMAIN q = 1..Len(q) /\ DOMAIN j = 1..Len(j)
  BY <1>2
<1> HIDE DEF j
<1>3. \A i \in (Len(q) + 1)..Len(j) : j[i] = a + (i - Len(q)) - 1
  BY <1>1, <1>2, <1>n
<1>4. \A i \in DOMAIN q : q[i] < a /\ q[i] \in Nat
  BY DEF Elements
<1>l. Len(j) = Len(q) + (b - a) + 1
  BY <1>1, <1>2
<1>5. Increasing(j)
  <2> SUFFICES ASSUME NEW m \in 1..Len(j), NEW n \in 1..Len(j), m < n PROVE j[m] < j[n]
    BY <1>n DEF Increasing
  <2>1. CASE n \in 1..Len(q)
    <3>1. m \in 1..Len(q)
      BY <1>n, <2>1
    <3> QED
      BY <1>2, <1>n, <2>1, <3>1 DEF Increasing
  <2>2. CASE n \in (Len(q) + 1)..Len(j)
    <3>1. j[n] = a + (n - Len(q)) - 1 /\ a <= j[n]
      BY <1>3, <1>n, <2>2
    <3>2. CASE m \in 1..Len(q)
      <4>1. j[m] = q[m] /\ q[m] < a /\ q[m] \in Nat
        BY <1>2, <1>4, <1>n, <3>2
      <4> QED
        BY <3>1, <4>1, <1>n
    <3>3. CASE m \in (Len(q) + 1)..Len(j)
      <4>1. j[m] = a + (m - Len(q)) - 1
        BY <1>3, <3>3
      <4> QED
        BY <3>1, <4>1, <1>n
    <3> QED
      BY <1>n, <3>2, <3>3
  <2> QED
    BY <1>n, <2>1, <2>2
<1>6. Elements(j) = Elements(q) \cup (a..b)
  <2>1. ASSUME NEW e \in a..b PROVE \E i \in DOMAIN j : j[i] = e
    <3>1. Len(q) + (e - a) + 1 \in (Len(q) + 1)..Len(j)
      BY <1>1, <1>2, <1>n
    <3>2. j[Len(q) + (e - a) + 1] = e
      BY <1>3, <1>n, <3>1
    <3> QED
      BY <1>n, <3>1, <3>2
  <2>2. ASSUME NEW i \in DOMAIN j PROVE j[i] \in Elements(q) \cup (a..b)
    <3>1. CASE i \in 1..Len(q)
      BY <1>2, <1>n, <3>1 DEF Elements
    <3>2. CASE i \in (Len(q) + 1)..Len(j)
      <4>1. j[i] = a + (i - Len(q)) - 1
        BY <1>3, <3>2
      <4> QED
        BY <1>l, <1>n, <3>2, <4>1
    <3> QED
      BY <1>n, <3>1, <3>2
  <2>3. ASSUME NEW i \in DOMAIN q PROVE q[i] \in Elements(j)
    <3>1. i \in DOMAIN j /\ j[i] = q[i]
      BY <1>l, <1>2, <1>n
    <3> QED
      BY <3>1 DEF Elements
  <2> QED
    BY <2>1, <2>2, <2>3 DEF Elements
<1> QED
  BY <1>2, <1>5, <1>6 DEF j, r

\* The head of a queue is the smallest event in it.
LEMMA HeadLeaves ==
    ASSUME NEW q \in Seq(Nat), q # <<>>, Increasing(q)
    PROVE  /\ Tail(q) \in Seq(Nat) /\ Increasing(Tail(q))
           /\ Head(q) \in Elements(q)
           /\ Elements(Tail(q)) = {e \in Elements(q) : e > Head(q)}
           /\ \A e \in Elements(q) : Head(q) <= e
<1>1. /\ Len(q) \in Nat \ {0} /\ DOMAIN q = 1..Len(q) /\ Head(q) = q[1]
      /\ Tail(q) \in Seq(Nat) /\ Len(Tail(q)) = Len(q) - 1
      /\ \A i \in 1..(Len(q) - 1) : Tail(q)[i] = q[i + 1]
      /\ \A i \in DOMAIN q : q[i] \in Nat
  OBVIOUS
<1>2. DOMAIN Tail(q) = 1..(Len(q) - 1)
  BY <1>1
<1>3. Increasing(Tail(q))
  BY <1>1, <1>2 DEF Increasing
<1>4. \A i \in DOMAIN q : i # 1 => q[1] < q[i]
  BY <1>1 DEF Increasing
<1>5. \A i \in DOMAIN q : i # 1 => i - 1 \in DOMAIN Tail(q) /\ Tail(q)[i - 1] = q[i]
  BY <1>1, <1>2
<1>6. ASSUME NEW e \in Elements(Tail(q)) PROVE e \in Elements(q) /\ e > Head(q)
  <2>1. PICK i \in 1..(Len(q) - 1) : e = q[i + 1]
    BY <1>1, <1>2 DEF Elements
  <2>2. i + 1 \in DOMAIN q /\ i + 1 # 1
    BY <1>1
  <2> QED
    BY <1>1, <1>4, <2>1, <2>2 DEF Elements
<1>7. ASSUME NEW e \in Elements(q), e > Head(q) PROVE e \in Elements(Tail(q))
  <2>1. PICK i \in DOMAIN q : e = q[i]
    BY DEF Elements
  <2>2. i # 1
    BY <1>1, <1>7, <2>1
  <2> QED
    BY <1>5, <2>1, <2>2 DEF Elements
<1>8. Head(q) \in Elements(q) /\ \A e \in Elements(q) : Head(q) <= e
  BY <1>1, <1>4 DEF Elements
<1> QED
  BY <1>1, <1>3, <1>6, <1>7, <1>8

-----------------------------------------------------------------------------
(* What publications do *)

HubTyped ==
    /\ sequence \in Nat
    /\ history \in Seq(Nat \ {Hub!Resync})
    /\ registered \subseteq {Sub}
    /\ queue \in [{Sub} -> Seq(Nat)]

LEMMA PublishFacts ==
    ASSUME HubTyped, NEW a \in Nat \ {0}, NEW b \in Nat, a <= b, Hub!Publish(a, b)
    PROVE  /\ sequence < a /\ sequence' = b
           /\ registered' \subseteq registered
           /\ queue' \in [{Sub} -> Seq(Nat)]
           /\ Sub \notin registered => queue'[Sub] = queue[Sub]
           /\ Sub \in registered \ registered' => queue'[Sub] = <<Hub!Resync>>
           /\ Sub \in registered' => queue'[Sub] = queue[Sub] \o Hub!Run(a, b)
<1>1. sequence < a /\ sequence' = b
  BY DEF HubTyped, Hub!Publish, Hub!Accepts
<1>2. Hub!Run(a, b) \in Seq(Nat) /\ <<Hub!Resync>> \in Seq(Nat)
  BY RunFacts DEF Hub!Resync
<1>3. PICK slow \in SUBSET registered :
          /\ registered' = registered \ slow
          /\ queue' = [s \in {Sub} |-> IF s \in slow THEN <<Hub!Resync>>
                                       ELSE IF s \in registered THEN queue[s] \o Hub!Run(a, b)
                                       ELSE queue[s]]
  BY DEF Hub!Publish, Hub!Slow
<1>4. queue[Sub] \in Seq(Nat) /\ queue[Sub] \o Hub!Run(a, b) \in Seq(Nat)
  BY <1>2 DEF HubTyped
<1> QED
  BY <1>1, <1>2, <1>3, <1>4

LEMMA HistoryFacts ==
    ASSUME HubTyped, NEW a \in Nat \ {0}, NEW b \in Nat, a <= b, Hub!Publish(a, b)
    PROVE  /\ history' \in Seq(Nat \ {Hub!Resync})
           /\ \A i \in DOMAIN history' :
                 history'[i] <= b \/ \E j \in DOMAIN history : history'[i] = history[j]
<1> DEFINE r == Hub!Run(a, b)
<1> DEFINE h == history \o r
<1>1. r \in Seq(Nat) /\ Len(r) = b - a + 1 /\ \A i \in 1..(b - a + 1) : r[i] = a + i - 1
  BY RunFacts
<1> HIDE DEF r
<1>2. \A i \in 1..Len(r) : r[i] \in Nat \ {Hub!Resync} /\ r[i] <= b
  BY <1>1 DEF Hub!Resync
<1>3. r \in Seq(Nat \ {Hub!Resync})
  BY DEF r, Hub!Run, Hub!Resync
<1>4. /\ h \in Seq(Nat \ {Hub!Resync}) /\ Len(h) = Len(history) + Len(r)
      /\ \A i \in 1..Len(history) : h[i] = history[i]
      /\ \A i \in (Len(history) + 1)..Len(h) : h[i] = r[i - Len(history)]
      /\ Len(history) \in Nat /\ DOMAIN history = 1..Len(history)
  BY <1>3 DEF HubTyped
<1> HIDE DEF h
<1>5. \A i \in 1..Len(h) : h[i] <= b \/ \E j \in DOMAIN history : h[i] = history[j]
  <2> SUFFICES ASSUME NEW i \in 1..Len(h)
               PROVE  h[i] <= b \/ \E j \in DOMAIN history : h[i] = history[j]
    OBVIOUS
  <2>1. CASE i \in 1..Len(history)
    BY <1>4, <2>1
  <2>2. CASE i \in (Len(history) + 1)..Len(h)
    <3>1. i - Len(history) \in 1..Len(r) /\ h[i] = r[i - Len(history)]
      BY <1>1, <1>4, <2>2
    <3> QED
      BY <1>2, <3>1
  <2> QED
    BY <1>4, <2>1, <2>2
<1>6. history' = Hub!Newest(h)
  BY DEF Hub!Publish, h, r
<1>7. CASE Len(h) <= HistoryLimit
  BY <1>4, <1>5, <1>6, <1>7 DEF Hub!Newest
<1>8. CASE ~(Len(h) <= HistoryLimit)
  <2>1. HistoryLimit \in Nat /\ Len(h) \in Nat
    BY Limits, <1>4
  <2> DEFINE m == Len(h) - HistoryLimit + 1
  <2>2. m \in 1..Len(h) + 1 /\ history' = SubSeq(h, m, Len(h))
    BY <1>6, <1>8, <2>1 DEF Hub!Newest
  <2> HIDE DEF m
  <2>3. m \in Nat /\ 1 <= m /\ h \in Seq(Nat \ {Hub!Resync})
    BY <1>4, <2>1, <2>2
  <2>4. history' \in Seq(Nat \ {Hub!Resync}) /\ Len(history') = Len(h) - m + 1
    BY <2>1, <2>2, <2>3
  <2>5. ASSUME NEW i \in 1..Len(history')
        PROVE  m + i - 1 \in 1..Len(h) /\ history'[i] = h[m + i - 1]
    <3>1. i \in 1..(Len(h) - m + 1)
      BY <2>4
    <3>2. m + i - 1 \in 1..Len(h)
      BY <2>1, <2>3, <3>1
    <3>3. history'[i] = h[m + i - 1]
      BY <2>1, <2>2, <2>3, <3>1
    <3> QED
      BY <3>2, <3>3
  <2>6. DOMAIN history' = 1..Len(history')
    BY <2>4
  <2> QED
    BY <1>5, <2>4, <2>5, <2>6
<1> QED
  BY <1>7, <1>8

\* What is published without a yield is a run of records.
LEMMA FanOutFacts ==
    ASSUME NEW records, Len(records) \in Nat, NEW a \in Nat \ {0}, a <= Len(records),
           NEW td, td \subseteq a..Len(records), FanOut(records, a, td)
    PROVE  \E b \in (a - 1)..Len(records) :
              /\ fan' = IF b = Len(records) THEN 0 ELSE b + 1
              /\ (a <= b /\ Hub!Publish(a, b)) \/ (b = a - 1 /\ UNCHANGED hubVars)
<1>1. CASE td = {}
  BY <1>1 DEF FanOut
<1>2. CASE td # {}
  <2>1. Min(td) \in a..Len(records)
    <3>1. td \subseteq Nat
      OBVIOUS
    <3>2. Min(td) \in td
      BY <1>2, <3>1, MinFacts
    <3> QED
      BY <3>2
  <2> DEFINE b == Min(td) - 1
  <2>2. b \in (a - 1)..Len(records) /\ b # Len(records)
    BY <2>1
  <2>4. fan' = b + 1
    <3>1. fan' = Min(td)
      BY <1>2 DEF FanOut
    <3> QED
      BY <2>1, <3>1
  <2>3. (a <= b /\ Hub!Publish(a, b)) \/ (b = a - 1 /\ UNCHANGED hubVars)
    <3>1. IF a <= b THEN Hub!Publish(a, b) ELSE UNCHANGED hubVars
      BY <1>2 DEF FanOut
    <3> QED
      BY <2>1, <3>1
  <2> QED
    BY <2>2, <2>3, <2>4
<1> QED
  BY <1>1, <1>2

LEMMA Facts ==
    IInv =>
        /\ HubTyped
        /\ log \in Seq(Kinds) /\ Len(log) \in Nat /\ Len(log) <= MaxSeq /\ MaxSeq \in Nat
        /\ fan \in 0..Len(log) /\ after \in 0..Len(log) /\ base \in 0..Len(log)
        /\ cursor \in 0..Len(log) /\ FannedOut \in 0..Len(log)
        /\ torn \in BOOLEAN /\ error \in BOOLEAN /\ breaks \in 0..MaxBreaks
        /\ conn \in [phase : Phases, replay : SUBSET (1..MaxSeq), boundary : 0..MaxSeq]
        /\ snap \in [at : {"none", "asked", "read"}, cursor : 0..MaxSeq,
                     again : BOOLEAN, connect : BOOLEAN]
        /\ live \subseteq 1..Len(log) /\ unsent \subseteq 1..FannedOut
        /\ queue[Sub] \in Seq(Nat)
        /\ sequence <= Len(log) /\ snap.cursor <= Len(log)
BY Bounds DEF Bounds, IInv, TypeOK, HubOK, Hub!TypeOK, HubTyped, FannedOut

\* The records that a publication reaches follow those that were dealt with.
LEMMA PublicationFacts ==
    ASSUME IInv, Record \/ Decorated
    PROVE  \E b \in FannedOut..Len(log') :
              /\ log' \in Seq(Kinds) /\ Len(log) <= Len(log') /\ Len(log') <= MaxSeq
              /\ fan' = IF b = Len(log') THEN 0 ELSE b + 1
              /\ sequence <= FannedOut
              /\ \/ FannedOut + 1 <= b /\ Hub!Publish(FannedOut + 1, b)
                 \/ b = FannedOut /\ UNCHANGED hubVars
              /\ torn' \in BOOLEAN /\ UNCHANGED <<unsent, conn, browserVars, breaks>>
<1>0. /\ log \in Seq(Kinds) /\ Len(log) \in Nat /\ Len(log) <= MaxSeq /\ MaxSeq \in Nat
      /\ fan \in 0..Len(log) /\ sequence <= Len(log) /\ sequence \in Nat /\ torn \in BOOLEAN
      /\ HubTyped
  BY Facts DEF HubTyped
<1>1. CASE Record
  <2>a. PICK n \in 1..MaxBatch :
            \E batch \in [1..n -> Kinds] :
                /\ Len(log) + n <= MaxSeq
                /\ log' = log \o batch
                /\ FanOut(log', Len(log) + 1, Attached(log', Len(log) + 1))
    BY <1>1 DEF Record
  <2>1. PICK batch \in [1..n -> Kinds] :
            /\ Len(log) + n <= MaxSeq
            /\ log' = log \o batch
            /\ FanOut(log', Len(log) + 1, Attached(log', Len(log) + 1))
    BY <2>a
  <2>2. n \in Nat /\ n > 0
    BY Bounds
  <2>3. log' \in Seq(Kinds) /\ Len(log') = Len(log) + n
    <3>1. batch \in Seq(Kinds) /\ Len(batch) = n
      BY <2>2
    <3>2. log \in Seq(Kinds)
      BY <1>0
    <3>3. log \o batch \in Seq(Kinds) /\ Len(log \o batch) = Len(log) + Len(batch)
      BY <3>1, <3>2
    <3> QED
      BY <2>1, <3>1, <3>3
  <2>4. Attached(log', Len(log) + 1) \subseteq (Len(log) + 1)..Len(log')
    BY DEF Attached
  <2>5. FannedOut = Len(log)
    BY <1>1 DEF Record, FannedOut
  <2>6. PICK b \in Len(log)..Len(log') :
            /\ fan' = IF b = Len(log') THEN 0 ELSE b + 1
            /\ (Len(log) + 1 <= b /\ Hub!Publish(Len(log) + 1, b))
               \/ (b = Len(log) /\ UNCHANGED hubVars)
    <3>1. PICK records : records = log'
      OBVIOUS
    <3>2. PICK a : a = Len(log) + 1
      OBVIOUS
    <3>3. /\ Len(records) \in Nat /\ a \in Nat \ {0} /\ a <= Len(records) /\ a - 1 = Len(log)
      BY <1>0, <2>2, <2>3, <3>1, <3>2
    <3>4. Attached(records, a) \subseteq a..Len(records) /\ FanOut(records, a, Attached(records, a))
      BY <2>1, <2>4, <3>1, <3>2
    <3>5. \E b \in (a - 1)..Len(records) :
              /\ fan' = IF b = Len(records) THEN 0 ELSE b + 1
              /\ (a <= b /\ Hub!Publish(a, b)) \/ (b = a - 1 /\ UNCHANGED hubVars)
      BY <3>3, <3>4, FanOutFacts
    <3> QED
      BY <3>1, <3>2, <3>3, <3>5
  <2>7. torn' \in BOOLEAN /\ UNCHANGED <<unsent, conn, browserVars, breaks>>
    BY <1>1 DEF Record
  <2> QED
    BY <1>0, <2>1, <2>2, <2>3, <2>5, <2>6, <2>7
<1>2. CASE Decorated
  <2>1. fan \in Nat \ {0} /\ fan <= Len(log) /\ FannedOut = fan - 1 /\ sequence < fan
    BY <1>0, <1>2 DEF Decorated, FannedOut, Hub!Accepts
  <2>2. Attached(log, fan + 1) \subseteq fan..Len(log)
    BY <2>1 DEF Attached
  <2>3. PICK b \in (fan - 1)..Len(log) :
            /\ fan' = IF b = Len(log) THEN 0 ELSE b + 1
            /\ (fan <= b /\ Hub!Publish(fan, b)) \/ (b = fan - 1 /\ UNCHANGED hubVars)
    BY <1>0, <1>2, <2>1, <2>2, FanOutFacts DEF Decorated
  <2>4. UNCHANGED <<log, torn, unsent, conn, browserVars, breaks>>
    BY <1>2 DEF Decorated
  <2>5. FannedOut + 1 = fan /\ sequence <= FannedOut
    BY <1>0, <2>1
  <2> QED
    BY <1>0, <2>1, <2>3, <2>4, <2>5
<1> QED
  BY <1>1, <1>2

LEMMA PublicationKeeps ==
    ASSUME IInv, Record \/ Decorated
    PROVE  IInv'
<1>1. PICK b \in FannedOut..Len(log') :
              /\ log' \in Seq(Kinds) /\ Len(log) <= Len(log') /\ Len(log') <= MaxSeq
              /\ fan' = IF b = Len(log') THEN 0 ELSE b + 1
              /\ sequence <= FannedOut
              /\ \/ FannedOut + 1 <= b /\ Hub!Publish(FannedOut + 1, b)
                 \/ b = FannedOut /\ UNCHANGED hubVars
              /\ torn' \in BOOLEAN /\ UNCHANGED <<unsent, conn, browserVars, breaks>>
  BY PublicationFacts
<1>0. /\ HubTyped /\ Len(log) \in Nat /\ Len(log') \in Nat /\ FannedOut \in Nat
      /\ after \in 0..Len(log) /\ base \in 0..Len(log) /\ cursor \in 0..Len(log)
      /\ error \in BOOLEAN /\ breaks \in 0..MaxBreaks
      /\ conn \in [phase : Phases, replay : SUBSET (1..MaxSeq), boundary : 0..MaxSeq]
      /\ snap \in [at : {"none", "asked", "read"}, cursor : 0..MaxSeq,
                   again : BOOLEAN, connect : BOOLEAN]
      /\ live \subseteq 1..Len(log) /\ unsent \subseteq 1..FannedOut
      /\ queue[Sub] \in Seq(Nat) /\ sequence \in Nat
      /\ sequence <= Len(log) /\ snap.cursor <= Len(log)
      /\ b \in Nat
  BY <1>1, Facts DEF HubTyped
<1>2. FannedOut' = b /\ fan' \in 0..Len(log')
  BY <1>0, <1>1 DEF FannedOut
<1>3. /\ after' = after /\ base' = base /\ cursor' = cursor /\ error' = error /\ live' = live
      /\ snap' = snap /\ unsent' = unsent /\ conn' = conn /\ breaks' = breaks
  BY <1>1 DEF browserVars
\* What the hub does, if it does something.
<1>4. /\ sequence' \in Nat /\ sequence <= sequence' /\ sequence' <= Len(log')
      /\ registered' \subseteq registered
      /\ history' \in Seq(Nat \ {Hub!Resync}) /\ queue' \in [{Sub} -> Seq(Nat)]
      /\ \A i \in DOMAIN history' : history'[i] <= Len(log')
  <2>0. \A i \in DOMAIN history : history[i] <= Len(log) /\ history[i] \in Nat
    BY <1>0 DEF IInv, HubOK, HubTyped
  <2>1. CASE b = FannedOut /\ UNCHANGED hubVars
    BY <1>0, <1>1, <2>0, <2>1 DEF hubVars, HubTyped
  <2>2. CASE FannedOut + 1 <= b /\ Hub!Publish(FannedOut + 1, b)
    <3>1. FannedOut + 1 \in Nat \ {0}
      BY <1>0
    <3>2. /\ history' \in Seq(Nat \ {Hub!Resync})
          /\ \A i \in DOMAIN history' : history'[i] <= b \/ \E j \in DOMAIN history : history'[i] = history[j]
      BY <1>0, <2>2, <3>1, HistoryFacts
    <3>3. /\ sequence < FannedOut + 1 /\ sequence' = b
          /\ registered' \subseteq registered
          /\ queue' \in [{Sub} -> Seq(Nat)]
      BY <1>0, <2>2, <3>1, PublishFacts
    <3>4. ASSUME NEW i \in DOMAIN history' PROVE history'[i] <= Len(log')
      <4>1. history'[i] \in Nat
        BY <3>2
      <4>2. CASE history'[i] <= b
        BY <1>0, <1>1, <4>1, <4>2
      <4>3. CASE \E j \in DOMAIN history : history'[i] = history[j]
        BY <1>0, <1>1, <2>0, <4>1, <4>3
      <4> QED
        BY <3>2, <4>2, <4>3
    <3>5. sequence' <= Len(log')
      BY <1>0, <1>1, <3>3
    <3> QED
      BY <1>0, <1>1, <3>2, <3>3, <3>4, <3>5
  <2> QED
    BY <1>1, <2>1, <2>2
<1>5. TypeOK'
  <2>1. 0..Len(log) \subseteq 0..Len(log') /\ 1..Len(log) \subseteq 1..Len(log') /\ 1..FannedOut \subseteq 1..Len(log')
    BY <1>0, <1>1
  <2>2. Hub!TypeOK'
    BY <1>0, <1>4 DEF Hub!TypeOK, HubTyped
  <2> QED
    BY <1>0, <1>1, <1>2, <1>3, <2>1, <2>2 DEF TypeOK
<1>6. HubOK'
  <2>1. 1..FannedOut \subseteq 1..b
    BY <1>0, <1>1
  <2> QED
    BY <1>0, <1>1, <1>2, <1>3, <1>4, <2>1 DEF HubOK
<1>7. StreamOK'
  <2> SUFFICES ASSUME Streaming
               PROVE  StreamOK'
    BY <1>3 DEF StreamOK, Streaming
  <2> DEFINE q == queue[Sub]
  <2>1. /\ conn.boundary <= sequence
        /\ conn.phase = "live" => after <= sequence
        /\ Position \in Nat /\ Position <= sequence /\ Position' = Position
    BY <1>0, <1>3 DEF IInv, StreamOK, Position
  <2>2. CASE Sub \notin registered /\ q = <<Hub!Resync>>
    <3>1. Sub \notin registered' /\ queue'[Sub] = <<Hub!Resync>>
      <4>1. CASE b = FannedOut /\ UNCHANGED hubVars
        BY <2>2, <4>1 DEF hubVars
      <4>2. CASE FannedOut + 1 <= b /\ Hub!Publish(FannedOut + 1, b)
        <5>1. FannedOut + 1 \in Nat \ {0}
          BY <1>0
        <5> QED
          BY <1>0, <1>4, <2>2, <4>2, <5>1, PublishFacts
      <4> QED
        BY <1>1, <4>1, <4>2
    <3> QED
      BY <1>0, <1>3, <1>4, <2>1, <3>1 DEF IInv, StreamOK, Streaming
  <2>3. CASE /\ Sub \in registered /\ Increasing(q)
             /\ Elements(q) = ((Position + 1)..FannedOut) \ unsent
             /\ \A e \in Elements(q) : e <= sequence
    <3>1. \/ Sub \notin registered' /\ queue'[Sub] = <<Hub!Resync>>
          \/ /\ Sub \in registered'
             /\ Increasing(queue'[Sub])
             /\ Elements(queue'[Sub]) = ((Position + 1)..b) \ unsent
             /\ \A e \in Elements(queue'[Sub]) : e <= sequence'
      <4>1. CASE b = FannedOut /\ UNCHANGED hubVars
        BY <2>3, <4>1 DEF hubVars
      <4>2. CASE FannedOut + 1 <= b /\ Hub!Publish(FannedOut + 1, b)
        <5> DEFINE a == FannedOut + 1
        <5>1. a \in Nat \ {0}
          BY <1>0
        <5>2. /\ sequence < a /\ sequence' = b
              /\ Sub \in registered \ registered' => queue'[Sub] = <<Hub!Resync>>
              /\ Sub \in registered' => queue'[Sub] = q \o Hub!Run(a, b)
          BY <1>0, <4>2, <5>1, PublishFacts
        <5>3. ASSUME NEW e \in Elements(q) PROVE e < a
          <6>1. e \in Nat
            BY <1>0 DEF Elements
          <6>2. e <= sequence
            BY <2>3
          <6> QED
            BY <1>0, <5>1, <5>2, <6>1, <6>2
        <5>4. /\ Increasing(q \o Hub!Run(a, b))
              /\ Elements(q \o Hub!Run(a, b)) = Elements(q) \cup (a..b)
          <6> HIDE DEF a
          <6> QED
            BY <1>0, <2>3, <4>2, <5>1, <5>3, RunJoins DEF a
        <5>5. Elements(q) \cup (a..b) = ((Position + 1)..b) \ unsent
          BY <1>0, <1>1, <2>1, <2>3, <4>2
        <5>6. \A e \in Elements(q) \cup (a..b) : e <= b
          BY <1>0, <2>3, <4>2, <5>3
        <5> QED
          BY <2>3, <5>2, <5>4, <5>5, <5>6
      <4> QED
        BY <1>1, <4>1, <4>2
    <3>2. /\ conn.boundary <= sequence'
          /\ conn.phase = "live" => after <= sequence'
      BY <1>0, <1>4, <2>1
    <3> QED
      BY <1>2, <1>3, <2>1, <3>1, <3>2 DEF IInv, StreamOK, Streaming
  <2> QED
    BY <2>2, <2>3 DEF IInv, StreamOK
<1>8. CursorOK'
  BY <1>3 DEF IInv, CursorOK, GapIsKnown, Shown
<1> QED
  BY <1>5, <1>6, <1>7, <1>8 DEF IInv

\* What is rejected is not in the queue, and is no longer to come.
LEMMA RejectedKeeps ==
    ASSUME IInv, Rejected
    PROVE  IInv'
<1>0. /\ HubTyped /\ Len(log) \in Nat /\ fan \in 1..Len(log)
      /\ unsent \subseteq 1..FannedOut /\ sequence \in Nat
  BY Facts DEF Rejected, HubTyped
<1>1. /\ unsent' = unsent \cup (fan..Len(log)) /\ fan' = 0
      /\ UNCHANGED <<log, torn, hubVars, conn, browserVars, breaks>>
  BY DEF Rejected
<1>2. FannedOut = fan - 1 /\ FannedOut' = Len(log)
  BY <1>0, <1>1 DEF FannedOut
<1>3. unsent' \subseteq 1..Len(log) /\ unsent \subseteq unsent'
  <2>1. FannedOut \in Nat /\ FannedOut <= Len(log)
    BY <1>0, <1>2
  <2>2. 1..FannedOut \subseteq 1..Len(log) /\ fan..Len(log) \subseteq 1..Len(log)
    BY <1>0, <2>1
  <2> QED
    BY <1>0, <1>1, <2>2
<1>4. TypeOK'
  BY <1>0, <1>1, <1>3 DEF IInv, TypeOK, Hub!TypeOK, hubVars, browserVars
<1>5. HubOK'
  BY <1>1, <1>2, <1>3 DEF IInv, HubOK, hubVars, browserVars
<1>6. StreamOK'
  <2> SUFFICES ASSUME Streaming
               PROVE  StreamOK'
    BY <1>1 DEF StreamOK, Streaming
  <2>1. Position \in Nat /\ Position' = Position
    BY <1>1, Facts DEF Position, browserVars
  <2>2. ((Position + 1)..FannedOut) \ unsent = ((Position + 1)..FannedOut') \ unsent'
    BY <1>0, <1>1, <1>2, <2>1
  <2> QED
    BY <1>1, <2>1, <2>2 DEF IInv, StreamOK, Streaming, hubVars, browserVars, Elements, Increasing
<1>7. CursorOK'
  BY <1>1, <1>3 DEF IInv, CursorOK, GapIsKnown, Shown, browserVars
<1> QED
  BY <1>4, <1>5, <1>6, <1>7 DEF IInv

LEMMA OtherReadsKeeps ==
    ASSUME IInv, OtherReads
    PROVE  IInv'
<1>0. HubTyped /\ Len(log) \in Nat /\ sequence \in Nat
  BY Facts DEF HubTyped
<1>1. /\ sequence' = Len(log) /\ sequence < Len(log)
      /\ UNCHANGED <<journalVars, history, registered, queue, conn, browserVars, breaks>>
  BY <1>0 DEF OtherReads, Hub!Advance
<1>2. FannedOut' = FannedOut /\ Position' = Position
  BY <1>1 DEF FannedOut, Position, journalVars, browserVars
<1>3. TypeOK'
  BY <1>0, <1>1 DEF IInv, TypeOK, Hub!TypeOK, journalVars, browserVars
<1>4. HubOK'
  BY <1>0, <1>1, <1>2 DEF IInv, HubOK, journalVars, browserVars
<1>5. StreamOK'
  <2> SUFFICES ASSUME Streaming
               PROVE  StreamOK'
    BY <1>1 DEF StreamOK, Streaming
  <2>1. conn.boundary \in Nat /\ after \in Nat /\ \A e \in Elements(queue[Sub]) : e \in Nat
    BY Facts DEF Elements
  <2>2. /\ conn.boundary <= sequence'
        /\ conn.phase = "live" => after <= sequence'
        /\ \A e \in Elements(queue[Sub]) : e <= sequence => e <= sequence'
    BY <1>0, <1>1, <2>1 DEF IInv, StreamOK
  <2> QED
    BY <1>1, <1>2, <2>2 DEF IInv, StreamOK, journalVars, browserVars
<1>6. CursorOK'
  BY <1>1 DEF IInv, CursorOK, GapIsKnown, Shown, journalVars, browserVars
<1> QED
  BY <1>3, <1>4, <1>5, <1>6 DEF IInv

-----------------------------------------------------------------------------
(* The stream *)

LEMMA ConnectKeeps ==
    ASSUME IInv, Connect
    PROVE  IInv'
<1>0. /\ HubTyped /\ log \in Seq(Kinds) /\ Len(log) \in Nat /\ Len(log) <= MaxSeq /\ MaxSeq \in Nat
      /\ sequence \in Nat /\ sequence <= Len(log)
      /\ after \in 0..Len(log) /\ FannedOut \in 0..Len(log)
  BY Facts DEF HubTyped
<1> DEFINE replay == Hub!Initial(after) \cup ((after + 1)..Len(log))
<1>1. replay = (after + 1)..Len(log)
  <2>1. \A i \in DOMAIN history : history[i] \in Nat /\ history[i] <= Len(log)
    BY <1>0 DEF IInv, HubOK, HubTyped
  <2>2. Hub!Initial(after) \subseteq (after + 1)..Len(log)
    BY <1>0, <2>1 DEF Hub!Initial
  <2> QED
    BY <2>2
<1>2. PICK phase \in {"resync", "replay"} :
          conn' = [phase |-> phase, replay |-> replay, boundary |-> Len(log)]
  BY DEF Connect
<1>3. /\ sequence' = Len(log) /\ registered' = registered \cup {Sub}
      /\ queue' = [queue EXCEPT ![Sub] = <<>>]
      /\ UNCHANGED <<journalVars, history, browserVars, breaks>>
  BY <1>0 DEF Connect, Hub!Advance, Hub!Subscribe
<1>4. replay \in SUBSET (1..MaxSeq) /\ Len(log) \in 0..MaxSeq
  BY <1>0, <1>1
<1> HIDE DEF replay
<1>5. /\ conn'.phase = phase /\ conn'.replay = replay /\ conn'.boundary = Len(log)
      /\ conn' \in [phase : Phases, replay : SUBSET (1..MaxSeq), boundary : 0..MaxSeq]
  BY <1>2, <1>4 DEF Phases
<1>6. queue'[Sub] = <<>> /\ queue' \in [{Sub} -> Seq(Nat)] /\ registered' \subseteq {Sub}
  BY <1>0, <1>3 DEF HubTyped
<1>7. TypeOK'
  <2>1. Hub!TypeOK'
    BY <1>0, <1>3, <1>6 DEF Hub!TypeOK, HubTyped
  <2> QED
    BY <1>3, <1>5, <2>1 DEF IInv, TypeOK, journalVars, browserVars
<1>8. FannedOut' = FannedOut
  BY <1>3 DEF FannedOut, journalVars
<1>9. HubOK'
  BY <1>0, <1>3, <1>8 DEF IInv, HubOK, journalVars, browserVars
<1>10. StreamOK'
  <2>1. Position' = Len(log)
    BY <1>2, <1>5 DEF Position
  <2>2. Elements(queue'[Sub]) = {} /\ Increasing(queue'[Sub])
    BY <1>6 DEF Elements, Increasing
  <2>3. ((Position' + 1)..FannedOut') \ unsent' = {}
    BY <1>0, <1>8, <2>1
  <2>4. Sub \in registered'
    BY <1>3
  <2>5. /\ conn'.boundary <= sequence'
        /\ conn'.phase = "replay" => after' <= conn'.boundary /\ conn'.replay = (after' + 1)..conn'.boundary
        /\ conn'.phase # "ready" /\ conn'.phase # "live"
    BY <1>0, <1>1, <1>2, <1>3, <1>5 DEF browserVars
  <2> QED
    BY <2>2, <2>3, <2>4, <2>5 DEF StreamOK
<1>11. CursorOK'
  BY <1>3 DEF IInv, CursorOK, GapIsKnown, Shown, journalVars, browserVars
<1> QED
  BY <1>7, <1>9, <1>10, <1>11 DEF IInv

\* A refused connection changes nothing that was shown or is coming.
LEMMA RefusedKeeps ==
    ASSUME IInv, Refused
    PROVE  IInv'
<1>0. MaxSeq \in Nat /\ breaks \in 0..MaxBreaks /\ MaxBreaks \in Nat
  BY Facts, Bounds
<1>1. /\ breaks' \in 0..MaxBreaks
      /\ conn' = [NoConn EXCEPT !.phase = "refused"]
      /\ UNCHANGED <<journalVars, hubVars, browserVars>>
  BY <1>0 DEF Refused, Break
<1>2. conn'.phase = "refused" /\ conn' \in [phase : Phases, replay : SUBSET (1..MaxSeq), boundary : 0..MaxSeq]
  BY <1>0, <1>1 DEF NoConn, Phases
<1>3. Hub!TypeOK'
  BY <1>1 DEF IInv, TypeOK, Hub!TypeOK, hubVars
<1>4. TypeOK'
  BY <1>1, <1>2, <1>3 DEF IInv, TypeOK, journalVars, browserVars
<1>5. HubOK'
  BY <1>1 DEF IInv, HubOK, FannedOut, journalVars, hubVars, browserVars
<1>6. StreamOK'
  BY <1>2 DEF StreamOK, Streaming
<1>7. CursorOK'
  BY <1>1 DEF IInv, CursorOK, GapIsKnown, Shown, journalVars, browserVars
<1> QED
  BY <1>4, <1>5, <1>6, <1>7 DEF IInv

LEMMA DisconnectKeeps ==
    ASSUME IInv, Disconnect
    PROVE  IInv'
<1>0. HubTyped /\ MaxSeq \in Nat /\ breaks \in 0..MaxBreaks /\ MaxBreaks \in Nat
  BY Facts, Bounds
<1>1. /\ breaks' \in 0..MaxBreaks
      /\ registered' = registered \ {Sub} /\ queue' = [queue EXCEPT ![Sub] = <<>>]
      /\ conn' = [NoConn EXCEPT !.phase = "off"]
      /\ UNCHANGED <<journalVars, sequence, history, browserVars>>
  BY <1>0 DEF Disconnect, Break, Hub!Close
<1>2. conn'.phase = "off" /\ conn' \in [phase : Phases, replay : SUBSET (1..MaxSeq), boundary : 0..MaxSeq]
  BY <1>0, <1>1 DEF NoConn, Phases
<1>3. Hub!TypeOK'
  BY <1>0, <1>1 DEF Hub!TypeOK, HubTyped
<1>4. TypeOK'
  BY <1>1, <1>2, <1>3 DEF IInv, TypeOK, journalVars, browserVars
<1>5. HubOK'
  BY <1>1 DEF IInv, HubOK, FannedOut, journalVars, browserVars
<1>6. StreamOK'
  BY <1>2 DEF StreamOK, Streaming
<1>7. CursorOK'
  BY <1>1 DEF IInv, CursorOK, GapIsKnown, Shown, journalVars, browserVars
<1> QED
  BY <1>4, <1>5, <1>6, <1>7 DEF IInv

LEMMA AskedFacts ==
    ASSUME IInv
    PROVE  /\ Asked(snap) \in [at : {"none", "asked", "read"}, cursor : 0..MaxSeq,
                               again : BOOLEAN, connect : BOOLEAN]
           /\ Asked(snap).at # "none" /\ Asked(snap).cursor = snap.cursor
           /\ Asked(snap).at = "read" => Asked(snap).again
BY Facts DEF Asked

LEMMA SendResyncKeeps ==
    ASSUME IInv, SendResync
    PROVE  IInv'
<1> DEFINE c == conn.boundary
<1>0. HubTyped /\ Len(log) \in Nat
  BY Facts
<1>1. /\ conn.phase = "resync" /\ conn' = [conn EXCEPT !.phase = "ready"]
      /\ live' = {} /\ cursor' = c /\ after' = c /\ snap' = Asked(snap)
      /\ UNCHANGED <<journalVars, hubVars, breaks, base, error>>
  BY DEF SendResync, Resynced
<1>2. /\ conn' \in [phase : Phases, replay : SUBSET (1..MaxSeq), boundary : 0..MaxSeq]
      /\ conn'.phase = "ready" /\ conn'.boundary = c
  BY <1>1, Facts DEF Phases
<1>3. c \in 0..Len(log)
  <2>1. c \in Nat /\ sequence \in Nat /\ sequence <= Len(log)
    BY Facts DEF HubTyped
  <2>2. c <= sequence
    BY <1>1 DEF IInv, StreamOK, Streaming
  <2> QED
    BY <1>0, <2>1, <2>2
<1>4. FannedOut' = FannedOut /\ Position' = Position
  BY <1>1, <1>2 DEF FannedOut, Position, journalVars
<1>5. TypeOK'
  BY <1>1, <1>2, <1>3, AskedFacts DEF IInv, TypeOK, Hub!TypeOK, journalVars, hubVars
<1>6. HubOK'
  BY <1>1, <1>4, AskedFacts DEF IInv, HubOK, journalVars, hubVars
<1>7. StreamOK'
  BY <1>1, <1>2, <1>3, <1>4 DEF IInv, StreamOK, Streaming, journalVars, hubVars, Elements, Increasing
<1>8. CursorOK'
  BY <1>1, <1>3, AskedFacts DEF CursorOK, GapIsKnown
<1> QED
  BY <1>5, <1>6, <1>7, <1>8 DEF IInv

\* The display gains the event, and the cursor may move up to it.
LEMMA ShowFacts ==
    ASSUME IInv, NEW e \in 1..Len(log), Show(e),
           e > after, ((after + 1)..(e - 1)) \subseteq unsent
    PROVE  /\ live' = live \cup {e} /\ after' = e /\ snap' = snap /\ base' = base /\ error' = error
           /\ cursor' \in 0..Len(log) /\ after' <= cursor' /\ cursor <= cursor'
           /\ GapIsKnown \/ (1..cursor') \subseteq Shown \cup {e} \cup unsent
           /\ snap.at = "read" /\ ~snap.again =>
                  ((snap.cursor + 1)..cursor') \subseteq live \cup {e} \cup unsent
<1>0. Len(log) \in Nat /\ after \in 0..Len(log) /\ cursor \in 0..Len(log) /\ after <= cursor
  BY Facts DEF IInv, CursorOK
<1>1. /\ live' = live \cup {e} /\ after' = e /\ snap' = snap /\ base' = base /\ error' = error
      /\ cursor' = Larger(cursor, e)
  BY DEF Show
<1>2. cursor' \in 0..Len(log) /\ e <= cursor' /\ cursor <= cursor'
  BY <1>0, <1>1 DEF Larger
<1>3. \A x \in Nat : x <= cursor' => x <= cursor \/ x = e \/ x \in unsent
  <2> SUFFICES ASSUME NEW x \in Nat, x <= cursor', ~(x <= cursor), x # e
               PROVE  x \in unsent
    OBVIOUS
  <2>1. x \in (after + 1)..(e - 1)
    BY <1>0, <1>1 DEF Larger
  <2> QED
    BY <2>1
<1>4. snap.cursor \in Nat
  BY Facts
<1>5. GapIsKnown \/ (1..cursor') \subseteq Shown \cup {e} \cup unsent
  BY <1>0, <1>2, <1>3 DEF IInv, CursorOK
<1>6. snap.at = "read" /\ ~snap.again =>
                  ((snap.cursor + 1)..cursor') \subseteq live \cup {e} \cup unsent
  BY <1>0, <1>2, <1>3, <1>4 DEF IInv, CursorOK
<1> QED
  BY <1>1, <1>2, <1>5, <1>6

LEMMA SendReplayKeeps ==
    ASSUME IInv, SendReplay
    PROVE  IInv'
<1> DEFINE e == Min(conn.replay)
<1>0. HubTyped /\ Len(log) \in Nat /\ after \in 0..Len(log) /\ sequence \in Nat /\ sequence <= Len(log)
      /\ conn.boundary \in Nat
  BY Facts DEF HubTyped
<1>1. /\ conn.phase = "replay" /\ conn.replay # {}
      /\ conn' = [conn EXCEPT !.replay = @ \ {e}] /\ Show(e)
      /\ UNCHANGED <<journalVars, hubVars, breaks>>
  BY DEF SendReplay
<1>2. /\ after <= conn.boundary /\ conn.replay = (after + 1)..conn.boundary
      /\ conn.boundary <= sequence
  BY <1>1 DEF IInv, StreamOK, Streaming
<1>3. e = after + 1 /\ e \in conn.replay
  <2>1. conn.replay \subseteq Nat
    BY <1>0, <1>2
  <2>2. e \in conn.replay /\ \A y \in conn.replay : e <= y
    BY <1>1, <2>1, MinFacts
  <2>3. after + 1 \in conn.replay
    BY <1>0, <1>1, <1>2
  <2> QED
    BY <1>0, <1>2, <2>2, <2>3
<1> HIDE DEF e
<1>4. e \in 1..Len(log) /\ e > after /\ ((after + 1)..(e - 1)) \subseteq unsent /\ e <= conn.boundary
  BY <1>0, <1>2, <1>3
<1>5. /\ conn' \in [phase : Phases, replay : SUBSET (1..MaxSeq), boundary : 0..MaxSeq]
      /\ conn'.phase = "replay" /\ conn'.boundary = conn.boundary
      /\ conn'.replay = (e + 1)..conn.boundary
  <2>1. conn \in [phase : Phases, replay : SUBSET (1..MaxSeq), boundary : 0..MaxSeq]
    BY Facts
  <2>2. conn.replay \ {e} = (e + 1)..conn.boundary
    BY <1>0, <1>2, <1>3
  <2> QED
    BY <1>1, <2>1, <2>2
<1>6. /\ live' = live \cup {e} /\ after' = e /\ snap' = snap /\ base' = base /\ error' = error
      /\ cursor' \in 0..Len(log) /\ after' <= cursor' /\ cursor <= cursor'
      /\ GapIsKnown \/ (1..cursor') \subseteq Shown \cup {e} \cup unsent
      /\ snap.at = "read" /\ ~snap.again =>
             ((snap.cursor + 1)..cursor') \subseteq live \cup {e} \cup unsent
  BY <1>1, <1>4, ShowFacts
<1>7. FannedOut' = FannedOut /\ Position' = Position
  BY <1>1, <1>5 DEF FannedOut, Position, journalVars
<1>8. TypeOK'
  <2>1. live' \subseteq 1..Len(log) /\ after' \in 0..Len(log)
    BY <1>0, <1>4, <1>6, Facts
  <2> QED
    BY <1>1, <1>5, <1>6, <2>1 DEF IInv, TypeOK, Hub!TypeOK, journalVars, hubVars
<1>9. HubOK'
  BY <1>1, <1>6, <1>7 DEF IInv, HubOK, journalVars, hubVars
<1>10. StreamOK'
  BY <1>1, <1>4, <1>5, <1>6, <1>7
  DEF IInv, StreamOK, Streaming, journalVars, hubVars, Elements, Increasing
<1>11. CursorOK'
  BY <1>1, <1>6 DEF CursorOK, GapIsKnown, Shown, journalVars
<1> QED
  BY <1>8, <1>9, <1>10, <1>11 DEF IInv

LEMMA SendReadyKeeps ==
    ASSUME IInv, SendReady
    PROVE  IInv'
<1> DEFINE c == conn.boundary
<1>0. HubTyped /\ Len(log) \in Nat /\ after \in 0..Len(log) /\ cursor \in 0..Len(log)
      /\ sequence \in Nat /\ sequence <= Len(log) /\ c \in Nat /\ after <= cursor
  BY Facts DEF HubTyped, IInv, CursorOK
<1>1. /\ conn.phase = "ready" \/ (conn.phase = "replay" /\ conn.replay = {})
      /\ conn' = [conn EXCEPT !.phase = "live", !.replay = {}]
      /\ cursor' = Larger(cursor, c) /\ after' = c
      /\ UNCHANGED <<journalVars, hubVars, snap, base, live, error, breaks>>
  BY DEF SendReady
<1>2. /\ c <= sequence
      /\ conn.phase = "replay" => after <= c /\ conn.replay = (after + 1)..c
      /\ conn.phase = "ready" => c <= cursor
  BY <1>1 DEF IInv, StreamOK, Streaming
<1>3. c <= cursor
  <2>1. CASE conn.phase = "replay" /\ conn.replay = {}
    <3>1. c \notin (after + 1)..c
      BY <1>2, <2>1
    <3> QED
      BY <1>0, <1>2, <2>1, <3>1
  <2> QED
    BY <1>1, <1>2, <2>1
<1>4. cursor' = cursor /\ c \in 0..Len(log)
  BY <1>0, <1>1, <1>2, <1>3 DEF Larger
<1>5. /\ conn' \in [phase : Phases, replay : SUBSET (1..MaxSeq), boundary : 0..MaxSeq]
      /\ conn'.phase = "live" /\ conn'.boundary = c
  BY <1>1, Facts DEF Phases
<1>6. FannedOut' = FannedOut /\ Position' = Position
  <2>1. Position = c
    BY <1>1 DEF Position
  <2>2. Position' = c
    BY <1>1, <1>5 DEF Position
  <2> QED
    BY <1>1, <2>1, <2>2 DEF FannedOut, journalVars
<1>7. TypeOK'
  BY <1>1, <1>4, <1>5 DEF IInv, TypeOK, Hub!TypeOK, journalVars, hubVars
<1>8. HubOK'
  BY <1>1, <1>6 DEF IInv, HubOK, journalVars, hubVars
<1>9. StreamOK'
  BY <1>0, <1>1, <1>2, <1>5, <1>6
  DEF IInv, StreamOK, Streaming, journalVars, hubVars, Elements, Increasing
<1>10. CursorOK'
  BY <1>1, <1>3, <1>4 DEF IInv, CursorOK, GapIsKnown, Shown, journalVars
<1> QED
  BY <1>7, <1>8, <1>9, <1>10 DEF IInv

LEMMA SendLiveKeeps ==
    ASSUME IInv, SendLive
    PROVE  IInv'
<1> DEFINE q == queue[Sub]
<1> DEFINE e == Head(q)
<1>0. HubTyped /\ Len(log) \in Nat /\ after \in 0..Len(log) /\ FannedOut \in 0..Len(log)
      /\ sequence \in Nat /\ sequence <= Len(log) /\ conn.boundary \in Nat /\ q \in Seq(Nat)
  BY Facts DEF HubTyped
<1>1. /\ conn.phase = "live" /\ q # <<>> /\ queue' = [queue EXCEPT ![Sub] = Tail(q)]
      /\ e # Hub!Resync
      /\ IF e > conn.boundary THEN Show(e) ELSE UNCHANGED browserVars
      /\ UNCHANGED <<journalVars, registered, sequence, history, conn, breaks>>
  BY DEF SendLive, Hub!Take
<1>2. /\ conn.boundary <= sequence /\ conn.boundary <= after /\ after <= sequence
      /\ Sub \in registered /\ Increasing(q)
      /\ Elements(q) = ((after + 1)..FannedOut) \ unsent
      /\ \A x \in Elements(q) : x <= sequence
  <2>1. ~(q = <<Hub!Resync>>)
    BY <1>1
  <2> QED
    BY <1>1, <2>1 DEF IInv, StreamOK, Streaming, Position
<1>3. /\ Tail(q) \in Seq(Nat) /\ Increasing(Tail(q)) /\ e \in Elements(q)
      /\ Elements(Tail(q)) = {x \in Elements(q) : x > e}
      /\ \A x \in Elements(q) : e <= x
  BY <1>0, <1>1, <1>2, HeadLeaves
<1> HIDE DEF q, e
<1>4. e \in (after + 1)..FannedOut /\ e \notin unsent /\ e <= sequence
  BY <1>2, <1>3
<1>5. e \in 1..Len(log) /\ e > after /\ e > conn.boundary
  BY <1>0, <1>2, <1>4
<1>6. ((after + 1)..(e - 1)) \subseteq unsent
  <2> SUFFICES ASSUME NEW x \in (after + 1)..(e - 1), x \notin unsent
               PROVE  FALSE
    OBVIOUS
  <2>1. x \in Elements(q) /\ x < e
    BY <1>0, <1>2, <1>4
  <2> QED
    BY <1>0, <1>3, <1>4, <2>1
<1>7. Show(e)
  BY <1>1, <1>5
<1>8. /\ live' = live \cup {e} /\ after' = e /\ snap' = snap /\ base' = base /\ error' = error
      /\ cursor' \in 0..Len(log) /\ after' <= cursor' /\ cursor <= cursor'
      /\ GapIsKnown \/ (1..cursor') \subseteq Shown \cup {e} \cup unsent
      /\ snap.at = "read" /\ ~snap.again =>
             ((snap.cursor + 1)..cursor') \subseteq live \cup {e} \cup unsent
  BY <1>5, <1>6, <1>7, ShowFacts
<1>9. queue' \in [{Sub} -> Seq(Nat)] /\ queue'[Sub] = Tail(q)
  BY <1>0, <1>1, <1>3 DEF HubTyped
<1>10. FannedOut' = FannedOut /\ Position' = e
  BY <1>1, <1>8 DEF FannedOut, Position, journalVars
<1>11. TypeOK'
  <2>1. live' \subseteq 1..Len(log) /\ after' \in 0..Len(log)
    BY <1>0, <1>5, <1>8, Facts
  <2>2. Hub!TypeOK'
    BY <1>0, <1>1, <1>9 DEF Hub!TypeOK, HubTyped
  <2> QED
    BY <1>1, <1>8, <2>1, <2>2 DEF IInv, TypeOK, journalVars
<1>12. HubOK'
  BY <1>1, <1>8, <1>10 DEF IInv, HubOK, journalVars
<1>13. StreamOK'
  <2>1. Elements(queue'[Sub]) = ((e + 1)..FannedOut) \ unsent
    <3>1. e \in Nat /\ e > after
      BY <1>0, <1>4
    <3>2. \A x : x \in ((after + 1)..FannedOut) /\ x > e <=> x \in ((e + 1)..FannedOut)
      BY <1>0, <3>1
    <3>3. Elements(Tail(q)) = {x \in ((after + 1)..FannedOut) \ unsent : x > e}
      BY <1>2, <1>3
    <3> QED
      BY <1>9, <3>2, <3>3
  <2>2. \A x \in Elements(queue'[Sub]) : x <= sequence
    BY <1>2, <1>3, <1>9
  <2>3. Increasing(queue'[Sub]) /\ Sub \in registered' /\ unsent' = unsent /\ sequence' = sequence
    BY <1>1, <1>2, <1>3, <1>9 DEF journalVars
  <2>4. conn' = conn /\ conn.boundary <= e
    BY <1>0, <1>1, <1>5
  <2> QED
    BY <1>1, <1>2, <1>4, <1>8, <1>10, <2>1, <2>2, <2>3, <2>4 DEF StreamOK
<1>14. CursorOK'
  BY <1>1, <1>8 DEF CursorOK, GapIsKnown, Shown, journalVars
<1> QED
  BY <1>11, <1>12, <1>13, <1>14 DEF IInv

LEMMA SendOverflowKeeps ==
    ASSUME IInv, SendOverflow
    PROVE  IInv'
<1>0. HubTyped /\ Len(log) \in Nat /\ sequence \in Nat /\ sequence <= Len(log) /\ MaxSeq \in Nat
  BY Facts DEF HubTyped
<1>1. /\ registered' = registered \ {Sub} /\ queue' = [queue EXCEPT ![Sub] = <<>>]
      /\ sequence' = Len(log)
      /\ live' = {} /\ cursor' = Len(log) /\ after' = Len(log) /\ snap' = Asked(snap)
      /\ conn' = [NoConn EXCEPT !.phase = "off"]
      /\ UNCHANGED <<journalVars, history, breaks, base, error>>
  BY <1>0 DEF SendOverflow, Resynced, Hub!Close, Hub!Advance
<1>2. conn'.phase = "off" /\ conn' \in [phase : Phases, replay : SUBSET (1..MaxSeq), boundary : 0..MaxSeq]
  BY <1>0, <1>1 DEF NoConn, Phases
<1>3. Hub!TypeOK'
  BY <1>0, <1>1 DEF Hub!TypeOK, HubTyped
<1>4. TypeOK'
  <2>1. log' = log /\ torn' = torn /\ fan' = fan /\ unsent' = unsent /\ base' = base
    BY <1>1 DEF journalVars
  <2>2. {fan', after', base', cursor'} \subseteq 0..Len(log')
    BY <1>0, <1>1, <2>1 DEF IInv, TypeOK
  <2>3. snap' \in [at : {"none", "asked", "read"}, cursor : 0..MaxSeq,
                   again : BOOLEAN, connect : BOOLEAN]
    BY <1>1, AskedFacts
  <2> QED
    BY <1>1, <1>2, <1>3, <2>1, <2>2, <2>3 DEF IInv, TypeOK
<1>5. HubOK'
  BY <1>0, <1>1, AskedFacts DEF IInv, HubOK, FannedOut, journalVars
<1>6. StreamOK'
  BY <1>2 DEF StreamOK, Streaming
<1>7. CursorOK'
  BY <1>0, <1>1, AskedFacts DEF CursorOK, GapIsKnown
<1> QED
  BY <1>4, <1>5, <1>6, <1>7 DEF IInv

-----------------------------------------------------------------------------
(* Snapshots, and a restart *)

LEMMA AskingKeeps ==
    ASSUME IInv, Refresh \/ Select
    PROVE  IInv'
<1>0. HubTyped /\ Len(log) \in Nat
  BY Facts
<1>1. /\ snap' \in [at : {"none", "asked", "read"}, cursor : 0..MaxSeq,
                    again : BOOLEAN, connect : BOOLEAN]
      /\ snap'.at # "none" /\ snap'.cursor = snap.cursor
      /\ snap'.at = "read" => snap'.again
  <2>1. PICK s : s = Asked(snap)
    OBVIOUS
  <2>2. /\ s \in [at : {"none", "asked", "read"}, cursor : 0..MaxSeq,
                  again : BOOLEAN, connect : BOOLEAN]
        /\ s.at # "none" /\ s.cursor = snap.cursor
        /\ s.at = "read" => s.again
    BY <2>1, AskedFacts
  <2>3. snap' = s \/ snap' = [s EXCEPT !.connect = TRUE]
    BY <2>1 DEF Refresh, Select
  <2> QED
    BY <2>2, <2>3
<1>2. /\ live' \in {live, {}} /\ error' \in BOOLEAN
      /\ UNCHANGED <<journalVars, hubVars, conn, after, base, cursor, breaks>>
  BY Facts DEF Refresh, Select
<1>3. FannedOut' = FannedOut /\ Position' = Position
  BY <1>2 DEF FannedOut, Position, journalVars
<1>4. TypeOK'
  BY <1>1, <1>2 DEF IInv, TypeOK, Hub!TypeOK, journalVars, hubVars
<1>5. HubOK'
  BY <1>1, <1>2, <1>3 DEF IInv, HubOK, journalVars, hubVars
<1>6. StreamOK'
  BY <1>2, <1>3 DEF IInv, StreamOK, Streaming, journalVars, hubVars, Elements, Increasing
<1>7. CursorOK'
  BY <1>1, <1>2 DEF IInv, CursorOK, GapIsKnown
<1> QED
  BY <1>4, <1>5, <1>6, <1>7 DEF IInv

LEMMA SnapshotReadKeeps ==
    ASSUME IInv, SnapshotRead
    PROVE  IInv'
<1>0. /\ HubTyped /\ Len(log) \in Nat /\ Len(log) <= MaxSeq /\ MaxSeq \in Nat
      /\ sequence \in Nat /\ sequence <= Len(log) /\ cursor \in 0..Len(log)
      /\ conn.boundary \in Nat /\ after \in Nat
  BY Facts DEF HubTyped
<1>1. /\ snap.at = "asked" /\ snap' = [snap EXCEPT !.at = "read", !.cursor = Len(log)]
      /\ sequence' = Len(log)
      /\ UNCHANGED <<journalVars, history, registered, queue, conn,
                     after, base, live, cursor, error, breaks>>
  BY <1>0 DEF SnapshotRead, Hub!Advance
<1>2. /\ snap' \in [at : {"none", "asked", "read"}, cursor : 0..MaxSeq,
                    again : BOOLEAN, connect : BOOLEAN]
      /\ snap'.at = "read" /\ snap'.cursor = Len(log)
  <2>1. snap \in [at : {"none", "asked", "read"}, cursor : 0..MaxSeq,
                  again : BOOLEAN, connect : BOOLEAN]
    BY Facts
  <2>2. Len(log) \in 0..MaxSeq
    BY <1>0
  <2> QED
    BY <1>1, <2>1, <2>2
<1>3. FannedOut' = FannedOut /\ Position' = Position
  BY <1>1 DEF FannedOut, Position, journalVars
<1>4. TypeOK'
  <2>1. Hub!TypeOK'
    BY <1>0, <1>1 DEF Hub!TypeOK, HubTyped
  <2> QED
    BY <1>1, <1>2, <2>1 DEF IInv, TypeOK, journalVars
<1>5. HubOK'
  BY <1>0, <1>1, <1>2, <1>3 DEF IInv, HubOK, journalVars
<1>6. StreamOK'
  <2> SUFFICES ASSUME Streaming
               PROVE  StreamOK'
    BY <1>1 DEF StreamOK, Streaming
  <2>1. \A e \in Elements(queue[Sub]) : e \in Nat
    BY Facts DEF Elements
  <2>2. /\ conn.boundary <= sequence'
        /\ conn.phase = "live" => after <= sequence'
        /\ \A e \in Elements(queue[Sub]) : e <= sequence => e <= sequence'
    BY <1>0, <1>1, <2>1 DEF IInv, StreamOK
  <2> QED
    BY <1>1, <1>3, <2>2 DEF IInv, StreamOK, journalVars
<1>7. CursorOK'
  <2>1. ((Len(log) + 1)..cursor) = {}
    BY <1>0
  <2> QED
    BY <1>1, <1>2, <2>1 DEF IInv, CursorOK, GapIsKnown
<1> QED
  BY <1>4, <1>5, <1>6, <1>7 DEF IInv

LEMMA SnapshotArrivesKeeps ==
    ASSUME IInv, SnapshotArrives
    PROVE  IInv'
<1>0. /\ HubTyped /\ Len(log) \in Nat /\ MaxSeq \in Nat
      /\ after \in 0..Len(log) /\ cursor \in 0..Len(log) /\ after <= cursor
      /\ snap.cursor \in 0..Len(log) /\ conn.boundary \in Nat
      /\ snap.connect \in BOOLEAN /\ snap.again \in BOOLEAN
      /\ conn \in [phase : Phases, replay : SUBSET (1..MaxSeq), boundary : 0..MaxSeq]
  <2>1. /\ snap \in [at : {"none", "asked", "read"}, cursor : 0..MaxSeq,
                     again : BOOLEAN, connect : BOOLEAN]
        /\ snap.cursor <= Len(log)
    BY Facts
  <2>2. snap.cursor \in Nat /\ snap.connect \in BOOLEAN /\ snap.again \in BOOLEAN
    BY <2>1
  <2>3. after <= cursor
    BY DEF IInv, CursorOK
  <2> QED
    BY <2>1, <2>2, <2>3, Facts
<1>1. /\ snap.at = "read" /\ base' = snap.cursor
      /\ live' = {x \in live : x > snap.cursor}
      /\ cursor' = Larger(cursor, snap.cursor)
      /\ UNCHANGED <<journalVars, sequence, history, error, breaks>>
  BY DEF SnapshotArrives
<1>2. cursor' \in 0..Len(log) /\ cursor <= cursor' /\ after <= cursor'
  BY <1>0, <1>1 DEF Larger
\* The stream continues, or the console replaces it.
<1>3. \/ UNCHANGED <<conn, registered, queue, after>>
      \/ /\ conn' = [NoConn EXCEPT !.phase = "off"] /\ after' = cursor'
         /\ registered' = registered \ {Sub} /\ queue' = [queue EXCEPT ![Sub] = <<>>]
  BY DEF SnapshotArrives, Hub!Close
<1>4. \/ snap.again /\ snap' = [Idle EXCEPT !.at = "asked", !.connect = snap.connect]
      \/ ~snap.again /\ snap' = Idle
  BY DEF SnapshotArrives
<1>5. /\ snap' \in [at : {"none", "asked", "read"}, cursor : 0..MaxSeq,
                    again : BOOLEAN, connect : BOOLEAN]
      /\ snap'.cursor = 0 /\ snap'.at # "read"
      /\ snap.again => snap'.at # "none"
  <2>1. CASE snap.again /\ snap' = [Idle EXCEPT !.at = "asked", !.connect = snap.connect]
    <3>1. snap' = [at |-> "asked", cursor |-> 0, again |-> FALSE, connect |-> snap.connect]
      BY <2>1 DEF Idle
    <3> QED
      BY <1>0, <3>1
  <2>2. CASE ~snap.again /\ snap' = Idle
    BY <1>0, <2>2 DEF Idle
  <2> QED
    BY <1>4, <2>1, <2>2
<1>6. /\ conn' \in [phase : Phases, replay : SUBSET (1..MaxSeq), boundary : 0..MaxSeq]
      /\ registered' \subseteq {Sub} /\ queue' \in [{Sub} -> Seq(Nat)]
      /\ after' \in 0..Len(log) /\ after' <= cursor'
  <2>1. CASE UNCHANGED <<conn, registered, queue, after>>
    BY <1>0, <1>2, <2>1 DEF HubTyped
  <2>2. CASE /\ conn' = [NoConn EXCEPT !.phase = "off"] /\ after' = cursor'
             /\ registered' = registered \ {Sub} /\ queue' = [queue EXCEPT ![Sub] = <<>>]
    <3>1. conn' \in [phase : Phases, replay : SUBSET (1..MaxSeq), boundary : 0..MaxSeq]
      BY <1>0, <2>2 DEF NoConn, Phases
    <3>2. registered' \subseteq {Sub} /\ queue' \in [{Sub} -> Seq(Nat)]
      BY <1>0, <2>2 DEF HubTyped
    <3> QED
      BY <1>2, <2>2, <3>1, <3>2
  <2> QED
    BY <1>3, <2>1, <2>2
<1>7. TypeOK'
  <2>1. Hub!TypeOK'
    BY <1>0, <1>1, <1>6 DEF Hub!TypeOK, HubTyped
  <2>2. live' \subseteq live
    BY <1>1
  <2> QED
    BY <1>0, <1>1, <1>2, <1>5, <1>6, <2>1, <2>2 DEF IInv, TypeOK, journalVars
<1>8. HubOK'
  BY <1>0, <1>1, <1>5 DEF IInv, HubOK, FannedOut, journalVars
<1>9. StreamOK'
  <2>1. CASE conn' = [NoConn EXCEPT !.phase = "off"]
    BY <2>1 DEF NoConn, StreamOK, Streaming
  <2>2. CASE UNCHANGED <<conn, registered, queue, after>>
    <3>1. FannedOut' = FannedOut /\ Position' = Position
      BY <1>1, <2>2 DEF FannedOut, Position, journalVars
    <3>2. conn.boundary <= cursor => conn.boundary <= cursor'
      BY <1>0, <1>2
    <3> QED
      BY <1>1, <2>2, <3>1, <3>2 DEF IInv, StreamOK, Streaming, journalVars, Elements, Increasing
  <2> QED
    BY <1>3, <2>1, <2>2
<1>10. CursorOK'
  <2>1. GapIsKnown' \/ ((1..cursor') \subseteq Shown' \cup unsent')
    <3>1. CASE snap.again
      BY <1>5, <3>1 DEF GapIsKnown
    <3>2. CASE ~snap.again
      <4>1. ((snap.cursor + 1)..cursor) \subseteq live \cup unsent
        BY <1>1, <3>2 DEF IInv, CursorOK
      <4>2. ASSUME NEW x \in 1..cursor' PROVE x \in Shown' \cup unsent'
        <5>1. CASE x <= snap.cursor
          BY <1>0, <1>1, <1>2, <4>2, <5>1 DEF Shown
        <5>2. CASE ~(x <= snap.cursor)
          <6>1. x \in (snap.cursor + 1)..cursor /\ x > snap.cursor
            BY <1>0, <1>1, <1>2, <4>2, <5>2 DEF Larger
          <6>2. x \in live \cup unsent /\ unsent' = unsent
            BY <1>1, <4>1, <6>1 DEF journalVars
          <6> QED
            BY <1>1, <6>1, <6>2 DEF Shown
        <5> QED
          BY <5>1, <5>2
      <4> QED
        BY <4>2
    <3> QED
      BY <3>1, <3>2
  <2> QED
    BY <1>5, <1>6, <2>1 DEF CursorOK
<1> QED
  BY <1>7, <1>8, <1>9, <1>10 DEF IInv

LEMMA SnapshotFailsKeeps ==
    ASSUME IInv, SnapshotFails
    PROVE  IInv'
<1>0. HubTyped /\ Len(log) \in Nat /\ MaxSeq \in Nat /\ breaks \in 0..MaxBreaks /\ MaxBreaks \in Nat
  BY Facts, Bounds
<1>1. /\ breaks' \in 0..MaxBreaks /\ snap' = Idle /\ error' = TRUE
      /\ UNCHANGED <<journalVars, hubVars, conn, after, base, live, cursor>>
  BY <1>0 DEF SnapshotFails, Break
<1>2. /\ Idle \in [at : {"none", "asked", "read"}, cursor : 0..MaxSeq,
                   again : BOOLEAN, connect : BOOLEAN]
      /\ Idle.at = "none" /\ Idle.cursor = 0
  BY <1>0 DEF Idle
<1>3. FannedOut' = FannedOut /\ Position' = Position
  BY <1>1 DEF FannedOut, Position, journalVars
<1>4. TypeOK'
  BY <1>1, <1>2 DEF IInv, TypeOK, Hub!TypeOK, journalVars, hubVars
<1>5. HubOK'
  BY <1>0, <1>1, <1>2, <1>3 DEF IInv, HubOK, journalVars, hubVars
<1>6. StreamOK'
  BY <1>1, <1>3 DEF IInv, StreamOK, Streaming, journalVars, hubVars, Elements, Increasing
<1>7. CursorOK'
  BY <1>1, <1>2 DEF IInv, CursorOK, GapIsKnown
<1> QED
  BY <1>4, <1>5, <1>6, <1>7 DEF IInv

LEMMA RestartKeeps ==
    ASSUME IInv, Restart
    PROVE  IInv'
<1>0. HubTyped /\ Len(log) \in Nat /\ MaxSeq \in Nat /\ breaks \in 0..MaxBreaks /\ MaxBreaks \in Nat
      /\ error \in BOOLEAN /\ FannedOut \in 0..Len(log)
      /\ conn \in [phase : Phases, replay : SUBSET (1..MaxSeq), boundary : 0..MaxSeq]
  BY Facts, Bounds
<1>1. /\ breaks' \in 0..MaxBreaks /\ torn' \in BOOLEAN /\ fan' = 0
      /\ sequence' = 0 /\ history' = <<>> /\ registered' = {}
      /\ queue' = [queue EXCEPT ![Sub] = <<>>]
      /\ conn' = IF conn.phase \in {"none", "refused"} THEN conn
                 ELSE [NoConn EXCEPT !.phase = "off"]
      /\ snap' = Idle /\ error' = (error \/ snap.at # "none")
      /\ UNCHANGED <<log, unsent, after, base, live, cursor>>
  BY <1>0 DEF Restart, Break
<1>2. /\ Idle \in [at : {"none", "asked", "read"}, cursor : 0..MaxSeq,
                   again : BOOLEAN, connect : BOOLEAN]
      /\ Idle.at = "none" /\ Idle.cursor = 0
  BY <1>0 DEF Idle
<1>3. /\ conn' \in [phase : Phases, replay : SUBSET (1..MaxSeq), boundary : 0..MaxSeq]
      /\ conn'.phase \in {"none", "off", "refused"}
  BY <1>0, <1>1 DEF NoConn, Phases
<1>4. Hub!TypeOK'
  BY <1>0, <1>1 DEF Hub!TypeOK, HubTyped
<1>5. error' \in BOOLEAN
  BY <1>0, <1>1
<1>6. TypeOK'
  <2>1. {fan', after', base', cursor'} \subseteq 0..Len(log')
    BY <1>0, <1>1 DEF IInv, TypeOK
  <2>2. snap' \in [at : {"none", "asked", "read"}, cursor : 0..MaxSeq,
                   again : BOOLEAN, connect : BOOLEAN]
    BY <1>1, <1>2
  <2> QED
    BY <1>1, <1>3, <1>4, <1>5, <2>1, <2>2 DEF IInv, TypeOK
<1>7. HubOK'
  <2>1. FannedOut' = Len(log) /\ unsent' \subseteq 1..FannedOut
    BY <1>1 DEF FannedOut, IInv, HubOK
  <2>2. unsent' \subseteq 1..FannedOut'
    BY <1>0, <2>1
  <2> QED
    BY <1>0, <1>1, <1>2, <2>2 DEF HubOK
<1>8. StreamOK'
  BY <1>3 DEF StreamOK, Streaming
<1>9. CursorOK'
  <2>1. GapIsKnown => error'
    BY <1>0, <1>1 DEF GapIsKnown
  <2> QED
    BY <1>1, <1>2, <2>1 DEF IInv, CursorOK, GapIsKnown, Shown
<1> QED
  BY <1>6, <1>7, <1>8, <1>9 DEF IInv

-----------------------------------------------------------------------------
(* The theorems *)

LEMMA InitIInv == Init => IInv
<1> SUFFICES ASSUME Init PROVE IInv
  OBVIOUS
<1>0. MaxSeq \in Nat /\ MaxBreaks \in Nat
  BY Bounds DEF Bounds
<1>1. /\ log = <<>> /\ torn = FALSE /\ fan = 0 /\ unsent = {} /\ conn = NoConn
      /\ after = 0 /\ base = 0 /\ live = {} /\ cursor = 0 /\ error = FALSE /\ breaks = 0
      /\ sequence = 0 /\ history = <<>> /\ registered = {} /\ queue = [s \in {Sub} |-> <<>>]
      /\ snap = [Idle EXCEPT !.at = "asked", !.connect = TRUE]
  BY DEF Init, Hub!Init
<1>2. Len(log) = 0 /\ log \in Seq(Kinds)
  BY <1>1
<1>3. /\ snap \in [at : {"none", "asked", "read"}, cursor : 0..MaxSeq,
                   again : BOOLEAN, connect : BOOLEAN]
      /\ snap.at = "asked" /\ snap.cursor = 0
  <2>1. snap = [at |-> "asked", cursor |-> 0, again |-> FALSE, connect |-> TRUE]
    BY <1>1 DEF Idle
  <2> QED
    BY <1>0, <2>1
<1>4. /\ conn \in [phase : Phases, replay : SUBSET (1..MaxSeq), boundary : 0..MaxSeq]
      /\ conn.phase = "none"
  BY <1>0, <1>1 DEF NoConn, Phases
<1>5. Hub!TypeOK
  BY <1>1 DEF Hub!TypeOK
<1>6. TypeOK
  <2>1. {fan, after, base, cursor} \subseteq 0..Len(log) /\ Len(log) <= MaxSeq
    BY <1>0, <1>1, <1>2
  <2>2. breaks \in 0..MaxBreaks
    BY <1>0, <1>1
  <2>4. torn \in BOOLEAN /\ error \in BOOLEAN
    BY <1>1, Zenon
  <2>3. live \subseteq 1..Len(log) /\ unsent \subseteq 1..Len(log)
    BY <1>1
  <2> QED
    BY <1>2, <1>3, <1>4, <1>5, <2>1, <2>2, <2>3, <2>4 DEF TypeOK
<1>7. HubOK
  BY <1>1, <1>2, <1>3 DEF HubOK
<1>8. StreamOK
  BY <1>4 DEF StreamOK, Streaming
<1>9. CursorOK
  BY <1>1, <1>3 DEF CursorOK, GapIsKnown
<1> QED
  BY <1>6, <1>7, <1>8, <1>9 DEF IInv

LEMMA NextIInv == IInv /\ [Next]_vars => IInv'
<1> SUFFICES ASSUME IInv, [Next]_vars PROVE IInv'
  OBVIOUS
<1>1. CASE Server
  BY <1>1, PublicationKeeps, RejectedKeeps, OtherReadsKeeps DEF Server
<1>2. CASE Stream
  BY <1>2, ConnectKeeps, SendResyncKeeps, SendReplayKeeps, SendReadyKeeps, SendLiveKeeps,
     SendOverflowKeeps, DisconnectKeeps, RefusedKeeps DEF Stream
<1>3. CASE Console
  BY <1>3, AskingKeeps, SnapshotReadKeeps, SnapshotArrivesKeeps, SnapshotFailsKeeps DEF Console
<1>4. CASE Restart
  BY <1>4, RestartKeeps
<1>5. CASE UNCHANGED vars
  <2>1. UNCHANGED <<journalVars, hubVars, conn, browserVars, breaks>>
    BY <1>5 DEF vars
  <2>2. TypeOK'
    BY <2>1 DEF IInv, TypeOK, Hub!TypeOK, journalVars, hubVars, browserVars
  <2>3. FannedOut' = FannedOut /\ Position' = Position
    BY <2>1 DEF FannedOut, Position, journalVars, browserVars
  <2>4. HubOK'
    BY <2>1, <2>3 DEF IInv, HubOK, journalVars, hubVars, browserVars
  <2>5. StreamOK'
    BY <2>1, <2>3 DEF IInv, StreamOK, Streaming, journalVars, hubVars, browserVars, Elements, Increasing
  <2>6. CursorOK'
    BY <2>1 DEF IInv, CursorOK, GapIsKnown, Shown, journalVars, browserVars
  <2> QED
    BY <2>2, <2>4, <2>5, <2>6 DEF IInv
<1> QED
  BY <1>1, <1>2, <1>3, <1>4, <1>5 DEF Next

LEMMA SpecIInv == Spec => []IInv
<1> QED
  BY InitIInv, NextIInv, PTL DEF Spec

\* The variables have their types: among them, that no cursor of the browser's
\* is ahead of the Journal, and that nothing that is not recorded is on
\* display, through restarts and rejected publications.
THEOREM TypeCorrect == Spec => []TypeOK
<1>1. IInv => TypeOK
  BY DEF IInv
<1> QED
  BY <1>1, SpecIInv, PTL

\* What a browser's cursor has passed is on display or was never published by
\* the hub, unless a snapshot is on its way or the user was told that one
\* failed: with any number of batches, overflows, broken connections, failed
\* requests and restarts, and with any limits of the hub's history and queues,
\* reconnecting with the cursor loses nothing.
THEOREM NothingElseIsSkipped == Spec => []OnlyRejectedAreSkipped
<1>1. IInv => OnlyRejectedAreSkipped
  BY DEF IInv, CursorOK, OnlyRejectedAreSkipped
<1> QED
  BY <1>1, SpecIInv, PTL

\* A stream's queue holds, in order and once each, just the events that were
\* fanned out since what the stream has sent: from snapshot to replay to live
\* events, subscribe_events leaves neither gap nor repeat.
THEOREM StreamsContinue == Spec => []StreamContinues
<1>1. ASSUME IInv PROVE StreamContinues
  <2> SUFFICES ASSUME conn.phase = "live", queue[Sub] # <<Hub!Resync>>
               PROVE  StreamContinues
    BY DEF StreamContinues
  <2> DEFINE q == queue[Sub]
  <2>1. /\ conn.boundary <= after /\ Increasing(q)
        /\ Elements(q) = ((after + 1)..FannedOut) \ unsent
    BY <1>1 DEF IInv, StreamOK, Streaming, Position
  <2>2. conn.boundary \in Nat /\ after \in Nat /\ FannedOut \in Nat /\ q \in Seq(Nat)
    BY <1>1, Facts
  <2>3. \A i \in DOMAIN q : q[i] > conn.boundary
    <3>1. \A i \in DOMAIN q : q[i] \in (after + 1)..FannedOut
      BY <2>1 DEF Elements
    <3> QED
      BY <2>1, <2>2, <3>1
  <2>4. {i \in DOMAIN q : q[i] > conn.boundary} = DOMAIN q
    BY <2>3
  <2> QED
    BY <2>1, <2>4 DEF StreamContinues, Elements, Increasing
<1> QED
  BY <1>1, SpecIInv, PTL
=============================================================================
