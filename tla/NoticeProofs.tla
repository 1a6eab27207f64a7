---------------------------- MODULE NoticeProofs ----------------------------
(***************************************************************************)
(* Proofs about the notices that come in.                                  *)
(*                                                                         *)
(* GcnConsumer, for any topics, feeds, subscriptions, posts and bounds:    *)
(* whatever crashes, the group's offset never passes a record that was not *)
(* handled; a document has the MOC of its own notice; and once redelivery  *)
(* has caught up it is that of the newest notice.                          *)
(*                                                                         *)
(* GpsTime and GpsClock, for any moments of any days: a notice's time is   *)
(* converted rightly but for the seconds after a leap second, and a later  *)
(* time to a later one.                                                    *)
(***************************************************************************)
EXTENDS GcnConsumer, GpsClock, FiniteSetTheorems, WellFoundedInduction, TLAPS

-------------------------------------------------------------------------------
(* The inductive invariant *)

\* The records a topic can have.
Records(t) == {Feed[t][i] : i \in DOMAIN Feed[t]}

\* The logs are sequences of such records, and the offsets lie within them.
LogsOK ==
    /\ log = [t \in Topic |-> log[t]] /\ upcoming = [t \in Topic |-> upcoming[t]]
    /\ \A t \in Topic : log[t] \in Seq(Records(t)) /\ upcoming[t] \in Seq(Records(t))

OffsetsOK ==
    /\ committed = [t \in Topic |-> committed[t]] /\ stored = [t \in Topic |-> stored[t]]
    /\ since = [t \in Topic |-> since[t]] /\ position = [t \in Topic |-> position[t]]
    /\ handled = [t \in Topic |-> handled[t]]
    /\ \A t \in Topic :
         /\ committed[t] \in Int /\ committed[t] >= NoOffset /\ committed[t] <= Len(log[t])
         /\ stored[t] \in Int /\ stored[t] >= NoOffset /\ stored[t] <= Len(log[t])
         /\ position[t] \in Nat /\ position[t] <= Len(log[t])
         /\ since[t] \in Nat

\* The record in the consumer's hands is the last it polled of its topic.
InHand(t) == job["consumer"].at # "idle" /\ job["consumer"].topic = t

JobOK ==
    /\ job = [a \in Actor |-> job[a]]
    /\ job["consumer"].at = "idle" => job["consumer"] = Idle
    /\ job["consumer"].at # "idle" =>
         /\ proc # "down"
         /\ job["consumer"].topic \in Topic
         /\ job["consumer"].record = position[job["consumer"].topic]

\* Up to record n, everything after the group's beginning was handled.
HandledUpTo(t, n) == \A i \in since[t] + 1 .. n : Handled(t, i)

\* What is committed or stored has been handled, and what was polled too but for the record
\* in hand.
Progress ==
    \A t \in Topic :
      /\ HandledUpTo(t, committed[t])
      /\ proc # "down" =>
           /\ HandledUpTo(t, stored[t])
           /\ HandledUpTo(t, position[t] - 1)
           /\ ~ InHand(t) => HandledUpTo(t, position[t])

GInv == LogsOK /\ OffsetsOK /\ JobOK /\ Progress

-------------------------------------------------------------------------------
(* Steps that leave the logs and offsets alone *)

\* The consumer has the same record in its hands, or none, as before.
SameRecord ==
    /\ job' = [a \in Actor |-> job'[a]]
    /\ job'["consumer"].topic = job["consumer"].topic
    /\ job'["consumer"].record = job["consumer"].record
    /\ job'["consumer"].at = "idle" <=> job["consumer"].at = "idle"
    /\ job'["consumer"].at = "idle" => job'["consumer"] = Idle

\* Such a step keeps the invariant.
LEMMA QuietStep ==
  ASSUME GInv, SameRecord, UNCHANGED <<log, upcoming, committed, since, proc, position, stored, handled>>
  PROVE  GInv'
<1>1. LogsOK' /\ OffsetsOK'
  BY DEF GInv, LogsOK, OffsetsOK
<1>2. JobOK'
  BY DEF GInv, JobOK, SameRecord
<1>3. Progress'
  BY DEF GInv, Progress, HandledUpTo, Handled, Decodable, InHand, SameRecord
<1> QED
  BY <1>1, <1>2, <1>3 DEF GInv

\* What follows about the same record is such a step.
LEMMA ProceedFacts ==
  ASSUME JobOK, NEW a \in Actor, job[a].at # "idle", NEW at, at # "idle", NEW todo, NEW found,
         Proceed(a, at, todo, found)
  PROVE  SameRecord
<1> DEFINE next == [at |-> at, topic |-> job[a].topic, record |-> job[a].record,
                    grb |-> job[a].grb, todo |-> todo, superevents |-> found]
<1>1. job' = [job EXCEPT ![a] = next]
  BY DEF Proceed
<1>2. job = [b \in Actor |-> job[b]] /\ "consumer" \in Actor
  BY DEF JobOK, Actor
<1>3. /\ job' = [b \in Actor |-> job'[b]]
      /\ job'["consumer"] = IF a = "consumer" THEN next ELSE job["consumer"]
  BY <1>1, <1>2
<1>4. next.at = at /\ next.topic = job[a].topic /\ next.record = job[a].record
  OBVIOUS
<1> QED
  BY <1>2, <1>3, <1>4 DEF SameRecord, JobOK

\* So is whatever gw-api begins or ends.
LEMMA ApiFacts ==
  ASSUME JobOK, NEW j, job' = [job EXCEPT !["api"] = j]
  PROVE  SameRecord
  BY DEF JobOK, SameRecord, Actor

\* A handler's steps before its last, and the requests of gw-api, are such steps.
LEMMA HandlerFacts ==
  ASSUME JobOK, \/ \E a \in Actor : StoreMoc(a) \/ StoreDocument(a)
                \/ Match \/ FindFails \/ AllMatched
  PROVE  SameRecord
<1>1. ASSUME NEW a \in Actor, StoreMoc(a)
      PROVE  SameRecord
  <2>1. job[a].at # "idle" /\ Proceed(a, "document", job[a].todo, {})
    BY <1>1 DEF StoreMoc
  <2> QED
    BY <2>1, ProceedFacts
<1>2. ASSUME NEW a \in Actor, StoreDocument(a)
      PROVE  SameRecord
  <2>1. job[a].at # "idle"
    BY <1>2 DEF StoreDocument
  <2>2. PICK at, todo, found : at \in {"match", "next"} /\ Proceed(a, at, todo, found)
    BY <1>2 DEF StoreDocument
  <2> QED
    BY <2>1, <2>2, ProceedFacts
<1>3. CASE Match
  <2>1. PICK s : Proceed("consumer", "match", job["consumer"].todo, job["consumer"].superevents \ {s})
    BY <1>3 DEF Match
  <2>2. job["consumer"].at # "idle"
    BY <1>3 DEF Match
  <2> QED
    BY <2>1, <2>2, ProceedFacts DEF Actor
<1>4. CASE FindFails \/ AllMatched
  <2>1. job["consumer"].at # "idle" /\ Proceed("consumer", "next", <<>>, {})
    BY <1>4 DEF FindFails, AllMatched
  <2> QED
    BY <2>1, ProceedFacts DEF Actor
<1> QED
  BY <1>1, <1>2, <1>3, <1>4

LEMMA RequestFacts ==
  ASSUME JobOK, (\E r \in requests : Post(r)) \/ Posted \/ PostCut
  PROVE  SameRecord
<1>1. ASSUME NEW n, Submit(n)
      PROVE  SameRecord
  BY <1>1, ApiFacts DEF Submit
<1>2. CASE Posted \/ PostCut
  BY <1>2, ApiFacts DEF Posted, PostCut
<1>3. CASE \E r \in requests : Post(r)
  BY <1>1, <1>3 DEF Post, CreateGrbTrigger, CreateBoomAlert, CreateFrbAlert,
                    CreateNeutrinoAlert, CreateIceCubeLvkSearch
<1> QED
  BY <1>2, <1>3

\* None of them touches the logs and the offsets.
LEMMA QuietFrame ==
  ASSUME \/ \E a \in Actor : StoreMoc(a) \/ StoreDocument(a)
         \/ Match \/ FindFails \/ AllMatched
         \/ (\E r \in requests : Post(r)) \/ Posted \/ PostCut
  PROVE  UNCHANGED <<log, upcoming, committed, since, proc, position, stored, handled>>
<1>1. ASSUME NEW a \in Actor, StoreMoc(a) \/ StoreDocument(a)
      PROVE  UNCHANGED <<log, upcoming, committed, since, proc, position, stored, handled>>
  BY <1>1 DEF StoreMoc, StoreDocument, broker, memory
<1>2. CASE Match \/ FindFails \/ AllMatched
  BY <1>2 DEF Match, FindFails, AllMatched, broker, memory, stores, history, bounds
<1>3. ASSUME NEW n, Submit(n)
      PROVE  UNCHANGED <<log, upcoming, committed, since, proc, position, stored, handled>>
  BY <1>3 DEF Submit, broker, memory
<1>4. CASE \E r \in requests : Post(r)
  BY <1>3, <1>4 DEF Post, CreateGrbTrigger, CreateBoomAlert, CreateFrbAlert,
                    CreateNeutrinoAlert, CreateIceCubeLvkSearch
<1>5. CASE Posted \/ PostCut
  BY <1>5 DEF Posted, PostCut, broker, memory, stores, history, bounds
<1> QED
  BY <1>1, <1>2, <1>4, <1>5

-------------------------------------------------------------------------------
(* Steps that change the logs and offsets *)

LEMMA InitOK == Init => GInv
<1> SUFFICES ASSUME Init  PROVE GInv
  OBVIOUS
<1>1. LogsOK
  BY FeedAssumption DEF Init, LogsOK, Records
<1>2. OffsetsOK
  BY DEF Init, OffsetsOK, NoOffset
<1>3. JobOK
  BY DEF Init, JobOK, Actor, Idle
<1>4. Progress
  BY DEF Init, Progress, HandledUpTo, NoOffset
<1> QED
  BY <1>1, <1>2, <1>3, <1>4 DEF GInv

\* A record appears at the end of a log: those before it stay.
LEMMA PublishOK ==
  ASSUME GInv, NEW t \in Topic, Publish(t)
  PROVE  GInv'
<1> USE DEF GInv
<1>1. /\ upcoming[t] \in Seq(Records(t)) /\ upcoming[t] # <<>> /\ log[t] \in Seq(Records(t))
      /\ upcoming' = [upcoming EXCEPT ![t] = Tail(@)]
      /\ log' = [log EXCEPT ![t] = Append(@, Head(upcoming[t]))]
  BY DEF Publish, LogsOK
<1>2. UNCHANGED <<committed, since, proc, position, stored, handled, job>>
  BY DEF Publish, memory, history
<1>3. Tail(upcoming[t]) \in Seq(Records(t)) /\ Head(upcoming[t]) \in Records(t)
  BY <1>1
<1>4. LogsOK'
  <2>1. /\ log' = [s \in Topic |-> log'[s]] /\ upcoming' = [s \in Topic |-> upcoming'[s]]
        /\ log'[t] = Append(log[t], Head(upcoming[t])) /\ upcoming'[t] = Tail(upcoming[t])
        /\ \A s \in Topic : s # t => log'[s] = log[s] /\ upcoming'[s] = upcoming[s]
    BY <1>1 DEF LogsOK
  <2>2. Append(log[t], Head(upcoming[t])) \in Seq(Records(t))
    BY <1>1, <1>3
  <2>3. ASSUME NEW s \in Topic
        PROVE  log'[s] \in Seq(Records(s)) /\ upcoming'[s] \in Seq(Records(s))
    <3>1. CASE s = t
      BY <1>3, <2>1, <2>2, <3>1
    <3>2. CASE s # t
      BY <2>1, <3>2 DEF LogsOK
    <3> QED
      BY <3>1, <3>2
  <2> QED
    BY <2>1, <2>3 DEF LogsOK
<1>5. \A s \in Topic : /\ Len(log[s]) \in Nat /\ Len(log'[s]) \in Nat
                       /\ Len(log[s]) <= Len(log'[s])
                       /\ \A i \in 1 .. Len(log[s]) : log'[s][i] = log[s][i]
  BY <1>1 DEF LogsOK
<1>6. OffsetsOK'
  <2>1. ASSUME NEW s \in Topic
        PROVE  /\ committed[s] <= Len(log'[s]) /\ stored[s] <= Len(log'[s])
               /\ position[s] <= Len(log'[s])
    BY <1>5 DEF OffsetsOK
  <2> QED
    BY <1>2, <2>1 DEF OffsetsOK, NoOffset
<1>7. JobOK'
  BY <1>2 DEF JobOK
<1>8. ASSUME NEW s \in Topic, NEW n \in Int, n <= Len(log[s]), HandledUpTo(s, n)
      PROVE  \A i \in since'[s] + 1 .. n : Handled(s, i)'
  <2>1. since[s] \in Nat
    BY DEF OffsetsOK
  <2> QED
    BY <1>2, <1>5, <1>8, <2>1 DEF HandledUpTo, Handled, Decodable
<1>9. Progress'
  <2> SUFFICES ASSUME NEW s \in Topic
               PROVE  /\ HandledUpTo(s, committed[s])'
                      /\ proc' # "down" =>
                           /\ HandledUpTo(s, stored[s])'
                           /\ HandledUpTo(s, position[s] - 1)'
                           /\ ~ InHand(s)' => HandledUpTo(s, position[s])'
    BY DEF Progress
  <2>1. /\ committed[s] \in Int /\ stored[s] \in Int /\ position[s] \in Int
        /\ position[s] - 1 \in Int /\ position[s] - 1 <= Len(log[s])
        /\ committed[s] <= Len(log[s]) /\ stored[s] <= Len(log[s]) /\ position[s] <= Len(log[s])
    BY <1>5 DEF OffsetsOK
  <2>2. /\ HandledUpTo(s, committed[s])
        /\ proc # "down" => /\ HandledUpTo(s, stored[s])
                            /\ HandledUpTo(s, position[s] - 1)
                            /\ ~ InHand(s) => HandledUpTo(s, position[s])
    BY DEF Progress
  <2>3. InHand(s)' <=> InHand(s)
    BY <1>2 DEF InHand
  <2> QED
    BY <1>2, <1>8, <2>1, <2>2, <2>3 DEF HandledUpTo
<1> QED
  BY <1>4, <1>6, <1>7, <1>9

\* The consumer begins at the committed offset, up to which all is handled, or at its own
\* beginning.
LEMMA StartOK ==
  ASSUME GInv, Start
  PROVE  GInv'
<1> USE DEF GInv
<1>1. /\ proc = "down" /\ proc' = "running"
      /\ position' = [t \in Topic |-> StartAt(t)]
      /\ since' = [t \in Topic |-> IF committed[t] = NoOffset THEN StartAt(t) ELSE since[t]]
      /\ stored' = [t \in Topic |-> NoOffset]
      /\ UNCHANGED <<log, upcoming, committed, job, handled>>
  BY DEF Start, history, bounds
<1>2. LogsOK'
  BY <1>1 DEF LogsOK
<1>3. job["consumer"].at = "idle"
  BY <1>1 DEF JobOK
<1>4. JobOK'
  BY <1>1, <1>3 DEF JobOK
<1>5. ASSUME NEW t \in Topic
      PROVE  /\ Len(log[t]) \in Nat /\ committed[t] \in Int /\ NoOffset \in Int /\ NoOffset < 0
             /\ NoOffset <= committed[t] /\ committed[t] <= Len(log[t])
  BY DEF LogsOK, OffsetsOK, NoOffset
<1>6. ASSUME NEW t \in Topic
      PROVE  /\ StartAt(t) \in Nat /\ StartAt(t) <= Len(log[t])
             /\ committed[t] # NoOffset => StartAt(t) = committed[t]
  BY <1>5 DEF StartAt, End, NoOffset
<1>7. OffsetsOK'
  <2>1. ASSUME NEW t \in Topic
        PROVE  since'[t] \in Nat /\ position'[t] = StartAt(t) /\ stored'[t] = NoOffset
    BY <1>1, <1>6 DEF OffsetsOK
  <2>2. /\ position' = [t \in Topic |-> position'[t]] /\ since' = [t \in Topic |-> since'[t]]
        /\ stored' = [t \in Topic |-> stored'[t]]
    BY <1>1
  <2> QED
    BY <1>1, <1>5, <1>6, <2>1, <2>2 DEF OffsetsOK
<1>8. Progress'
  <2> SUFFICES ASSUME NEW t \in Topic
               PROVE  /\ HandledUpTo(t, committed[t])' /\ HandledUpTo(t, stored[t])'
                      /\ HandledUpTo(t, position[t] - 1)' /\ HandledUpTo(t, position[t])'
    BY DEF Progress
  <2>1. HandledUpTo(t, committed[t]) /\ since[t] \in Nat
    BY DEF Progress, OffsetsOK
  <2>2. CASE committed[t] = NoOffset
    <3>1. /\ since'[t] = StartAt(t) /\ position'[t] = StartAt(t) /\ stored'[t] = NoOffset
          /\ committed'[t] = NoOffset
      BY <1>1, <2>2
    <3> QED
      BY <1>5, <1>6, <3>1 DEF HandledUpTo
  <2>3. CASE committed[t] # NoOffset
    <3>1. /\ since'[t] = since[t] /\ position'[t] = committed[t] /\ stored'[t] = NoOffset
          /\ committed'[t] = committed[t]
      BY <1>1, <1>6, <2>3
    <3>2. \A i \in since[t] + 1 .. committed[t] : Handled(t, i)'
      BY <1>1, <2>1 DEF HandledUpTo, Handled, Decodable
    <3> QED
      BY <1>5, <2>1, <3>1, <3>2 DEF HandledUpTo
  <2> QED
    BY <2>2, <2>3
<1> QED
  BY <1>2, <1>4, <1>7, <1>8

\* A record is polled when the one before it is done with; one that does not decode counts as
\* handled, any other is in hand.
LEMMA PollOK ==
  ASSUME GInv, NEW t \in Topic, Poll(t)
  PROVE  GInv'
<1> USE DEF GInv
<1> PICK i : i = position[t] + 1
  OBVIOUS
<1> DEFINE taken == [at |-> "next", topic |-> t, record |-> i, grb |-> NoticeOf(t, i).kind = "grb",
                    todo |-> ItemsOf(t, i), superevents |-> {}]
<1>1. /\ proc = "running" /\ job["consumer"] = Idle /\ position[t] < End(t)
      /\ position' = [position EXCEPT ![t] = i]
      /\ Decodable(t, i) => job' = [job EXCEPT !["consumer"] = taken]
      /\ ~ Decodable(t, i) => job' = job
      /\ UNCHANGED <<log, upcoming, committed, since, proc, stored, handled>>
  BY DEF Poll, broker, stores, history, bounds
<1>2. job["consumer"].at = "idle" /\ job = [a \in Actor |-> job[a]] /\ "consumer" \in Actor
  BY <1>1 DEF Idle, JobOK, Actor
<1>3. /\ position' = [s \in Topic |-> position'[s]] /\ position'[t] = i
      /\ \A s \in Topic : s # t => position'[s] = position[s]
      /\ position[t] \in Nat /\ i <= Len(log[t]) /\ since[t] \in Nat
  <2>1. Len(log[t]) \in Nat /\ position[t] \in Nat /\ since[t] \in Nat
        /\ position = [s \in Topic |-> position[s]]
    BY DEF OffsetsOK, LogsOK
  <2>2. i <= Len(log[t])
    BY <1>1, <2>1 DEF End
  <2> QED
    BY <1>1, <2>1, <2>2
<1>4. LogsOK'
  BY <1>1 DEF LogsOK
<1>5. OffsetsOK'
  BY <1>1, <1>3 DEF OffsetsOK
<1>6. Decodable(t, i) =>
         /\ job' = [a \in Actor |-> job'[a]]
         /\ job'["consumer"].at = "next" /\ job'["consumer"].topic = t /\ job'["consumer"].record = i
  BY <1>1, <1>2
<1>7. JobOK'
  <2>1. CASE Decodable(t, i)
    BY <1>1, <1>3, <1>6, <2>1 DEF JobOK
  <2>2. CASE ~ Decodable(t, i)
    BY <1>1, <1>2, <2>2 DEF JobOK
  <2> QED
    BY <2>1, <2>2
<1>8. ASSUME NEW s \in Topic, NEW n
      PROVE  HandledUpTo(s, n) => \A k \in since'[s] + 1 .. n : Handled(s, k)'
  BY <1>1 DEF HandledUpTo, Handled, Decodable
<1>9. Progress'
  <2> SUFFICES ASSUME NEW s \in Topic
               PROVE  /\ HandledUpTo(s, committed[s])' /\ HandledUpTo(s, stored[s])'
                      /\ HandledUpTo(s, position[s] - 1)'
                      /\ ~ InHand(s)' => HandledUpTo(s, position[s])'
    BY DEF Progress
  <2>1. /\ HandledUpTo(s, committed[s]) /\ HandledUpTo(s, stored[s])
        /\ HandledUpTo(s, position[s] - 1) /\ HandledUpTo(s, position[s])
    BY <1>1, <1>2 DEF Progress, InHand
  <2>2. HandledUpTo(s, committed[s])' /\ HandledUpTo(s, stored[s])'
    BY <1>1, <1>8, <2>1 DEF HandledUpTo
  <2>3. CASE s # t
    BY <1>3, <1>8, <2>1, <2>2, <2>3 DEF HandledUpTo
  <2>4. CASE s = t
    <3>1. position'[s] - 1 = position[s]
      BY <1>3, <2>4
    <3>2. HandledUpTo(s, position[s] - 1)'
      BY <1>8, <2>1, <3>1 DEF HandledUpTo
    <3>3. CASE Decodable(t, i)
      BY <1>6, <2>2, <2>4, <3>2, <3>3 DEF InHand
    <3>4. CASE ~ Decodable(t, i)
      <4>1. Handled(t, i)'
        BY <1>1, <3>4 DEF Handled, Decodable
      <4>2. \A k \in since'[t] + 1 .. i : k = i \/ k \in since'[t] + 1 .. position[t]
        BY <1>1, <1>3
      <4>3. \A k \in since'[t] + 1 .. i : Handled(t, k)'
        BY <1>8, <2>1, <2>4, <4>1, <4>2
      <4> QED
        BY <1>3, <2>2, <2>4, <3>2, <4>3 DEF HandledUpTo
    <3> QED
      BY <3>3, <3>4
  <2> QED
    BY <2>3, <2>4
<1> QED
  BY <1>4, <1>5, <1>7, <1>9

\* The record in hand is handled, and the offset of it stored or not.
LEMMA StoreOffsetOK ==
  ASSUME GInv, StoreOffset
  PROVE  GInv'
<1> USE DEF GInv
<1> PICK t, r : t = job["consumer"].topic /\ r = job["consumer"].record
  OBVIOUS
<1>1. /\ job["consumer"].at = "next" /\ job' = [job EXCEPT !["consumer"] = Idle]
      /\ handled' = [handled EXCEPT ![t] = @ \cup {r}]
      /\ stored' = [stored EXCEPT ![t] = r] \/ stored' = stored
      /\ UNCHANGED <<log, upcoming, committed, since, proc, position>>
  BY DEF StoreOffset, broker
<1>2. /\ t \in Topic /\ r = position[t] /\ proc # "down" /\ InHand(t)
      /\ \A s \in Topic : InHand(s) => s = t
  BY <1>1 DEF JobOK, InHand
<1>3. /\ r \in Nat /\ r <= Len(log[t]) /\ since[t] \in Nat
      /\ handled'[t] = handled[t] \cup {r}
      /\ \A s \in Topic : handled[s] \subseteq handled'[s]
      /\ handled' = [s \in Topic |-> handled'[s]]
  BY <1>1, <1>2 DEF OffsetsOK
<1>4. LogsOK'
  BY <1>1 DEF LogsOK
<1>5. /\ stored' = [s \in Topic |-> stored'[s]]
      /\ \A s \in Topic : stored'[s] = stored[s] \/ (s = t /\ stored'[s] = r)
  BY <1>1, <1>2 DEF OffsetsOK
<1>6. OffsetsOK'
  <2>1. ASSUME NEW s \in Topic
        PROVE  stored'[s] \in Int /\ stored'[s] >= NoOffset /\ stored'[s] <= Len(log[s])
    <3>1. CASE stored'[s] = stored[s]
      BY <3>1 DEF OffsetsOK
    <3>2. CASE s = t /\ stored'[s] = r
      <4>1. r \in Int /\ r >= NoOffset
        BY <1>3 DEF NoOffset
      <4> QED
        BY <1>3, <3>2, <4>1
    <3> QED
      BY <1>5, <3>1, <3>2
  <2> QED
    BY <1>1, <1>3, <1>5, <2>1 DEF OffsetsOK
<1>7. JobOK' /\ job'["consumer"].at = "idle"
  BY <1>1 DEF JobOK, Actor, Idle
<1>8. ASSUME NEW s \in Topic, NEW n
      PROVE  HandledUpTo(s, n) => \A k \in since'[s] + 1 .. n : Handled(s, k)'
  BY <1>1, <1>3 DEF HandledUpTo, Handled, Decodable
<1>9. \A k \in since'[t] + 1 .. r : Handled(t, k)'
  <2>1. HandledUpTo(t, r - 1)
    BY <1>2 DEF Progress
  <2>2. Handled(t, r)'
    BY <1>3 DEF Handled
  <2>3. \A k \in since'[t] + 1 .. r : k = r \/ k \in since'[t] + 1 .. r - 1
    BY <1>1, <1>3
  <2> QED
    BY <1>2, <1>8, <2>1, <2>2, <2>3
<1>10. Progress'
  <2> SUFFICES ASSUME NEW s \in Topic
               PROVE  /\ HandledUpTo(s, committed[s])' /\ HandledUpTo(s, stored[s])'
                      /\ HandledUpTo(s, position[s] - 1)' /\ HandledUpTo(s, position[s])'
    BY DEF Progress
  <2>1. /\ HandledUpTo(s, committed[s]) /\ HandledUpTo(s, stored[s])
        /\ HandledUpTo(s, position[s] - 1) /\ (s # t => HandledUpTo(s, position[s]))
    BY <1>2 DEF Progress
  <2>2. HandledUpTo(s, committed[s])' /\ HandledUpTo(s, position[s] - 1)'
    BY <1>1, <1>8, <2>1 DEF HandledUpTo
  <2>3. HandledUpTo(s, stored[s])'
    BY <1>5, <1>8, <1>9, <2>1 DEF HandledUpTo
  <2>4. HandledUpTo(s, position[s])'
    BY <1>1, <1>2, <1>8, <1>9, <2>1 DEF HandledUpTo
  <2> QED
    BY <2>2, <2>3, <2>4
<1> QED
  BY <1>4, <1>6, <1>7, <1>10

\* Only what is stored is committed, while the consumer is there.
LEMMA CommitOK ==
  ASSUME GInv, proc # "down", CommitStored, UNCHANGED <<log, upcoming, since, position, stored, job, handled>>,
         proc' = proc \/ (proc' = "down" /\ job["consumer"] = Idle)
  PROVE  GInv'
<1> USE DEF GInv
<1>1. LogsOK'
  BY DEF LogsOK
<1>2. /\ committed' = [t \in Topic |-> committed'[t]]
      /\ \A t \in Topic : committed'[t] = committed[t] \/ (committed'[t] = stored[t] /\ stored[t] # NoOffset)
  BY DEF CommitStored
<1>3. OffsetsOK'
  BY <1>2 DEF OffsetsOK
<1>4. JobOK'
  BY DEF JobOK, Idle
<1>5. ASSUME NEW s \in Topic, NEW n
      PROVE  HandledUpTo(s, n) => \A k \in since'[s] + 1 .. n : Handled(s, k)'
  BY DEF HandledUpTo, Handled, Decodable
<1>6. Progress'
  BY <1>2, <1>5 DEF Progress, HandledUpTo, InHand
<1> QED
  BY <1>1, <1>3, <1>4, <1>6

\* A stop is noticed by the loop, a crash by nobody.
LEMMA StopCrashOK ==
  ASSUME GInv, Stop \/ Crash
  PROVE  GInv'
<1> USE DEF GInv
<1>1. /\ UNCHANGED <<log, upcoming, committed, since, position, stored, handled>> /\ proc # "down"
      /\ \/ proc' = "stopping" /\ job' = job
         \/ proc' = "down" /\ job' = [job EXCEPT !["consumer"] = Idle]
  BY DEF Stop, Crash, broker, stores, history
<1>2. LogsOK' /\ OffsetsOK'
  BY <1>1 DEF LogsOK, OffsetsOK
<1>3. JobOK'
  <2>1. CASE job' = job /\ proc' = "stopping"
    BY <1>1, <2>1 DEF JobOK
  <2>2. CASE job' = [job EXCEPT !["consumer"] = Idle]
    <3>1. job' = [a \in Actor |-> job'[a]] /\ job'["consumer"] = Idle /\ Idle.at = "idle"
      BY <2>2 DEF JobOK, Actor, Idle
    <3> QED
      BY <3>1 DEF JobOK
  <2> QED
    BY <1>1, <2>1, <2>2
<1>4. Progress'
  BY <1>1 DEF Progress, HandledUpTo, Handled, Decodable, InHand
<1> QED
  BY <1>2, <1>3, <1>4

-------------------------------------------------------------------------------
(* The theorem *)

\* Every step keeps the invariant.
LEMMA StepOK == GInv /\ [Next]_vars => GInv'
<1> SUFFICES ASSUME GInv, [Next]_vars  PROVE GInv'
  OBVIOUS
<1>1. CASE \E t \in Topic : Publish(t) \/ Poll(t)
  BY <1>1, PublishOK, PollOK
<1>2. CASE Start \/ StoreOffset \/ Stop \/ Crash
  BY <1>2, StartOK, StoreOffsetOK, StopCrashOK
<1>3. CASE AutoCommit \/ Close
  <2>1. /\ proc # "down" /\ CommitStored
        /\ UNCHANGED <<log, upcoming, since, position, stored, job, handled>>
        /\ proc' = proc \/ (proc' = "down" /\ job["consumer"] = Idle)
    BY <1>3 DEF AutoCommit, Close, memory, stores, history, bounds
  <2> QED
    BY <2>1, CommitOK
<1>4. CASE \/ \E a \in Actor : StoreMoc(a) \/ StoreDocument(a)
           \/ Match \/ FindFails \/ AllMatched
  BY <1>4, HandlerFacts, QuietFrame, QuietStep DEF GInv
<1>5. CASE (\E r \in requests : Post(r)) \/ Posted \/ PostCut
  BY <1>5, RequestFacts, QuietFrame, QuietStep DEF GInv
<1>6. CASE UNCHANGED vars
  <2>1. UNCHANGED <<log, upcoming, committed, since, proc, position, stored, handled, job>>
    BY <1>6 DEF vars, broker, memory, stores, history, bounds
  <2>2. SameRecord
    BY <2>1 DEF GInv, JobOK, SameRecord
  <2> QED
    BY <2>1, <2>2, QuietStep
<1> QED
  BY <1>1, <1>2, <1>3, <1>4, <1>5, <1>6 DEF Next, Handler, Actor

\* The inductive invariant of the loop (src/gcn_consumer.rs, GcnAlertConsumer::run).
THEOREM ConsumerInvariant == Spec => []GInv
  BY InitOK, StepOK, PTL DEF Spec

\* At least once: however the consumer, the broker's commits, a crash, a stop and gw-api
\* interleave, no record between the group's beginning and its committed offset was left
\* unhandled.
THEOREM CommittedStaysHandled == Spec => []CommittedIsHandled
<1>1. GInv => CommittedIsHandled
  BY DEF GInv, Progress, HandledUpTo, CommittedIsHandled
<1> QED
  BY ConsumerInvariant, <1>1, PTL

-------------------------------------------------------------------------------
(* Documents and their MOCs: what the items are *)

\* Whatever is stored is an item of a notice that a topic has or a client may post.
ItemsOfNotice(n) == {Items(n)[x] : x \in DOMAIN Items(n)}
AllItems == UNION {UNION {ItemsOfNotice(n) : n \in Told(t)} : t \in Topic}

\* A list of items that is as long as its notice's; one of a trigger has no other item.
IsList(items) ==
    /\ items \in Seq(AllItems)
    /\ (\E x \in DOMAIN items : HoldsTriggers(items[x].key)) => Len(items) = 1

\* A notice becomes such a list.
LEMMA ItemsFacts ==
  ASSUME NEW t \in Topic, NEW n \in Told(t)
  PROVE  IsList(Items(n))
<1>1. ItemsOfNotice(n) \subseteq AllItems
  BY DEF AllItems
<1>2. ASSUME NEW i, Items(n) = <<i>>
      PROVE  IsList(Items(n))
  <2>1. i \in ItemsOfNotice(n)
    BY <1>2 DEF ItemsOfNotice
  <2> QED
    BY <1>1, <1>2, <2>1 DEF IsList
<1>3. CASE n.kind = "boom"
  <2>1. n.body \in Seq({n.body[x] : x \in DOMAIN n.body})
    BY <1>3, NoticeAssumption
  <2>2. Items(n) = [x \in DOMAIN n.body |-> BoomItem(n.body[x])]
    BY <1>3 DEF Items
  <2>3. Len(n.body) \in Nat /\ DOMAIN n.body = 1 .. Len(n.body)
    BY <2>1
  <2>4. \A x \in 1 .. Len(n.body) : Items(n)[x] \in AllItems
    BY <1>1, <2>2, <2>3 DEF ItemsOfNotice
  <2>5. Items(n) \in Seq(AllItems)
    BY <2>2, <2>3, <2>4
  <2>6. \A x \in DOMAIN Items(n) : ~ HoldsTriggers(Items(n)[x].key)
    <3>1. \A b : BoomItem(b).key[1] = "boom_alerts"
      BY DEF BoomItem
    <3> QED
      BY <2>2, <3>1 DEF HoldsTriggers
  <2> QED
    BY <2>5, <2>6 DEF IsList
<1>4. CASE n.kind # "boom"
  <2>1. n.kind \in {"grb", "frb", "neutrino", "lvk"}
    BY <1>4, NoticeAssumption
  <2>2. \E i : Items(n) = <<i>>
    BY <1>4, <2>1 DEF Items
  <2> QED
    BY <1>2, <2>2
<1> QED
  BY <1>3, <1>4

\* The MOC of such an item is of the item's trigger.
LEMMA MocOfItem ==
  ASSUME NEW i \in AllItems, HoldsTriggers(i.key)
  PROVE  i.moc = IF HasCanonicalMoc(i.doc) THEN {i.doc} ELSE {}
<1>1. PICK t, n, x : /\ t \in Topic /\ n \in Told(t)
                   /\ x \in DOMAIN Items(n) /\ i = Items(n)[x]
  BY DEF AllItems, ItemsOfNotice
<1>2. ASSUME NEW c, NEW d, Items(n) = << Item(c, d) >>
      PROVE  i.moc = IF HasCanonicalMoc(i.doc) THEN {i.doc} ELSE {}
  <2>1. i = Item(c, d)
    BY <1>1, <1>2
  <2> QED
    BY <2>1 DEF Item
<1>3. CASE n.kind = "grb"
  BY <1>2, <1>3 DEF Items, GrbItem
<1>4. CASE n.kind = "frb"
  BY <1>2, <1>4 DEF Items, FrbItem
<1>5. CASE n.kind = "neutrino"
  BY <1>2, <1>5 DEF Items, NeutrinoItem
<1>6. CASE n.kind = "boom"
  <2>1. Items(n) = [y \in DOMAIN n.body |-> BoomItem(n.body[y])]
    BY <1>6 DEF Items
  <2>2. \A b : BoomItem(b).key[1] = "boom_alerts"
    BY DEF BoomItem
  <2> QED
    BY <1>1, <2>1, <2>2 DEF HoldsTriggers
<1>7. CASE n.kind = "lvk"
  <2>1. i = LvkItem(n.body)
    BY <1>1, <1>7 DEF Items
  <2> QED
    BY <2>1 DEF LvkItem, HoldsTriggers
<1> QED
  BY <1>1, <1>3, <1>4, <1>5, <1>6, <1>7, NoticeAssumption

\* With the instruments apart, no other item's MOC takes the place of a trigger's.
LEMMA MocKeysApart ==
  ASSUME InstrumentsApart, NEW i \in AllItems, NEW j \in AllItems, HoldsTriggers(i.key),
         j.moc # {}, MocKey(i.key) = MocKey(j.key)
  PROVE  i.key = j.key
<1>1. PICK s, m, x : /\ s \in Topic /\ m \in Told(s)
                   /\ x \in DOMAIN Items(m) /\ i = Items(m)[x]
  BY DEF AllItems, ItemsOfNotice
<1>2. PICK t, n, y : /\ t \in Topic /\ n \in Told(t)
                   /\ y \in DOMAIN Items(n) /\ j = Items(n)[y]
  BY DEF AllItems, ItemsOfNotice
<1> QED
  BY <1>1, <1>2 DEF InstrumentsApart

-------------------------------------------------------------------------------
(* Documents and their MOCs: the inductive invariant *)

\* The record in the consumer's hands, as items.
Hand == ItemsOf(job["consumer"].topic, job["consumer"].record)

\* What an actor has still to store are items, and there is one when it is about it.
JobIn(a) ==
    /\ job[a].at = "idle" => job[a] = Idle
    /\ IsList(job[a].todo)
    /\ job[a].at \in {"document", "match"} => job[a].todo # <<>>

\* The record in hand is one of the log, and what is still to be stored is of it.
HandIn ==
    job["consumer"].at # "idle" =>
        /\ job["consumer"].topic \in Topic
        /\ job["consumer"].record \in 1 .. Len(log[job["consumer"].topic])
        /\ log[job["consumer"].topic][job["consumer"].record] # {}
        /\ KeysOf(job["consumer"].todo) \subseteq KeysOf(Hand)

RequestsIn == \A r \in requests : \E t \in Topic : r \in Posts[t]

DocsIn == DOMAIN docs \subseteq {i.key : i \in AllItems}

\* All this comes from what is polled and posted.
JInv == (\A a \in Actor : JobIn(a)) /\ HandIn /\ RequestsIn /\ DocsIn

HasMocOf(k, trigger) == MocKey(k) \in DOMAIN mocs /\ mocs[MocKey(k)] = trigger

\* An actor about to store a document has stored its MOC, which nobody has overwritten.
MocIn(a) ==
    job[a].at = "document" =>
        LET item == Head(job[a].todo) IN
        HoldsTriggers(item.key) /\ item.key \notin mixed /\ HasCanonicalMoc(item.doc) =>
            HasMocOf(item.key, item.doc)

\* Somebody is between the MOC of k and its document.
Between(k) == \E a \in Actor : job[a].at = "document" /\ Head(job[a].todo).key = k

\* The consumer has stored the document of k from the record in hand.
Done(k) ==
    /\ k \in KeysOf(Hand)
    /\ \/ job["consumer"].at = "match"
       \/ job["consumer"].at = "next" /\ job["consumer"].todo = <<>>

\* A document has its MOC, unless somebody is about it or a crash came between the two and
\* the record has not been stored anew.
PairIn(k) ==
    HoldsTriggers(k) /\ k \notin mixed /\ HasCanonicalMoc(docs[k]) =>
        HasMocOf(k, docs[k]) \/ Between(k) \/ (k \in torn /\ ~ Done(k))

MInv == (\A a \in Actor : MocIn(a)) /\ (\A k \in DOMAIN docs : PairIn(k))

LEMMA MInit == Init => JInv /\ MInv
<1> SUFFICES ASSUME Init  PROVE JInv /\ MInv
  OBVIOUS
<1>1. \A a \in Actor : job[a].at = "idle" /\ job[a] = Idle /\ job[a].todo = <<>>
  BY DEF Init, Idle
<1>2. IsList(<<>>)
  BY DEF IsList
<1>3. \A a \in Actor : JobIn(a) /\ MocIn(a)
  BY <1>1, <1>2 DEF JobIn, MocIn
<1>4. HandIn
  BY <1>1 DEF HandIn, Actor
<1>5. RequestsIn
  BY FeedAssumption DEF Init, RequestsIn
<1>6. DOMAIN docs = {}
  BY DEF Init
<1> QED
  BY <1>3, <1>4, <1>5, <1>6 DEF JInv, MInv, DocsIn

\* The record in hand is a notice's, and one of a trigger has one key.
LEMMA HandFacts ==
  ASSUME LogsOK, HandIn, job["consumer"].at # "idle"
  PROVE  /\ IsList(Hand)
         /\ \A k \in KeysOf(Hand) : HoldsTriggers(k) => KeysOf(Hand) = {k}
<1> DEFINE t == job["consumer"].topic
<1> DEFINE i == job["consumer"].record
<1>1. /\ t \in Topic /\ i \in 1 .. Len(log[t]) /\ log[t][i] # {}
      /\ log[t] \in Seq(Records(t))
  BY DEF HandIn, LogsOK
<1>2. log[t][i] \in Records(t)
  BY <1>1
<1>3. NoticeOf(t, i) \in log[t][i]
  BY <1>1 DEF NoticeOf
<1>4. NoticeOf(t, i) \in Told(t)
  BY <1>2, <1>3 DEF Records, Told
<1>5. Hand = Items(NoticeOf(t, i))
  BY <1>1 DEF Hand, ItemsOf, Decodable
<1>6. IsList(Hand)
  BY <1>1, <1>4, <1>5, ItemsFacts
<1>7. ASSUME NEW k \in KeysOf(Hand), HoldsTriggers(k)
      PROVE  KeysOf(Hand) = {k}
  <2>1. PICK x \in DOMAIN Hand : Hand[x].key = k
    BY <1>7 DEF KeysOf
  <2>2. DOMAIN Hand = 1 .. 1
    BY <1>6, <1>7, <2>1 DEF IsList
  <2> QED
    BY <2>1, <2>2 DEF KeysOf
<1> QED
  BY <1>6, <1>7

-------------------------------------------------------------------------------
(* What is in hand: the steps *)

\* A log is only added to.
Longer ==
    \A t \in Topic : /\ Len(log[t]) <= Len(log'[t])
                     /\ \A i \in 1 .. Len(log[t]) : log'[t][i] = log[t][i]

\* The record in hand stays what it is.
LEMMA HandStays ==
  ASSUME LogsOK, LogsOK', HandIn, Longer, job["consumer"].at # "idle",
         job'["consumer"].topic = job["consumer"].topic,
         job'["consumer"].record = job["consumer"].record
  PROVE  /\ Hand' = Hand
         /\ job'["consumer"].topic \in Topic
         /\ job'["consumer"].record \in 1 .. Len(log'[job'["consumer"].topic])
         /\ log'[job'["consumer"].topic][job'["consumer"].record] # {}
<1> DEFINE t == job["consumer"].topic
<1> DEFINE i == job["consumer"].record
<1>1. t \in Topic /\ i \in 1 .. Len(log[t]) /\ log[t][i] # {}
  BY DEF HandIn
<1>2. Len(log[t]) \in Nat /\ Len(log'[t]) \in Nat
  BY <1>1 DEF LogsOK
<1>3. i \in 1 .. Len(log'[t]) /\ log'[t][i] = log[t][i]
  BY <1>1, <1>2 DEF Longer
<1>4. Hand' = Hand
  BY <1>1, <1>3 DEF Hand, ItemsOf, Decodable, NoticeOf
<1> QED
  BY <1>1, <1>3, <1>4

\* What is left of a list after its first item; nothing, of a trigger's.
LEMMA ListFacts ==
  ASSUME NEW items, IsList(items), items # <<>>
  PROVE  /\ Head(items) \in AllItems /\ Head(items).key \in KeysOf(items)
         /\ IsList(Tail(items)) /\ KeysOf(Tail(items)) \subseteq KeysOf(items)
         /\ \E x \in DOMAIN items : items[x].key = Head(items).key
         /\ HoldsTriggers(Head(items).key) => Tail(items) = <<>>
<1>1. items \in Seq(AllItems) /\ Len(items) \in Nat \ {0} /\ DOMAIN items = 1 .. Len(items)
  BY DEF IsList
<1>2. Head(items) = items[1] /\ 1 \in DOMAIN items /\ Head(items) \in AllItems
  BY <1>1
<1>3. /\ Tail(items) \in Seq(AllItems) /\ Len(Tail(items)) = Len(items) - 1
      /\ DOMAIN Tail(items) = 1 .. Len(items) - 1
      /\ \A x \in DOMAIN Tail(items) : x + 1 \in DOMAIN items /\ Tail(items)[x] = items[x + 1]
  BY <1>1
<1>4. KeysOf(Tail(items)) \subseteq KeysOf(items)
  BY <1>3 DEF KeysOf
<1>5. HoldsTriggers(Head(items).key) => Len(items) = 1
  BY <1>2 DEF IsList
<1>6. Len(items) = 1 => Tail(items) = <<>>
  BY <1>1, <1>3
<1>7. IsList(Tail(items))
  <2>1. (\E x \in DOMAIN Tail(items) : HoldsTriggers(Tail(items)[x].key)) => Len(items) = 1
    BY <1>3 DEF IsList
  <2> QED
    BY <1>3, <2>1 DEF IsList
<1>8. Head(items).key \in KeysOf(items)
  BY <1>2 DEF KeysOf
<1> QED
  BY <1>2, <1>4, <1>5, <1>6, <1>7, <1>8

\* Nothing at all is a list too.
LEMMA EmptyList == IsList(<<>>) /\ KeysOf(<<>>) = {}
  BY DEF IsList, KeysOf

\* An actor takes a step, the other stays.
Turn(a, j) == job'[a] = j /\ \A b \in Actor : b # a => job'[b] = job[b]

\* It goes on with the same record.
Onward(a, at, todo) ==
    \E j : /\ Turn(a, j) /\ j.at = at /\ j.todo = todo /\ j.grb = job[a].grb
           /\ j.topic = job[a].topic /\ j.record = job[a].record

LEMMA ProceedOnward ==
  ASSUME JobOK, NEW a \in Actor, NEW at, NEW todo, NEW found, Proceed(a, at, todo, found)
  PROVE  Onward(a, at, todo)
<1> DEFINE next == [at |-> at, topic |-> job[a].topic, record |-> job[a].record,
                    grb |-> job[a].grb, todo |-> todo, superevents |-> found]
<1>1. job' = [job EXCEPT ![a] = next] /\ job = [b \in Actor |-> job[b]]
  BY DEF Proceed, JobOK
<1>2. Turn(a, next)
  BY <1>1 DEF Turn
<1>3. /\ next.at = at /\ next.todo = todo /\ next.topic = job[a].topic
      /\ next.record = job[a].record /\ next.grb = job[a].grb
  OBVIOUS
<1> HIDE DEF next
<1> QED
  BY <1>2, <1>3 DEF Onward

\* The handlers' steps before the last, with what is left to do after each.
LEMMA HandlerOnward ==
  ASSUME JobOK, JInv, NEW a \in Actor,
         StoreMoc(a) \/ StoreDocument(a) \/ (a = "consumer" /\ (Match \/ FindFails \/ AllMatched))
  PROVE  \E at, todo :
           /\ Onward(a, at, todo) /\ job[a].at # "idle" /\ at # "idle"
           /\ IsList(todo) /\ KeysOf(todo) \subseteq KeysOf(job[a].todo)
           /\ at \in {"document", "match"} => todo # <<>>
<1> DEFINE Goal(at, todo) ==
             /\ Onward(a, at, todo) /\ job[a].at # "idle" /\ at # "idle"
             /\ IsList(todo) /\ KeysOf(todo) \subseteq KeysOf(job[a].todo)
             /\ at \in {"document", "match"} => todo # <<>>
<1>1. IsList(job[a].todo) /\ (job[a].at \in {"document", "match"} => job[a].todo # <<>>)
  BY DEF JInv, JobIn
<1>2. CASE StoreMoc(a)
  <2>1. job[a].at = "next" /\ job[a].todo # <<>> /\ Proceed(a, "document", job[a].todo, {})
    BY <1>2 DEF StoreMoc
  <2>2. Goal("document", job[a].todo)
    BY <1>1, <2>1, ProceedOnward
  <2> QED
    BY <2>2
<1>3. CASE StoreDocument(a)
  <2>1. job[a].at = "document"
    BY <1>3 DEF StoreDocument
  <2>2. PICK at, todo, found : /\ Proceed(a, at, todo, found)
                               /\ \/ at = "match" /\ todo = job[a].todo
                                  \/ at = "next" /\ todo = Tail(job[a].todo)
    BY <1>3 DEF StoreDocument
  <2>3. Goal(at, todo)
    BY <1>1, <2>1, <2>2, ProceedOnward, ListFacts
  <2> QED
    BY <2>3
<1>4. CASE a = "consumer" /\ Match
  <2>1. PICK s : Proceed(a, "match", job[a].todo, job[a].superevents \ {s})
    BY <1>4 DEF Match
  <2>2. job[a].at = "match"
    BY <1>4 DEF Match
  <2>3. Goal("match", job[a].todo)
    BY <1>1, <2>1, <2>2, ProceedOnward
  <2> QED
    BY <2>3
<1>5. CASE a = "consumer" /\ (FindFails \/ AllMatched)
  <2>1. job[a].at = "match" /\ Proceed(a, "next", <<>>, {})
    BY <1>5 DEF FindFails, AllMatched
  <2>2. Goal("next", <<>>)
    BY <2>1, ProceedOnward, EmptyList
  <2> QED
    BY <2>2
<1> QED
  BY <1>2, <1>3, <1>4, <1>5

\* After such a step what is in hand is so still.
LEMMA JOnward ==
  ASSUME LogsOK, JInv, UNCHANGED <<log, upcoming, requests>>, DocsIn',
         NEW a \in Actor, NEW at, NEW todo, Onward(a, at, todo),
         job[a].at # "idle", at # "idle", IsList(todo), KeysOf(todo) \subseteq KeysOf(job[a].todo),
         at \in {"document", "match"} => todo # <<>>
  PROVE  JInv' /\ (job["consumer"].at # "idle" => Hand' = Hand)
<1> USE DEF JInv
<1>1. ASSUME NEW b \in Actor
      PROVE  JobIn(b)'
  <2>1. CASE b = a
    BY <2>1 DEF Onward, Turn, JobIn
  <2>2. CASE b # a
    BY <2>2 DEF Onward, Turn, JobIn
  <2> QED
    BY <2>1, <2>2
<1>2. LogsOK' /\ Longer
  <2>1. \A t \in Topic : Len(log[t]) \in Nat
    BY DEF LogsOK
  <2>2. log' = log /\ Longer
    BY <2>1 DEF Longer
  <2> QED
    BY <2>2 DEF LogsOK
<1>3. /\ job'["consumer"].topic = job["consumer"].topic
      /\ job'["consumer"].record = job["consumer"].record
      /\ job'["consumer"].at # "idle" <=> job["consumer"].at # "idle"
      /\ KeysOf(job'["consumer"].todo) \subseteq KeysOf(job["consumer"].todo)
  BY DEF Onward, Turn, Actor
<1>4. job["consumer"].at # "idle" => Hand' = Hand
  BY <1>2, <1>3, HandStays
<1>5. HandIn'
  BY <1>2, <1>3, <1>4, HandStays DEF HandIn
<1> QED
  BY <1>1, <1>4, <1>5 DEF RequestsIn

\* Such a step stores nothing but the document of an item.
LEMMA JHandler ==
  ASSUME LogsOK, JobOK, JInv, NEW a \in Actor,
         StoreMoc(a) \/ StoreDocument(a) \/ (a = "consumer" /\ (Match \/ FindFails \/ AllMatched))
  PROVE  JInv' /\ (job["consumer"].at # "idle" => Hand' = Hand)
<1>1. UNCHANGED <<log, upcoming, requests>>
  BY DEF StoreMoc, StoreDocument, Match, FindFails, AllMatched, broker, stores, history, bounds
<1>2. DocsIn'
  <2>1. CASE docs' = docs
    BY <2>1 DEF JInv, DocsIn
  <2>2. CASE StoreDocument(a)
    <3>1. PICK item : /\ item = Head(job[a].todo) /\ job[a].at = "document"
                      /\ docs' = Put(docs, item.key, item.doc) \/ docs' = docs
      BY <2>2 DEF StoreDocument
    <3>2. item \in AllItems
      BY <3>1, ListFacts DEF JInv, JobIn
    <3> QED
      BY <3>1, <3>2 DEF JInv, DocsIn, Put
  <2> QED
    BY <2>1, <2>2 DEF StoreMoc, Match, FindFails, AllMatched, stores
<1> QED
  BY <1>1, <1>2, HandlerOnward, JOnward

\* The broker and the loop leave it alone.
LEMMA JLoop ==
  ASSUME LogsOK, LogsOK', JInv, Longer, UNCHANGED <<job, docs, requests>>
  PROVE  JInv' /\ (job["consumer"].at # "idle" => Hand' = Hand)
<1>1. \A a \in Actor : JobIn(a)'
  BY DEF JInv, JobIn
<1>2. HandIn'
  <2> SUFFICES ASSUME job["consumer"].at # "idle"
               PROVE  /\ job["consumer"].topic \in Topic
                      /\ job["consumer"].record \in 1 .. Len(log'[job["consumer"].topic])
                      /\ log'[job["consumer"].topic][job["consumer"].record] # {}
                      /\ KeysOf(job["consumer"].todo) \subseteq KeysOf(Hand')
    BY DEF HandIn
  <2> QED
    BY HandStays DEF JInv, HandIn
<1> QED
  BY <1>1, <1>2, HandStays DEF JInv, RequestsIn, DocsIn

\* Polling a record that decodes: it is in hand, all of it.
Polled(t, i) ==
    \E j : /\ Turn("consumer", j) /\ j.at = "next" /\ j.todo = ItemsOf(t, i)
           /\ j.topic = t /\ j.record = i /\ j.grb = (NoticeOf(t, i).kind = "grb")

LEMMA PollFacts ==
  ASSUME LogsOK, OffsetsOK, JobOK, NEW t \in Topic, Poll(t), Decodable(t, position[t] + 1)
  PROVE  /\ Polled(t, position[t] + 1) /\ job["consumer"] = Idle
         /\ position[t] + 1 \in 1 .. Len(log[t])
         /\ Hand' = ItemsOf(t, position[t] + 1) /\ IsList(Hand')
         /\ Hand' = Items(NoticeOf(t, position[t] + 1)) /\ NoticeOf(t, position[t] + 1) \in Told(t)
<1> PICK i : i = position[t] + 1
  OBVIOUS
<1> DEFINE taken == [at |-> "next", topic |-> t, record |-> i, grb |-> NoticeOf(t, i).kind = "grb",
                    todo |-> ItemsOf(t, i), superevents |-> {}]
<1>1. /\ job["consumer"] = Idle /\ position[t] < End(t) /\ log' = log
      /\ job' = [job EXCEPT !["consumer"] = taken]
  BY DEF Poll, broker
<1>2. Turn("consumer", taken)
  BY <1>1 DEF JobOK, Actor, Turn
<1>3. /\ taken.at = "next" /\ taken.todo = ItemsOf(t, i) /\ taken.topic = t /\ taken.record = i
      /\ taken.grb = (NoticeOf(t, i).kind = "grb")
  OBVIOUS
<1> HIDE DEF taken
<1>4. i \in 1 .. Len(log[t]) /\ log[t][i] # {}
  <2>1. position[t] \in Nat /\ Len(log[t]) \in Nat
    BY DEF OffsetsOK, LogsOK
  <2> QED
    BY <1>1, <2>1 DEF End, Decodable
<1>5. NoticeOf(t, i) \in Told(t)
  <2>1. log[t] \in Seq(Records(t))
    BY DEF LogsOK
  <2>2. log[t][i] \in Records(t)
    BY <1>4, <2>1
  <2>3. NoticeOf(t, i) \in log[t][i]
    BY <1>4 DEF NoticeOf
  <2> QED
    BY <2>2, <2>3 DEF Records, Told
<1>6. ItemsOf(t, i) = Items(NoticeOf(t, i))
  BY <1>4 DEF ItemsOf, Decodable
<1>7. Hand' = ItemsOf(t, i)
  <2>1. job'["consumer"].topic = t /\ job'["consumer"].record = i /\ log' = log
    BY <1>1, <1>2, <1>3 DEF Turn
  <2> QED
    BY <2>1 DEF Hand, ItemsOf, Decodable, NoticeOf
<1>8. Polled(t, i)
  BY <1>2, <1>3 DEF Polled
<1> QED
  BY <1>1, <1>4, <1>5, <1>6, <1>7, <1>8, ItemsFacts

LEMMA JPoll ==
  ASSUME LogsOK, OffsetsOK, JobOK, JInv, NEW t \in Topic, Poll(t), Decodable(t, position[t] + 1)
  PROVE  JInv'
<1> USE DEF JInv
<1>1. PICK i, j : /\ i = position[t] + 1
                  /\ Turn("consumer", j) /\ j.at = "next" /\ j.todo = ItemsOf(t, i)
                  /\ j.topic = t /\ j.record = i
                  /\ i \in 1 .. Len(log[t]) /\ Hand' = ItemsOf(t, i) /\ IsList(ItemsOf(t, i))
  BY PollFacts DEF Polled
<1>2. UNCHANGED <<log, docs, requests>> /\ log[t][i] # {}
  BY <1>1 DEF Poll, Decodable, broker, stores, bounds
<1>3. \A a \in Actor : JobIn(a)'
  BY <1>1 DEF Turn, JobIn
<1>4. HandIn'
  BY <1>1, <1>2 DEF Turn, HandIn
<1> QED
  BY <1>2, <1>3, <1>4 DEF RequestsIn, DocsIn

\* An actor that is done, or gone, holds nothing.
LEMMA DropFacts ==
  ASSUME JobOK, NEW a \in Actor, job' = [job EXCEPT ![a] = Idle]
  PROVE  Turn(a, Idle) /\ Idle.at = "idle" /\ Idle.todo = <<>>
  BY DEF JobOK, Turn, Idle

LEMMA JDrop ==
  ASSUME JInv, NEW a \in Actor, Turn(a, Idle), UNCHANGED <<log, docs, requests>>
  PROVE  JInv' /\ (a # "consumer" => Hand' = Hand)
<1>1. ASSUME NEW b \in Actor
      PROVE  JobIn(b)'
  BY <1>1, EmptyList DEF JInv, JobIn, Turn, Idle
<1>2. a # "consumer" => job'["consumer"] = job["consumer"]
  BY DEF Turn, Actor
<1>3. ASSUME a # "consumer"
      PROVE  Hand' = Hand
  <2>1. job'["consumer"] = job["consumer"] /\ log' = log
    BY <1>2, <1>3
  <2> QED
    BY <2>1 DEF Hand, ItemsOf, Decodable, NoticeOf
<1>4. HandIn'
  BY <1>2, <1>3 DEF JInv, HandIn, Turn, Idle
<1> QED
  BY <1>1, <1>3, <1>4 DEF JInv, RequestsIn, DocsIn

\* A client's request is one of the notices it may be taken for.
LEMMA PostFacts ==
  ASSUME JInv, NEW r \in requests, Post(r)
  PROVE  \E t \in Topic : \E n \in Told(t) : Submit(n)
<1>1. PICK t \in Topic : r \in Posts[t]
  BY DEF JInv, RequestsIn
<1>2. NoticesOfPost(r) \subseteq Told(t)
  BY <1>1 DEF Told
<1>3. \E n \in NoticesOfPost(r) : Submit(n)
  <2>1. CASE CreateGrbTrigger(r)
    BY <2>1 DEF CreateGrbTrigger, NoticesOfPost
  <2>2. CASE CreateBoomAlert(r)
    BY <2>2 DEF CreateBoomAlert, NoticesOfPost
  <2>3. CASE CreateFrbAlert(r)
    BY <2>3 DEF CreateFrbAlert, NoticesOfPost
  <2>4. CASE CreateNeutrinoAlert(r)
    BY <2>4 DEF CreateNeutrinoAlert, NoticesOfPost
  <2>5. CASE CreateIceCubeLvkSearch(r)
    BY <2>5 DEF CreateIceCubeLvkSearch, NoticesOfPost
  <2> QED
    BY <2>1, <2>2, <2>3, <2>4, <2>5 DEF Post
<1> QED
  BY <1>1, <1>2, <1>3

LEMMA SubmitFacts ==
  ASSUME JobOK, NEW n, Submit(n)
  PROVE  \E j : Turn("api", j) /\ j.at = "next" /\ j.todo = Items(n)
<1> DEFINE taken == [at |-> "next", topic |-> "none", record |-> 0, grb |-> FALSE,
                    todo |-> Items(n), superevents |-> {}]
<1>1. Turn("api", taken)
  BY DEF Submit, JobOK, Actor, Turn
<1>2. taken.at = "next" /\ taken.todo = Items(n)
  OBVIOUS
<1> HIDE DEF taken
<1> QED
  BY <1>1, <1>2

\* gw-api takes a notice up.
LEMMA JSubmit ==
  ASSUME JobOK, JInv, NEW t \in Topic, NEW n \in Told(t), Submit(n)
  PROVE  JInv' /\ Hand' = Hand
<1> USE DEF JInv
<1>1. PICK j : Turn("api", j) /\ j.at = "next" /\ j.todo = Items(n)
  BY SubmitFacts
<1>2. UNCHANGED <<log, docs>> /\ requests' = {}
  BY DEF Submit, broker, stores
<1>3. \A a \in Actor : JobIn(a)'
  BY <1>1, ItemsFacts DEF Turn, JobIn
<1>4. job'["consumer"] = job["consumer"]
  BY <1>1 DEF Turn, Actor
<1>5. Hand' = Hand
  BY <1>2, <1>4 DEF Hand, ItemsOf, Decodable, NoticeOf
<1> QED
  BY <1>2, <1>3, <1>4, <1>5 DEF HandIn, RequestsIn, DocsIn

\* The steps of the broker and of the loop that take up no record.
LoopStep ==
    \/ \E t \in Topic : Publish(t) \/ (Poll(t) /\ ~ Decodable(t, position[t] + 1))
    \/ Start \/ AutoCommit \/ Stop \/ Close \/ UNCHANGED vars

LEMMA LoopFacts ==
  ASSUME LogsOK, LoopStep
  PROVE  Longer /\ UNCHANGED <<job, docs, mocs, torn, mixed, requests, posted>>
<1>1. \A t \in Topic : Len(log[t]) \in Nat
  BY DEF LogsOK
<1>2. log' = log => Longer
  BY <1>1 DEF Longer
<1>3. ASSUME NEW t \in Topic, Publish(t)
      PROVE  Longer /\ UNCHANGED <<job, docs, mocs, torn, mixed, requests, posted>>
  <2>1. /\ log[t] \in Seq(Records(t))
        /\ upcoming[t] \in Seq(Records(t)) /\ upcoming[t] # <<>>
        /\ log' = [log EXCEPT ![t] = Append(@, Head(upcoming[t]))]
        /\ log = [s \in Topic |-> log[s]]
    BY <1>3 DEF Publish, LogsOK
  <2>2. Longer
    BY <1>1, <2>1 DEF Longer
  <2> QED
    BY <1>3, <2>2 DEF Publish, memory, stores, history
<1>4. CASE \E t \in Topic : Poll(t) /\ ~ Decodable(t, position[t] + 1)
  BY <1>2, <1>4 DEF Poll, broker, stores, history, bounds
<1>5. CASE Start
  BY <1>2, <1>5 DEF Start, stores, history, bounds
<1>6. CASE AutoCommit \/ Close
  BY <1>2, <1>6 DEF AutoCommit, Close, memory, stores, history, bounds
<1>7. CASE Stop
  BY <1>2, <1>7 DEF Stop, broker, stores, history
<1>8. CASE UNCHANGED vars
  BY <1>2, <1>8 DEF vars, broker, stores, history, bounds
<1> QED
  BY <1>3, <1>4, <1>5, <1>6, <1>7, <1>8 DEF LoopStep

\* The ways a step can go.
LEMMA Steps ==
  ASSUME LogsOK, JInv, [Next]_vars
  PROVE  \/ LoopStep
         \/ \E t \in Topic : Poll(t) /\ Decodable(t, position[t] + 1)
         \/ \E a \in Actor : StoreMoc(a) \/ StoreDocument(a)
         \/ Match \/ FindFails \/ AllMatched
         \/ StoreOffset \/ Crash \/ Posted \/ PostCut
         \/ requests # {} /\ \E t \in Topic : \E n \in Told(t) : Submit(n)
  BY PostFacts DEF Next, Handler, Actor, LoopStep

\* What is in hand, at every step.
LEMMA JStep ==
  ASSUME LogsOK, LogsOK', OffsetsOK, JobOK, JInv, [Next]_vars
  PROVE  JInv'
<1>1. CASE LoopStep
  BY <1>1, LoopFacts, JLoop
<1>2. CASE \E t \in Topic : Poll(t) /\ Decodable(t, position[t] + 1)
  BY <1>2, JPoll
<1>3. CASE (\E a \in Actor : StoreMoc(a) \/ StoreDocument(a)) \/ Match \/ FindFails \/ AllMatched
  BY <1>3, JHandler DEF Actor
<1>4. CASE StoreOffset \/ Crash
  <2>1. job' = [job EXCEPT !["consumer"] = Idle] /\ UNCHANGED <<log, docs, requests>>
    BY <1>4 DEF StoreOffset, Crash, broker, stores
  <2> QED
    BY <2>1, DropFacts, JDrop DEF Actor
<1>5. CASE Posted \/ PostCut
  <2>1. job' = [job EXCEPT !["api"] = Idle] /\ UNCHANGED <<log, docs, requests>>
    BY <1>5 DEF Posted, PostCut, broker, stores, bounds
  <2> QED
    BY <2>1, DropFacts, JDrop DEF Actor
<1>6. CASE \E t \in Topic : \E n \in Told(t) : Submit(n)
  BY <1>6, JSubmit
<1> QED
  BY <1>1, <1>2, <1>3, <1>4, <1>5, <1>6, Steps

-------------------------------------------------------------------------------
(* Documents and their MOCs: the steps *)

\* Steps of the broker and of the loop touch no document and no MOC.
LEMMA MLoop ==
  ASSUME LogsOK, LogsOK', JInv, MInv, LoopStep
  PROVE  MInv'
<1>1. /\ UNCHANGED <<job, docs, mocs, torn, mixed>>
      /\ job["consumer"].at # "idle" => Hand' = Hand
  BY LoopFacts, JLoop
<1>2. \A a \in Actor : MocIn(a)'
  BY <1>1 DEF MInv, MocIn, HasMocOf
<1>3. ASSUME NEW k \in DOMAIN docs
      PROVE  PairIn(k)'
  <2>1. Done(k)' => Done(k)
    BY <1>1 DEF Done
  <2>2. Between(k)' <=> Between(k)
    BY <1>1 DEF Between
  <2> QED
    BY <1>1, <2>1, <2>2 DEF MInv, PairIn, HasMocOf
<1> QED
  BY <1>1, <1>2, <1>3 DEF MInv

\* Of a record just polled nothing is stored yet.
LEMMA MPoll ==
  ASSUME LogsOK, OffsetsOK, JobOK, MInv, NEW t \in Topic, Poll(t), Decodable(t, position[t] + 1)
  PROVE  MInv'
<1>1. PICK i, j : /\ job["consumer"] = Idle
                  /\ Turn("consumer", j) /\ j.at = "next" /\ j.todo = ItemsOf(t, i)
                  /\ Hand' = ItemsOf(t, i)
  BY PollFacts DEF Polled
<1>2. UNCHANGED <<docs, mocs, torn, mixed>>
  BY DEF Poll, stores, history
<1>3. \A a \in Actor : MocIn(a)'
  BY <1>1, <1>2 DEF MInv, Turn, MocIn, HasMocOf
<1>4. ASSUME NEW k \in DOMAIN docs
      PROVE  PairIn(k)'
  <2>1. ~ Done(k)'
    BY <1>1, EmptyList DEF Turn, Done
  <2>2. Between(k) => Between(k)'
    BY <1>1 DEF Between, Turn, Idle
  <2> QED
    BY <1>2, <2>1, <2>2 DEF MInv, PairIn, HasMocOf
<1> QED
  BY <1>2, <1>3, <1>4 DEF MInv

\* The MOC is stored, or not; of another trigger's MOC nothing is lost.
LEMMA MStoreMoc ==
  ASSUME InstrumentsApart, LogsOK, JobOK, JInv, MInv, NEW a \in Actor, StoreMoc(a)
  PROVE  MInv'
<1> PICK item : item = Head(job[a].todo)
  OBVIOUS
<1>1. /\ job[a].at = "next" /\ job[a].todo # <<>>
      /\ Proceed(a, "document", job[a].todo, {})
      /\ UNCHANGED <<docs, torn>>
      /\ mixed \subseteq mixed'
      /\ \/ /\ mocs' = IF item.moc = {} THEN mocs
                        ELSE Put(mocs, MocKey(item.key), CHOOSE t \in item.moc : TRUE)
            /\ Overlaps(a, item.key) => item.key \in mixed'
         \/ item.key \in mixed' /\ mocs' = mocs
  BY DEF StoreMoc
<1>2. /\ job'[a].at = "document" /\ job'[a].todo = job[a].todo
      /\ \A b \in Actor : b # a => job'[b] = job[b]
  BY <1>1, ProceedOnward DEF Onward, Turn
<1>3. /\ item \in AllItems
      /\ \E x \in DOMAIN job[a].todo : job[a].todo[x].key = item.key
  BY <1>1, ListFacts DEF JInv, JobIn
<1>4. job["consumer"].at # "idle" => Hand' = Hand
  BY JHandler
<1>5. ASSUME NEW i \in AllItems, HoldsTriggers(i.key), i.key # item.key
      PROVE  \A doc : HasMocOf(i.key, doc) => HasMocOf(i.key, doc)'
  <2>1. CASE mocs' = mocs
    BY <2>1 DEF HasMocOf
  <2>2. CASE item.moc # {} /\ mocs' = Put(mocs, MocKey(item.key), CHOOSE t \in item.moc : TRUE)
    <3>1. MocKey(i.key) # MocKey(item.key)
      BY <1>3, <1>5, <2>2, MocKeysApart
    <3> QED
      BY <2>2, <3>1 DEF HasMocOf, Put
  <2> QED
    BY <1>1, <2>1, <2>2
<1>6. MocIn(a)'
  <2> SUFFICES ASSUME HoldsTriggers(item.key), item.key \notin mixed', HasCanonicalMoc(item.doc)
               PROVE  HasMocOf(item.key, item.doc)'
    BY <1>2 DEF MocIn
  <2>1. item.moc = {item.doc}
    BY <1>3, MocOfItem
  <2>2. mocs' = Put(mocs, MocKey(item.key), item.doc)
    BY <1>1, <2>1
  <2> QED
    BY <2>2 DEF HasMocOf, Put
<1>7. ASSUME NEW b \in Actor, b # a
      PROVE  MocIn(b)'
  <2> PICK other : other = Head(job[b].todo)
    OBVIOUS
  <2> SUFFICES ASSUME job[b].at = "document", HoldsTriggers(other.key), other.key \notin mixed',
                      HasCanonicalMoc(other.doc)
               PROVE  HasMocOf(other.key, other.doc)'
    BY <1>2, <1>7 DEF MocIn
  <2>1. /\ other \in AllItems
        /\ \E x \in DOMAIN job[b].todo : job[b].todo[x].key = other.key
    BY ListFacts DEF JInv, JobIn
  <2>2. HasMocOf(other.key, other.doc)
    BY <1>1 DEF MInv, MocIn
  <2>3. CASE other.key = item.key
    <3>1. Overlaps(a, item.key)
      BY <1>7, <2>1, <2>3 DEF Overlaps
    <3>2. mocs' = mocs
      BY <1>1, <2>3, <3>1
    <3> QED
      BY <2>2, <3>2 DEF HasMocOf
  <2>4. CASE other.key # item.key
    BY <1>5, <2>1, <2>2, <2>4
  <2> QED
    BY <2>3, <2>4
<1>8. ASSUME NEW k \in DOMAIN docs
      PROVE  PairIn(k)'
  <2>1. CASE k = item.key
    BY <1>2, <2>1 DEF PairIn, Between
  <2>2. CASE k # item.key
    <3> SUFFICES ASSUME HoldsTriggers(k), k \notin mixed', HasCanonicalMoc(docs[k])
                 PROVE  HasMocOf(k, docs[k])' \/ Between(k)' \/ (k \in torn /\ ~ Done(k)')
      BY <1>1 DEF PairIn
    <3>1. PICK i \in AllItems : k = i.key
      BY DEF JInv, DocsIn
    <3>2. HasMocOf(k, docs[k]) => HasMocOf(k, docs[k])'
      BY <1>1, <1>5, <2>2, <3>1 DEF HasMocOf
    <3>3. Between(k) => Between(k)'
      BY <1>1, <1>2 DEF Between
    <3>4. Done(k)' => Done(k)
      BY <1>2, <1>4 DEF Done, Actor
    <3> QED
      BY <1>1, <3>2, <3>3, <3>4 DEF MInv, PairIn
  <2> QED
    BY <2>1, <2>2
<1> QED
  BY <1>1, <1>6, <1>7, <1>8 DEF MInv

\* The document is stored, or not: if so, after its MOC.
LEMMA MStoreDocument ==
  ASSUME LogsOK, JobOK, JInv, MInv, NEW a \in Actor, StoreDocument(a)
  PROVE  MInv'
<1> PICK item : item = Head(job[a].todo)
  OBVIOUS
<1>1. /\ job[a].at = "document"
      /\ UNCHANGED <<mocs, torn>>
      /\ mixed \subseteq mixed'
      /\ \/ docs' = Put(docs, item.key, item.doc)
         \/ item.key \in mixed' /\ docs' = docs
  BY DEF StoreDocument
<1>2. PICK at, todo, found : Proceed(a, at, todo, found) /\ at \in {"next", "match"}
  BY DEF StoreDocument
<1>3. /\ job'[a].at \in {"next", "match"}
      /\ \A b \in Actor : b # a => job'[b] = job[b]
  BY <1>2, ProceedOnward DEF Onward, Turn
<1>4. item.key \in KeysOf(job[a].todo)
  BY <1>1, ListFacts DEF JInv, JobIn
<1>5. job["consumer"].at # "idle" => Hand' = Hand
  BY JHandler
<1>6. ASSUME NEW b \in Actor
      PROVE  MocIn(b)'
  <2>1. CASE b = a
    BY <1>3, <2>1 DEF MocIn
  <2>2. CASE b # a
    BY <1>1, <1>3, <2>2 DEF MInv, MocIn, HasMocOf
  <2> QED
    BY <2>1, <2>2
<1>7. ASSUME NEW k \in DOMAIN docs'
      PROVE  PairIn(k)'
  <2> SUFFICES ASSUME HoldsTriggers(k), k \notin mixed', HasCanonicalMoc(docs'[k])
               PROVE  \/ MocKey(k) \in DOMAIN mocs /\ mocs[MocKey(k)] = docs'[k]
                      \/ Between(k)' \/ (k \in torn /\ ~ Done(k)')
    BY <1>1 DEF PairIn, HasMocOf
  <2>1. CASE k = item.key
    <3>1. docs'[k] = item.doc
      BY <1>1, <2>1 DEF Put
    <3>2. HasMocOf(item.key, item.doc)
      BY <1>1, <2>1, <3>1 DEF MInv, MocIn
    <3> QED
      BY <2>1, <3>1, <3>2 DEF HasMocOf
  <2>2. CASE k # item.key
    <3>1. k \in DOMAIN docs /\ docs'[k] = docs[k]
      BY <1>1, <2>2 DEF Put
    <3>2. Between(k) => Between(k)'
      BY <1>3, <2>2 DEF Between
    <3>3. Done(k)' => Done(k)
      <4>1. CASE a = "consumer"
        <5>1. item.key \in KeysOf(Hand) /\ Hand' = Hand
          BY <1>1, <1>4, <1>5, <4>1 DEF JInv, HandIn
        <5>2. k \notin KeysOf(Hand)
          BY <1>1, <2>2, <4>1, <5>1, HandFacts DEF JInv
        <5> QED
          BY <5>1, <5>2 DEF Done
      <4>2. CASE a # "consumer"
        <5>1. job'["consumer"] = job["consumer"]
          BY <1>3, <4>2 DEF Actor
        <5> QED
          BY <1>5, <5>1 DEF Done
      <4> QED
        BY <4>1, <4>2
    <3> QED
      BY <1>1, <3>1, <3>2, <3>3 DEF MInv, PairIn, HasMocOf
  <2> QED
    BY <2>1, <2>2
<1> QED
  BY <1>6, <1>7 DEF MInv

\* Matching comes after the document.
LEMMA MMatch ==
  ASSUME LogsOK, JobOK, JInv, MInv, Match \/ FindFails \/ AllMatched
  PROVE  MInv'
<1>1. /\ job["consumer"].at = "match"
      /\ UNCHANGED <<docs, mocs, torn>>
      /\ mixed \subseteq mixed'
  BY DEF Match, FindFails, AllMatched, stores, history
<1>2. PICK at, todo, found : Proceed("consumer", at, todo, found) /\ at \in {"next", "match"}
  BY DEF Match, FindFails, AllMatched
<1>3. /\ job'["consumer"].at \in {"next", "match"}
      /\ \A b \in Actor : b # "consumer" => job'[b] = job[b]
  BY <1>2, ProceedOnward DEF Onward, Turn, Actor
<1>4. Hand' = Hand
  BY <1>1, JHandler DEF Actor
<1>5. \A b \in Actor : MocIn(b)'
  BY <1>1, <1>3 DEF MInv, MocIn, HasMocOf
<1>6. ASSUME NEW k \in DOMAIN docs
      PROVE  PairIn(k)'
  <2>1. Between(k) => Between(k)'
    BY <1>1, <1>3 DEF Between
  <2>2. Done(k)' => Done(k)
    BY <1>1, <1>4 DEF Done
  <2> QED
    BY <1>1, <2>1, <2>2 DEF MInv, PairIn, HasMocOf
<1> QED
  BY <1>1, <1>5, <1>6 DEF MInv

\* The handler has returned: the record was stored anew, whatever a crash had torn.  A crash
\* tears what the consumer has in hand.
LEMMA MConsumerEnds ==
  ASSUME LogsOK, JobOK, JInv, MInv, StoreOffset \/ Crash
  PROVE  MInv'
<1>1. /\ job' = [job EXCEPT !["consumer"] = Idle]
      /\ UNCHANGED <<docs, mocs, mixed>>
      /\ \/ /\ job["consumer"].at = "next" /\ job["consumer"].todo = <<>>
            /\ torn' = torn \ KeysOf(Hand)
         \/ /\ torn' = torn \cup UnderWay
  BY DEF StoreOffset, Crash, Hand, stores
<1>2. Turn("consumer", Idle) /\ Idle.at = "idle"
  BY <1>1, DropFacts DEF Actor
<1>3. \A b \in Actor : MocIn(b)'
  BY <1>1, <1>2 DEF MInv, MocIn, Turn, HasMocOf
<1>4. ASSUME NEW k \in DOMAIN docs
      PROVE  PairIn(k)'
  <2>1. ~ Done(k)'
    BY <1>2 DEF Done, Turn
  <2>2. CASE /\ job["consumer"].at = "next" /\ job["consumer"].todo = <<>>
             /\ torn' = torn \ KeysOf(Hand)
    <3>1. Between(k) => Between(k)'
      BY <1>2, <2>2 DEF Between, Turn
    <3>2. ~ Done(k) => k \notin KeysOf(Hand)
      BY <2>2 DEF Done
    <3> QED
      BY <1>1, <2>1, <2>2, <3>1, <3>2 DEF MInv, PairIn, HasMocOf
  <2>3. CASE torn' = torn \cup UnderWay
    <3>1. Between(k) => Between(k)' \/ k \in torn'
      <4> SUFFICES ASSUME job["consumer"].at = "document", Head(job["consumer"].todo).key = k
                   PROVE  k \in torn'
        BY <1>2 DEF Between, Turn
      <4>1. k \in KeysOf(job["consumer"].todo)
        BY ListFacts DEF JInv, JobIn, Actor
      <4>2. k \in KeysOf(Hand) /\ job["consumer"] # Idle
        BY <1>2, <4>1 DEF JInv, HandIn
      <4> QED
        BY <2>3, <4>2 DEF UnderWay, Hand
    <3> QED
      BY <1>1, <2>1, <2>3, <3>1 DEF MInv, PairIn, HasMocOf
  <2> QED
    BY <1>1, <2>2, <2>3
<1> QED
  BY <1>1, <1>3, <1>4 DEF MInv

\* gw-api is done with a notice, or dies over it.
LEMMA MApiEnds ==
  ASSUME JobOK, JInv, MInv, Posted \/ PostCut
  PROVE  MInv'
<1>1. /\ job' = [job EXCEPT !["api"] = Idle]
      /\ UNCHANGED <<log, docs, mocs, torn, requests>>
      /\ mixed \subseteq mixed'
      /\ job["api"].at = "next" \/ KeysOf(job["api"].todo) \subseteq mixed'
  BY DEF Posted, PostCut, broker, stores, history, bounds
<1>2. Turn("api", Idle) /\ Idle.at = "idle" /\ Hand' = Hand
  BY <1>1, DropFacts, JDrop DEF Actor
<1>3. \A b \in Actor : MocIn(b)'
  BY <1>1, <1>2 DEF MInv, MocIn, Turn, HasMocOf
<1>4. ASSUME NEW k \in DOMAIN docs
      PROVE  PairIn(k)'
  <2>1. Between(k) => Between(k)' \/ k \in mixed'
    <3> SUFFICES ASSUME job["api"].at = "document", Head(job["api"].todo).key = k
                 PROVE  k \in mixed'
      BY <1>2 DEF Between, Turn
    <3>1. k \in KeysOf(job["api"].todo)
      BY ListFacts DEF JInv, JobIn, Actor
    <3> QED
      BY <1>1, <3>1
  <2>2. Done(k)' <=> Done(k)
    BY <1>2 DEF Done, Turn, Actor
  <2> QED
    BY <1>1, <2>1, <2>2 DEF MInv, PairIn, HasMocOf
<1> QED
  BY <1>1, <1>3, <1>4 DEF MInv

\* gw-api takes a notice up, of which nothing is stored yet.
LEMMA MSubmit ==
  ASSUME JobOK, JInv, MInv, NEW t \in Topic, NEW n \in Told(t), Submit(n)
  PROVE  MInv'
<1>1. PICK j : Turn("api", j) /\ j.at = "next"
  BY SubmitFacts
<1>2. /\ job["api"] = Idle /\ Idle.at = "idle" /\ UNCHANGED <<docs, mocs, torn>>
      /\ mixed \subseteq mixed'
  BY DEF Submit, stores, Idle
<1>3. \A b \in Actor : MocIn(b)'
  BY <1>1, <1>2 DEF MInv, MocIn, Turn, HasMocOf
<1>4. ASSUME NEW k \in DOMAIN docs
      PROVE  PairIn(k)'
  <2>1. Between(k) => Between(k)'
    BY <1>1, <1>2 DEF Between, Turn
  <2>2. Done(k)' <=> Done(k)
    BY <1>1, JSubmit DEF Done, Turn, Actor
  <2> QED
    BY <1>2, <2>1, <2>2 DEF MInv, PairIn, HasMocOf
<1> QED
  BY <1>2, <1>3, <1>4 DEF MInv

LEMMA MStep ==
  ASSUME InstrumentsApart, GInv, GInv', JInv, MInv, [Next]_vars
  PROVE  MInv'
  BY Steps, MLoop, MPoll, MStoreMoc, MStoreDocument, MMatch, MConsumerEnds, MApiEnds, MSubmit
  DEF GInv

\* What is in hand is an invariant of its own.
LEMMA InHandInvariant == Spec => []JInv
<1>1. GInv /\ GInv' /\ JInv /\ [Next]_vars => JInv'
  BY JStep DEF GInv
<1> QED
  BY <1>1, MInit, ConsumerInvariant, PTL DEF Spec

\* Whatever crashes and is redelivered, and whoever posts what: when nobody is at work, a
\* document of a trigger with a position and a radius has the MOC of the same notice (ingest.rs,
\* try_canonical_moc before the upsert), unless a write failed or two actors had its key at once.
THEOREM MocsBelong ==
  ASSUME InstrumentsApart
  PROVE  Spec => []MocBelongsToDocument
<1>1. MInv => MocBelongsToDocument
  <2> SUFFICES ASSUME MInv, AtRest, NEW k \in DOMAIN docs \ (mixed \cup torn), HoldsTriggers(k),
                      HasCanonicalMoc(docs[k])
               PROVE  HasMocOf(k, docs[k])
    BY DEF MocBelongsToDocument, HasMocOf
  <2>1. ~ Between(k)
    BY DEF AtRest, Between, Idle
  <2> QED
    BY <2>1 DEF MInv, PairIn
<1>2. GInv /\ GInv' /\ JInv /\ MInv /\ [Next]_vars => MInv'
  BY MStep
<1> QED
  BY <1>1, <1>2, MInit, InHandInvariant, ConsumerInvariant, PTL DEF Spec

-------------------------------------------------------------------------------
(* The newest notice: the inductive invariant *)

KeysAt(t, i) == KeysOf(ItemsOf(t, i))

PostedKeys == UNION {KeysOf(Items(n)) : n \in posted}

\* x is the last of the first p items that has key k.
LastOf(items, k, p, x) ==
    /\ x \in 1 .. p /\ items[x].key = k
    /\ \A y \in 1 .. p : items[y].key = k => y <= x

\* The document of k is this one, unless a post or a failure touched it.
Says(k, doc) == k \notin mixed \cup PostedKeys => k \in DOMAIN docs /\ docs[k] = doc

\* So many items of the record in hand have been stored, or failed.
Count ==
    Len(Hand) - Len(job["consumer"].todo) + (IF job["consumer"].at = "match" THEN 1 ELSE 0)

\* What is left to do is the end of the list.
LeftOver(todo, items) ==
    /\ Len(todo) <= Len(items)
    /\ \A y \in 1 .. Len(todo) : todo[y] = items[Len(items) - Len(todo) + y]

\* The first p items are stored: of each key the last of them.
StoredUpTo(items, p) ==
    \A k : (\E y \in 1 .. p : items[y].key = k) =>
              \E x : LastOf(items, k, p, x) /\ Says(k, items[x].doc)

\* The record in hand is stored as far as the handler has come.
HandledSoFar ==
    job["consumer"].at # "idle" =>
        /\ job["consumer"].topic \in topics
        /\ LeftOver(job["consumer"].todo, Hand)
        /\ job["consumer"].grb \/ job["consumer"].at = "match" => Len(Hand) = 1
        /\ StoredUpTo(Hand, Count)

\* The last record of the topic that was handled and has key k.
IsNewest(t, k, h) ==
    /\ h \in handled[t] /\ k \in KeysAt(t, h)
    /\ \A g \in handled[t] : k \in KeysAt(t, g) => g <= h

\* Redelivery has come past it and does not have k in hand.
Settled(t, k, h) == h <= position[t] /\ k \notin torn /\ (InHand(t) => k \notin KeysOf(Hand))

\* If so, it is what the document says.
NewestIn(t, k) ==
    \E h, x : /\ IsNewest(t, k, h) /\ LastOf(ItemsOf(t, h), k, Len(ItemsOf(t, h)), x)
              /\ Settled(t, k, h) => Says(k, ItemsOf(t, h)[x].doc)

AllNewest == \A t \in topics : \A i \in handled[t] : \A k \in KeysAt(t, i) : NewestIn(t, k)

\* Offsets that are committed or stored have been polled; and the consumer goes back only to
\* where the group has an offset, or to the beginning.
PolledIn ==
    \A t \in Topic :
        /\ committed[t] <= position[t]
        /\ proc # "down" => stored[t] <= position[t]
        /\ handled[t] \subseteq 1 .. Len(log[t])
        /\ committed[t] = NoOffset /\ OffsetReset = "latest" => CaughtUp(t)

\* gw-api stores what was posted, and that once.
PostedIn ==
    /\ KeysOf(job["api"].todo) \subseteq PostedKeys
    /\ requests = {} \/ posted = {}

TopicsIn == topics \in Subscriptions

NInv == TopicsIn /\ PolledIn /\ PostedIn /\ HandledSoFar /\ AllNewest

LEMMA NInit == Init => NInv
<1> SUFFICES ASSUME Init  PROVE NInv
  OBVIOUS
<1>1. TopicsIn /\ topics \subseteq Topic
  BY FeedAssumption DEF Init, TopicsIn
<1>2. PolledIn
  BY DEF Init, PolledIn, CaughtUp, NoOffset
<1>3. \A a \in Actor : job[a].at = "idle" /\ job[a].todo = <<>>
  BY DEF Init, Idle
<1>4. PostedIn
  BY <1>3, EmptyList DEF Init, PostedIn, Actor
<1>5. HandledSoFar
  BY <1>3 DEF HandledSoFar, Actor
<1>6. AllNewest
  BY <1>1 DEF Init, AllNewest
<1> QED
  BY <1>1, <1>2, <1>4, <1>5, <1>6 DEF NInv

-------------------------------------------------------------------------------
(* The newest notice: records, offsets and posts *)

\* Which topics are read is chosen at the start.
LEMMA TopicsStay ==
  ASSUME TopicsIn, [Next]_vars
  PROVE  TopicsIn' /\ topics' = topics /\ topics \subseteq Topic
<1> SUFFICES topics' = topics
  BY FeedAssumption DEF TopicsIn
<1>1. ASSUME NEW n, Submit(n)
      PROVE  topics' = topics
  BY <1>1 DEF Submit, broker
<1>2. CASE \E r \in requests : Post(r)
  BY <1>1, <1>2 DEF Post, CreateGrbTrigger, CreateBoomAlert, CreateFrbAlert,
                    CreateNeutrinoAlert, CreateIceCubeLvkSearch
<1>3. CASE \E t \in Topic : Publish(t) \/ Poll(t)
  BY <1>3 DEF Publish, Poll, broker
<1>4. CASE Start \/ Handler \/ AutoCommit \/ Stop \/ Close \/ Crash
  BY <1>4 DEF Start, Handler, StoreMoc, StoreDocument, Match, FindFails, AllMatched, StoreOffset,
              AutoCommit, Stop, Close, Crash, broker
<1>5. CASE StoreMoc("api") \/ StoreDocument("api") \/ Posted \/ PostCut \/ UNCHANGED vars
  BY <1>5 DEF StoreMoc, StoreDocument, Posted, PostCut, vars, broker
<1> QED
  BY <1>2, <1>3, <1>4, <1>5 DEF Next

\* A record of the log is a list, and stays the same one.
LEMMA RecordFacts ==
  ASSUME LogsOK, NEW t \in Topic, NEW i \in 1 .. Len(log[t])
  PROVE  /\ IsList(ItemsOf(t, i))
         /\ \A k \in KeysAt(t, i) :
               \E n \in UNION {Feed[t][j] : j \in DOMAIN Feed[t]} : k \in KeysOf(Items(n))
         /\ Longer => ItemsOf(t, i)' = ItemsOf(t, i)
<1>1. ASSUME Longer
      PROVE  ItemsOf(t, i)' = ItemsOf(t, i)
  <2>1. log'[t][i] = log[t][i]
    BY <1>1 DEF Longer
  <2> QED
    BY <2>1 DEF ItemsOf, Decodable, NoticeOf
<1>2. CASE log[t][i] = {}
  BY <1>1, <1>2, EmptyList DEF ItemsOf, Decodable, KeysAt
<1>3. CASE log[t][i] # {}
  <2>1. log[t] \in Seq(Records(t))
    BY DEF LogsOK
  <2>2. log[t][i] \in Records(t)
    BY <2>1
  <2>3. NoticeOf(t, i) \in log[t][i]
    BY <1>3 DEF NoticeOf
  <2>4. NoticeOf(t, i) \in UNION {Feed[t][j] : j \in DOMAIN Feed[t]}
    BY <2>2, <2>3 DEF Records
  <2>5. NoticeOf(t, i) \in Told(t)
    BY <2>4 DEF Told
  <2>6. ItemsOf(t, i) = Items(NoticeOf(t, i))
    BY <1>3 DEF ItemsOf, Decodable
  <2> QED
    BY <1>1, <2>4, <2>5, <2>6, ItemsFacts DEF KeysAt
<1> QED
  BY <1>2, <1>3

\* Two topics that are read have no key in common.
LEMMA KeysApart ==
  ASSUME TopicsApart, LogsOK, TopicsIn, NEW s \in topics, NEW t \in topics,
         NEW i \in 1 .. Len(log[s]), NEW j \in 1 .. Len(log[t]),
         NEW k \in KeysAt(s, i), k \in KeysAt(t, j)
  PROVE  s = t
<1>1. s \in Topic /\ t \in Topic
  BY FeedAssumption DEF TopicsIn
<1>2. PICK m \in UNION {Feed[s][x] : x \in DOMAIN Feed[s]} : k \in KeysOf(Items(m))
  BY <1>1, RecordFacts
<1>3. PICK n \in UNION {Feed[t][x] : x \in DOMAIN Feed[t]} : k \in KeysOf(Items(n))
  BY <1>1, RecordFacts
<1> QED
  BY <1>2, <1>3 DEF TopicsApart, TopicsIn

\* Offsets and what was polled, at every step.
LEMMA PolledStep ==
  ASSUME GInv, GInv', JInv, PolledIn, [Next]_vars
  PROVE  PolledIn'
<1> USE DEF GInv
<1>1. \A t \in Topic : /\ Len(log[t]) \in Nat /\ position[t] \in Nat /\ NoOffset < 0
                       /\ committed[t] \in Int /\ stored[t] \in Int /\ NoOffset \in Int
  BY DEF LogsOK, OffsetsOK, NoOffset
<1>2. CASE UNCHANGED <<log, committed, proc, position, stored, handled>>
  BY <1>2 DEF PolledIn, CaughtUp
<1>3. ASSUME NEW t \in Topic, Publish(t)
      PROVE  PolledIn'
  <2>1. Longer
    BY <1>3, LoopFacts DEF LoopStep
  <2>2. \A s \in Topic : 1 .. Len(log[s]) \subseteq 1 .. Len(log'[s])
    BY <1>1, <2>1 DEF Longer, LogsOK
  <2>3. UNCHANGED <<committed, proc, position, stored, handled>>
    BY <1>3 DEF Publish, memory, history
  <2> QED
    BY <2>2, <2>3 DEF PolledIn, CaughtUp
<1>4. ASSUME NEW t \in Topic, Poll(t)
      PROVE  PolledIn'
  <2>1. /\ position' = [position EXCEPT ![t] = position[t] + 1] /\ position = [s \in Topic |-> position[s]]
        /\ UNCHANGED <<log, committed, proc, stored, handled>>
    BY <1>4 DEF Poll, OffsetsOK, broker, history
  <2>2. ASSUME NEW s \in Topic
        PROVE  position[s] <= position'[s] /\ position'[s] \in Nat
    BY <1>1, <2>1
  <2> QED
    BY <1>1, <2>1, <2>2 DEF PolledIn, CaughtUp
<1>5. CASE Start
  <2>1. /\ position' = [t \in Topic |-> StartAt(t)] /\ stored' = [t \in Topic |-> NoOffset]
        /\ UNCHANGED <<log, committed, handled>>
    BY <1>5 DEF Start, history
  <2> SUFFICES ASSUME NEW t \in Topic
               PROVE  /\ committed[t] <= StartAt(t) /\ NoOffset <= StartAt(t)
                      /\ committed[t] = NoOffset /\ OffsetReset = "latest" =>
                            \A i \in handled[t] : i <= StartAt(t)
    BY <2>1 DEF PolledIn, CaughtUp
  <2>2. CASE committed[t] # NoOffset
    BY <1>1, <2>2 DEF StartAt, OffsetsOK
  <2>3. CASE committed[t] = NoOffset
    <3>1. StartAt(t) \in Nat /\ (OffsetReset = "latest" => StartAt(t) = Len(log[t]))
      BY <1>1, <2>3 DEF StartAt, End
    <3>2. handled[t] \subseteq 1 .. Len(log[t])
      BY DEF PolledIn
    <3> QED
      BY <1>1, <2>3, <3>1, <3>2
  <2> QED
    BY <2>2, <2>3
<1>6. CASE AutoCommit \/ Close
  <2>1. /\ \A t \in Topic : committed'[t] = IF stored[t] = NoOffset THEN committed[t] ELSE stored[t]
        /\ proc # "down" /\ (proc' # "down" => proc' = proc)
        /\ UNCHANGED <<log, position, stored, handled>>
    BY <1>6 DEF AutoCommit, Close, CommitStored, memory, history
  <2> QED
    BY <1>1, <2>1 DEF PolledIn, CaughtUp
<1>7. CASE Stop \/ Crash
  <2>1. proc # "down" /\ UNCHANGED <<log, committed, position, stored, handled>>
    BY <1>7 DEF Stop, Crash, broker, stores, history
  <2> QED
    BY <2>1 DEF PolledIn, CaughtUp
<1>8. CASE StoreOffset
  <2> PICK t, r : t = job["consumer"].topic /\ r = job["consumer"].record
    OBVIOUS
  <2>1. /\ handled' = [handled EXCEPT ![t] = @ \cup {r}]
        /\ stored' = [stored EXCEPT ![t] = r] \/ stored' = stored
        /\ job["consumer"].at # "idle"
        /\ UNCHANGED <<log, committed, proc, position>>
    BY <1>8 DEF StoreOffset, broker
  <2>2. t \in Topic /\ r = position[t] /\ r \in 1 .. Len(log[t])
    BY <2>1 DEF JobOK, JInv, HandIn
  <2>3. ASSUME NEW s \in Topic
        PROVE  /\ handled'[s] = handled[s] \/ (handled'[s] = handled[s] \cup {r} /\ s = t)
               /\ stored'[s] = stored[s] \/ (stored'[s] = r /\ s = t)
    BY <2>1 DEF OffsetsOK
  <2> QED
    BY <1>1, <2>1, <2>2, <2>3 DEF PolledIn, CaughtUp
<1>9. CASE \/ \E a \in Actor : StoreMoc(a) \/ StoreDocument(a)
           \/ Match \/ FindFails \/ AllMatched
           \/ (\E r \in requests : Post(r)) \/ Posted \/ PostCut
  BY <1>2, <1>9, QuietFrame
<1>10. CASE UNCHANGED vars
  BY <1>2, <1>10 DEF vars, broker, memory, history
<1> QED
  BY <1>3, <1>4, <1>5, <1>6, <1>7, <1>8, <1>9, <1>10 DEF Next, Handler, Actor

\* A step that leaves the document of k alone, unless it was posted or something failed.
Kept(k) ==
    k \notin mixed' \cup PostedKeys' =>
        /\ k \notin mixed \cup PostedKeys
        /\ k \in DOMAIN docs => k \in DOMAIN docs' /\ docs'[k] = docs[k]

LEMMA SaysKept ==
  ASSUME NEW k, Kept(k), NEW doc, Says(k, doc)
  PROVE  Says(k, doc)'
  BY DEF Says, Kept

\* What is posted stays, but for a request that comes first.
LEMMA PostedStays ==
  ASSUME NEW a \in Actor,
         \/ LoopStep \/ (\E t \in Topic : Poll(t))
         \/ StoreMoc(a) \/ StoreDocument(a) \/ Match \/ FindFails \/ AllMatched
         \/ StoreOffset \/ Crash \/ Posted \/ PostCut
  PROVE  UNCHANGED <<requests, posted>> /\ PostedKeys' = PostedKeys
<1>1. CASE LoopStep \/ (\E t \in Topic : Poll(t))
  BY <1>1 DEF LoopStep, Publish, Poll, Start, AutoCommit, Stop, Close, bounds, vars, PostedKeys
<1>2. CASE StoreMoc(a) \/ StoreDocument(a)
  BY <1>2 DEF StoreMoc, StoreDocument, PostedKeys
<1>3. CASE Match \/ FindFails \/ AllMatched \/ StoreOffset \/ Crash \/ Posted \/ PostCut
  BY <1>3 DEF Match, FindFails, AllMatched, StoreOffset, Crash, Posted, PostCut, bounds, PostedKeys
<1> QED
  BY <1>1, <1>2, <1>3

LEMMA PostedStep ==
  ASSUME GInv, JInv, PostedIn, [Next]_vars
  PROVE  PostedIn'
<1> USE DEF GInv
<1>1. ASSUME UNCHANGED <<requests, posted>>, PostedKeys' = PostedKeys,
             KeysOf(job'["api"].todo) \subseteq KeysOf(job["api"].todo)
      PROVE  PostedIn'
  BY <1>1 DEF PostedIn
<1>2. "api" \in Actor /\ "consumer" \in Actor /\ KeysOf(<<>>) = {}
  BY EmptyList DEF Actor
<1>3. CASE LoopStep
  <2>1. job' = job
    BY <1>3, LoopFacts
  <2> QED
    BY <1>1, <1>2, <1>3, <2>1, PostedStays
<1>4. ASSUME NEW t \in Topic, Poll(t), Decodable(t, position[t] + 1)
      PROVE  PostedIn'
  <2>1. job'["api"] = job["api"]
    BY <1>2, <1>4, PollFacts DEF Polled, Turn
  <2> QED
    BY <1>1, <1>2, <1>4, <2>1, PostedStays
<1>5. ASSUME NEW a \in Actor,
             StoreMoc(a) \/ StoreDocument(a) \/ (a = "consumer" /\ (Match \/ FindFails \/ AllMatched))
      PROVE  PostedIn'
  <2>1. KeysOf(job'["api"].todo) \subseteq KeysOf(job["api"].todo)
    BY <1>2, <1>5, HandlerOnward DEF Onward, Turn
  <2> QED
    BY <1>1, <1>5, <2>1, PostedStays
<1>6. CASE StoreOffset \/ Crash \/ Posted \/ PostCut
  <2>1. job'["api"] = job["api"] \/ job'["api"] = Idle
    BY <1>2, <1>6, DropFacts DEF StoreOffset, Crash, Posted, PostCut, Turn
  <2>2. KeysOf(job'["api"].todo) \subseteq KeysOf(job["api"].todo)
    BY <1>2, <2>1 DEF Idle
  <2> QED
    BY <1>1, <1>2, <1>6, <2>2, PostedStays
<1>7. ASSUME NEW n, Submit(n)
      PROVE  PostedIn'
  <2>1. posted' = {n} /\ requests' = {}
    BY <1>7 DEF Submit
  <2>2. job'["api"].todo = Items(n)
    BY <1>7, SubmitFacts DEF Turn
  <2> QED
    BY <2>1, <2>2 DEF PostedIn, PostedKeys
<1> QED
  BY <1>2, <1>3, <1>4, <1>5, <1>6, <1>7, Steps

\* Only the consumer touches a document that was not posted.
LEMMA KeptFacts ==
  ASSUME GInv, JInv, PostedIn, [Next]_vars, NEW k,
         ~ (StoreDocument("consumer") /\ k = Head(job["consumer"].todo).key)
  PROVE  Kept(k)
<1> USE DEF GInv
<1>1. ASSUME mixed \subseteq mixed', PostedKeys' = PostedKeys, docs' = docs
      PROVE  Kept(k)
  BY <1>1 DEF Kept
<1>2. "api" \in Actor /\ "consumer" \in Actor
  BY DEF Actor
<1>3. CASE LoopStep
  <2>1. UNCHANGED <<mixed, docs>>
    BY <1>3, LoopFacts
  <2> QED
    BY <1>1, <1>2, <1>3, <2>1, PostedStays
<1>4. ASSUME NEW t \in Topic, Poll(t)
      PROVE  Kept(k)
  <2>1. UNCHANGED <<mixed, docs>>
    BY <1>4 DEF Poll, stores, history
  <2> QED
    BY <1>1, <1>2, <1>4, <2>1, PostedStays
<1>5. ASSUME NEW a \in Actor, StoreMoc(a)
      PROVE  Kept(k)
  <2>1. mixed \subseteq mixed' /\ docs' = docs
    BY <1>5 DEF StoreMoc
  <2> QED
    BY <1>1, <1>5, <2>1, PostedStays
<1>6. ASSUME NEW a \in Actor, StoreDocument(a)
      PROVE  Kept(k)
  <2> PICK item : item = Head(job[a].todo)
    OBVIOUS
  <2>1. /\ mixed \subseteq mixed' /\ PostedKeys' = PostedKeys /\ job[a].at = "document"
        /\ docs' = Put(docs, item.key, item.doc) \/ docs' = docs
    BY <1>6, PostedStays DEF StoreDocument
  <2>2. CASE k # item.key \/ docs' = docs
    BY <2>1, <2>2 DEF Kept, Put
  <2>3. CASE k = item.key
    <3>1. a = "api"
      BY <1>6, <2>3 DEF Actor
    <3>2. k \in KeysOf(job["api"].todo)
      BY <1>2, <2>1, <2>3, <3>1, ListFacts DEF JInv, JobIn
    <3> QED
      BY <2>1, <3>2 DEF Kept, PostedIn
  <2> QED
    BY <2>2, <2>3
<1>7. CASE Match \/ FindFails \/ AllMatched \/ StoreOffset \/ Crash \/ Posted \/ PostCut
  <2>1. mixed \subseteq mixed' /\ docs' = docs
    BY <1>7 DEF Match, FindFails, AllMatched, StoreOffset, Crash, Posted, PostCut, stores, history
  <2> QED
    BY <1>1, <1>2, <1>7, <2>1, PostedStays
<1>8. ASSUME requests # {}, NEW n, Submit(n)
      PROVE  Kept(k)
  <2>1. posted = {} /\ mixed \subseteq mixed' /\ docs' = docs
    BY <1>8 DEF PostedIn, Submit, stores
  <2>2. PostedKeys = {}
    BY <2>1 DEF PostedKeys
  <2> QED
    BY <2>1, <2>2 DEF Kept
<1> QED
  BY <1>3, <1>4, <1>5, <1>6, <1>7, <1>8, Steps

-------------------------------------------------------------------------------
(* The newest notice: the record in hand *)

\* What was stored stays, if nobody else touches it.
LEMMA StoredKept ==
  ASSUME NEW items, NEW p, StoredUpTo(items, p), \A k : Kept(k)
  PROVE  StoredUpTo(items, p)'
  BY SaysKept DEF StoredUpTo

\* One more item is stored.
LEMMA StoredNext ==
  ASSUME NEW items, NEW p \in Nat, StoredUpTo(items, p),
         \A k : k # items[p + 1].key => Kept(k),
         Says(items[p + 1].key, items[p + 1].doc)'
  PROVE  StoredUpTo(items, p + 1)'
<1> SUFFICES ASSUME NEW k, NEW y \in 1 .. p + 1, items[y].key = k
             PROVE  \E x : LastOf(items, k, p + 1, x) /\ Says(k, items[x].doc)'
  BY DEF StoredUpTo
<1>1. CASE k = items[p + 1].key
  <2>1. LastOf(items, k, p + 1, p + 1)
    BY <1>1 DEF LastOf
  <2> QED
    BY <1>1, <2>1
<1>2. CASE k # items[p + 1].key
  <2>1. y \in 1 .. p
    BY <1>2
  <2>2. PICK x : LastOf(items, k, p, x) /\ Says(k, items[x].doc)
    BY <2>1 DEF StoredUpTo
  <2>3. LastOf(items, k, p + 1, x)
    <3>1. \A z \in 1 .. p + 1 : z \in 1 .. p \/ z = p + 1
      OBVIOUS
    <3> QED
      BY <1>2, <2>2, <3>1 DEF LastOf
  <2>4. Says(k, items[x].doc)'
    BY <1>2, <2>2, SaysKept
  <2> QED
    BY <2>3, <2>4
<1> QED
  BY <1>1, <1>2

\* A step of somebody else.
LEMMA HandledByNobody ==
  ASSUME HandledSoFar, topics' = topics, job'["consumer"] = job["consumer"],
         job["consumer"].at # "idle" => Hand' = Hand, \A k : Kept(k)
  PROVE  HandledSoFar'
<1> SUFFICES ASSUME job["consumer"].at # "idle"
             PROVE  /\ job["consumer"].topic \in topics
                    /\ LeftOver(job["consumer"].todo, Hand)
                    /\ job["consumer"].grb \/ job["consumer"].at = "match" => Len(Hand) = 1
                    /\ StoredUpTo(Hand, Count)'
  BY DEF HandledSoFar
<1>1. PICK items, p : items = Hand /\ p = Count
  OBVIOUS
<1>2. StoredUpTo(items, p)'
  BY <1>1, StoredKept DEF HandledSoFar
<1>3. Hand' = items /\ Count' = p
  BY <1>1 DEF Count
<1>4. StoredUpTo(Hand, Count)'
  BY <1>2, <1>3
<1> QED
  BY <1>4 DEF HandledSoFar

\* A record just polled is all left over.
LEMMA HandledPoll ==
  ASSUME GInv, NEW t \in topics, t \in Topic, Poll(t), Decodable(t, position[t] + 1)
  PROVE  HandledSoFar'
<1> USE DEF GInv
<1>1. PICK i, j : /\ Turn("consumer", j) /\ j.at = "next" /\ j.todo = ItemsOf(t, i)
                  /\ j.topic = t /\ j.grb = (NoticeOf(t, i).kind = "grb")
                  /\ Hand' = ItemsOf(t, i) /\ IsList(Hand') /\ Hand' = Items(NoticeOf(t, i))
  BY PollFacts DEF Polled
<1>2. topics' = topics /\ job'["consumer"] = j
  BY <1>1 DEF Poll, broker, Turn
<1>3. PICK items : items = ItemsOf(t, i) /\ IsList(items)
  BY <1>1
<1>4. Len(items) \in Nat
  BY <1>3 DEF IsList
<1>5. LeftOver(items, items)
  BY <1>4 DEF LeftOver
<1>6. j.grb => Len(items) = 1
  <2>1. j.grb => NoticeOf(t, i).kind = "grb"
    BY <1>1
  <2>2. NoticeOf(t, i).kind = "grb" => items = << GrbItem(NoticeOf(t, i).body) >>
    BY <1>1, <1>3 DEF Items
  <2>3. NoticeOf(t, i).kind = "grb" => Len(items) = 1
    BY <2>2
  <2> QED
    BY <2>1, <2>3
<1>7. Hand' = items /\ Count' = 0
  <2>1. Hand' = items /\ job'["consumer"].todo = items /\ job'["consumer"].at = "next"
    BY <1>1, <1>2, <1>3
  <2> QED
    BY <1>4, <2>1 DEF Count
<1>8. StoredUpTo(Hand, Count)'
  BY <1>7 DEF StoredUpTo
<1> QED
  BY <1>1, <1>2, <1>3, <1>5, <1>6, <1>7, <1>8 DEF HandledSoFar

\* The consumer stores a document: that of the item after those it has stored.
LEMMA HandledDocument ==
  ASSUME GInv, JInv, PostedIn, HandledSoFar, StoreDocument("consumer"), topics' = topics,
         [Next]_vars
  PROVE  HandledSoFar'
<1> USE DEF GInv
<1>1. PICK c, items, n : c = job["consumer"] /\ items = Hand /\ n = Len(items) - Len(c.todo)
  OBVIOUS
<1>2. PICK item : item = Head(c.todo)
  OBVIOUS
<1>3. c.at = "document" /\ "consumer" \in Actor
  BY <1>1 DEF StoreDocument, Actor
<1>4. /\ c.topic \in topics /\ LeftOver(c.todo, items) /\ StoredUpTo(items, n)
      /\ c.grb => Len(items) = 1
  <2>1. Count = n /\ n \in Int
    <3>1. Len(items) \in Nat /\ Len(c.todo) \in Nat
      BY <1>1, <1>3, HandFacts DEF JInv, JobIn, IsList
    <3> QED
      BY <1>1, <1>3, <3>1 DEF Count
  <2> QED
    BY <1>1, <1>3, <2>1 DEF HandledSoFar
<1>5. /\ c.todo \in Seq(AllItems) /\ c.todo # <<>> /\ items \in Seq(AllItems)
      /\ Hand' = items
  BY <1>1, <1>3, HandFacts, JHandler DEF JInv, JobIn, IsList
<1>6. /\ Len(c.todo) \in Nat /\ Len(c.todo) >= 1 /\ Len(items) \in Nat /\ n \in Nat
      /\ item = items[n + 1]
  <2>1. Len(c.todo) \in Nat /\ Len(c.todo) >= 1 /\ Len(items) \in Nat /\ item = c.todo[1]
    BY <1>2, <1>5
  <2>2. 1 \in 1 .. Len(c.todo)
    BY <2>1
  <2>3. c.todo[1] = items[Len(items) - Len(c.todo) + 1] /\ Len(c.todo) <= Len(items)
    BY <1>4, <2>2 DEF LeftOver
  <2> QED
    BY <1>1, <2>1, <2>3
<1>7. Says(item.key, item.doc)'
  <2>1. docs' = Put(docs, item.key, item.doc) \/ item.key \in mixed'
    BY <1>1, <1>2 DEF StoreDocument
  <2> QED
    BY <2>1 DEF Says, Put
<1>8. \A k : k # items[n + 1].key => Kept(k)
  BY <1>1, <1>2, <1>6, KeptFacts
<1>9. StoredUpTo(items, n + 1)'
  BY <1>4, <1>6, <1>7, <1>8, StoredNext
<1>10. PICK at, todo : /\ Onward("consumer", at, todo)
                       /\ \/ at = "match" /\ todo = c.todo /\ c.grb
                          \/ at = "next" /\ todo = Tail(c.todo)
  BY <1>1, <1>3, ProceedOnward DEF StoreDocument
<1>11. /\ job'["consumer"].at = at /\ job'["consumer"].todo = todo
       /\ job'["consumer"].topic = c.topic /\ job'["consumer"].grb = c.grb
  BY <1>1, <1>10 DEF Onward, Turn
<1>12. LeftOver(todo, items) /\ Len(todo) \in Nat
       /\ n + 1 = Len(items) - Len(todo) + (IF at = "match" THEN 1 ELSE 0)
  <2>1. CASE at = "match" /\ todo = c.todo
    BY <1>1, <1>4, <1>6, <2>1
  <2>2. CASE at = "next" /\ todo = Tail(c.todo)
    <3>1. /\ Len(todo) = Len(c.todo) - 1
          /\ \A y \in 1 .. Len(todo) : y + 1 \in 1 .. Len(c.todo) /\ todo[y] = c.todo[y + 1]
      BY <1>5, <1>6, <2>2
    <3>2. \A y \in 1 .. Len(todo) :
             Len(items) - Len(c.todo) + (y + 1) = Len(items) - Len(todo) + y
      BY <1>6, <3>1
    <3>3. \A y \in 1 .. Len(todo) : todo[y] = items[Len(items) - Len(todo) + y]
      BY <1>4, <3>1, <3>2 DEF LeftOver
    <3>4. Len(c.todo) <= Len(items)
      BY <1>4 DEF LeftOver
    <3>5. Len(todo) \in Nat /\ Len(todo) <= Len(items) /\ n + 1 = Len(items) - Len(todo)
      BY <1>1, <1>6, <3>1, <3>4
    <3>6. LeftOver(todo, items)
      BY <3>3, <3>5 DEF LeftOver
    <3>7. at # "match"
      BY <2>2
    <3> QED
      BY <3>5, <3>6, <3>7
  <2> QED
    BY <1>10, <2>1, <2>2
<1>13. Count' = n + 1
  BY <1>5, <1>11, <1>12 DEF Count
<1>14. StoredUpTo(Hand, Count)'
  BY <1>5, <1>9, <1>13
<1> QED
  BY <1>4, <1>5, <1>10, <1>11, <1>12, <1>14 DEF HandledSoFar

\* The other steps of the handler before the last store no document.
LEMMA HandledMeanwhile ==
  ASSUME GInv, JInv, PostedIn, HandledSoFar, topics' = topics, [Next]_vars,
         StoreMoc("consumer") \/ Match \/ FindFails \/ AllMatched
  PROVE  HandledSoFar'
<1> USE DEF GInv
<1>1. PICK c, items, p : c = job["consumer"] /\ items = Hand /\ p = Count
  OBVIOUS
<1>2. /\ "consumer" \in Actor
      /\ c.at \in {"next", "match"} /\ c.todo # <<>>
  <2>1. CASE StoreMoc("consumer")
    BY <1>1, <2>1 DEF StoreMoc, Actor
  <2>2. CASE Match \/ FindFails \/ AllMatched
    BY <1>1, <2>2 DEF Match, FindFails, AllMatched, Actor, JInv, JobIn
  <2> QED
    BY <2>1, <2>2
<1>3. /\ c.topic \in topics /\ LeftOver(c.todo, items) /\ StoredUpTo(items, p)
      /\ c.grb \/ c.at = "match" => Len(items) = 1
  BY <1>1, <1>2 DEF HandledSoFar
<1>4. /\ Len(c.todo) \in Nat /\ Len(c.todo) >= 1 /\ Len(items) \in Nat /\ Hand' = items
  BY <1>1, <1>2, HandFacts, JHandler DEF JInv, JobIn, IsList
<1>5. \A k : Kept(k)
  <2>1. ~ StoreDocument("consumer") \/ docs' = docs
    BY DEF StoreMoc, Match, FindFails, AllMatched, stores
  <2>2. job["consumer"].at # "document"
    BY <1>1, <1>2
  <2> QED
    BY <2>2, KeptFacts DEF StoreDocument
<1>6. StoredUpTo(items, p)'
  BY <1>3, <1>5, StoredKept
<1>7. PICK at, todo : /\ Onward("consumer", at, todo)
                      /\ \/ at = "document" /\ c.at = "next" /\ todo = c.todo
                         \/ at = "match" /\ c.at = "match" /\ todo = c.todo
                         \/ at = "next" /\ c.at = "match" /\ todo = <<>>
  <2>1. CASE StoreMoc("consumer")
    BY <1>1, <1>2, <2>1, ProceedOnward DEF StoreMoc
  <2>2. CASE Match
    BY <1>1, <1>2, <2>2, ProceedOnward DEF Match
  <2>3. CASE FindFails \/ AllMatched
    BY <1>1, <1>2, <2>3, ProceedOnward DEF FindFails, AllMatched
  <2> QED
    BY <2>1, <2>2, <2>3
<1>8. /\ job'["consumer"].at = at /\ job'["consumer"].todo = todo
      /\ job'["consumer"].topic = c.topic /\ job'["consumer"].grb = c.grb
  BY <1>1, <1>7 DEF Onward, Turn
<1>9. LeftOver(todo, items) /\ Count' = p
  <2>1. CASE todo = c.todo
    BY <1>1, <1>3, <1>4, <1>7, <1>8, <2>1 DEF Count
  <2>2. CASE at = "next" /\ c.at = "match" /\ todo = <<>>
    <3>1. Len(items) = 1 /\ Len(c.todo) = 1
      <4>1. Len(items) = 1 /\ Len(c.todo) <= Len(items)
        BY <1>3, <2>2 DEF LeftOver
      <4>2. \A m \in Nat : m >= 1 /\ m <= 1 => m = 1
        OBVIOUS
      <4> QED
        BY <1>4, <4>1, <4>2
    <3>2. p = 1 /\ Count' = 1
      BY <1>1, <1>4, <1>8, <2>2, <3>1 DEF Count
    <3> QED
      BY <2>2, <3>1, <3>2 DEF LeftOver
  <2> QED
    BY <1>7, <2>1, <2>2
<1>10. StoredUpTo(Hand, Count)'
  BY <1>4, <1>6, <1>9
<1> QED
  BY <1>3, <1>4, <1>7, <1>8, <1>9, <1>10 DEF HandledSoFar

\* Storing a document shows in what the consumer is doing.
LEMMA DocumentShows ==
  ASSUME JobOK, StoreDocument("consumer")
  PROVE  job["consumer"].at = "document" /\ job'["consumer"].at \in {"next", "match"}
<1>1. PICK at, todo, found : Proceed("consumer", at, todo, found) /\ at \in {"next", "match"}
  BY DEF StoreDocument
<1> QED
  BY <1>1, ProceedOnward DEF StoreDocument, Onward, Turn, Actor

\* The record in hand, at every step.
LEMMA HandledStep ==
  ASSUME GInv, GInv', JInv, TopicsIn, PostedIn, HandledSoFar, [Next]_vars
  PROVE  HandledSoFar'
<1> USE DEF GInv
<1>1. topics' = topics /\ "api" \in Actor /\ "consumer" \in Actor
  BY TopicsStay DEF Actor
<1>2. ASSUME job'["consumer"] = job["consumer"], job["consumer"].at # "idle" => Hand' = Hand
      PROVE  HandledSoFar'
  <2>1. \A k : Kept(k)
    BY <1>2, DocumentShows, KeptFacts
  <2> QED
    BY <1>1, <1>2, <2>1, HandledByNobody
<1>3. CASE LoopStep
  BY <1>2, <1>3, LoopFacts, JLoop
<1>4. ASSUME NEW t \in Topic, Poll(t), Decodable(t, position[t] + 1)
      PROVE  HandledSoFar'
  <2>1. t \in topics
    BY <1>4 DEF Poll
  <2> QED
    BY <1>4, <2>1, HandledPoll
<1>5. CASE StoreDocument("consumer")
  BY <1>1, <1>5, HandledDocument
<1>6. CASE StoreMoc("consumer") \/ Match \/ FindFails \/ AllMatched
  BY <1>1, <1>6, HandledMeanwhile
<1>7. CASE StoreMoc("api") \/ StoreDocument("api")
  <2>1. job'["consumer"] = job["consumer"]
    BY <1>1, <1>7, HandlerOnward DEF Onward, Turn
  <2> QED
    BY <1>1, <1>2, <1>7, <2>1, JHandler
<1>8. CASE StoreOffset \/ Crash
  <2>1. job'["consumer"] = Idle /\ Idle.at = "idle"
    BY <1>1, <1>8, DropFacts DEF StoreOffset, Crash, Turn
  <2> QED
    BY <2>1 DEF HandledSoFar
<1>9. CASE Posted \/ PostCut
  <2>1. job' = [job EXCEPT !["api"] = Idle] /\ UNCHANGED <<log, docs, requests>>
    BY <1>9 DEF Posted, PostCut, broker, stores, bounds
  <2>2. Turn("api", Idle)
    BY <1>1, <2>1, DropFacts
  <2>3. job'["consumer"] = job["consumer"] /\ Hand' = Hand
    BY <1>1, <2>1, <2>2, JDrop DEF Turn
  <2> QED
    BY <1>2, <2>3
<1>10. ASSUME NEW t \in Topic, NEW n \in Told(t), Submit(n)
       PROVE  HandledSoFar'
  <2>1. job'["consumer"] = job["consumer"] /\ Hand' = Hand
    BY <1>1, <1>10, SubmitFacts, JSubmit DEF Turn
  <2> QED
    BY <1>2, <2>1
<1> QED
  BY <1>3, <1>4, <1>5, <1>6, <1>7, <1>8, <1>9, <1>10, Steps DEF Actor

-------------------------------------------------------------------------------
(* The newest notice: what was handled before *)

\* A document that stays, or becomes unsettled, still says what it said.
LEMMA NewestKept ==
  ASSUME GInv, PolledIn, Longer, NEW t \in Topic, NEW k, NewestIn(t, k), handled'[t] = handled[t],
         \A h \in handled[t] : k \in KeysAt(t, h) /\ Settled(t, k, h)' => Settled(t, k, h) /\ Kept(k)
  PROVE  NewestIn(t, k)'
<1> USE DEF GInv
<1>1. PICK h, x : /\ IsNewest(t, k, h) /\ LastOf(ItemsOf(t, h), k, Len(ItemsOf(t, h)), x)
                  /\ Settled(t, k, h) => Says(k, ItemsOf(t, h)[x].doc)
  BY DEF NewestIn
<1>2. handled[t] \subseteq 1 .. Len(log[t]) /\ h \in handled[t] /\ k \in KeysAt(t, h)
  BY <1>1 DEF PolledIn, IsNewest
<1>3. \A g \in handled[t] : ItemsOf(t, g)' = ItemsOf(t, g)
  BY <1>2, RecordFacts
<1>4. IsNewest(t, k, h)'
  BY <1>1, <1>3 DEF IsNewest, KeysAt
<1>5. PICK items : items = ItemsOf(t, h)
  OBVIOUS
<1>6. items = ItemsOf(t, h)'
  BY <1>2, <1>3, <1>5
<1>7. LastOf(ItemsOf(t, h), k, Len(ItemsOf(t, h)), x)'
  BY <1>1, <1>5, <1>6 DEF LastOf
<1>8. ASSUME Settled(t, k, h)'
      PROVE  Says(k, items[x].doc)'
  <2>1. Settled(t, k, h) /\ Kept(k)
    BY <1>2, <1>8
  <2>2. Says(k, items[x].doc)
    BY <1>1, <1>5, <2>1
  <2> QED
    BY <2>1, <2>2, SaysKept
<1>9. Settled(t, k, h)' => Says(k, ItemsOf(t, h)[x].doc)'
  BY <1>6, <1>8 DEF Says
<1> QED
  BY <1>4, <1>7, <1>9 DEF NewestIn

\* So of all documents, when no record has just been handled.
LEMMA AllKept ==
  ASSUME GInv, PolledIn, TopicsIn, AllNewest, Longer, topics' = topics, handled' = handled,
         \A t \in topics : \A h \in handled[t] : \A k \in KeysAt(t, h) :
             Settled(t, k, h)' => Settled(t, k, h) /\ Kept(k)
  PROVE  AllNewest'
<1> SUFFICES ASSUME NEW t \in topics, NEW i \in handled[t], NEW k \in KeysAt(t, i)'
             PROVE  NewestIn(t, k)'
  BY DEF AllNewest
<1>1. t \in Topic /\ i \in 1 .. Len(log[t])
  BY FeedAssumption DEF TopicsIn, PolledIn
<1>2. k \in KeysAt(t, i)
  BY <1>1, RecordFacts DEF GInv, KeysAt
<1>3. NewestIn(t, k)
  BY <1>2 DEF AllNewest
<1> QED
  BY <1>1, <1>3, NewestKept

\* The consumer begins no later than where every key was settled.
LEMMA NewestStart ==
  ASSUME GInv, PolledIn, NEW t \in Topic, NEW h \in handled[t], NEW k, Start, Settled(t, k, h)'
  PROVE  Settled(t, k, h)
<1> USE DEF GInv
<1>1. /\ proc = "down" /\ position' = [s \in Topic |-> StartAt(s)] /\ torn' = torn
  BY DEF Start, history
<1>2. ~ InHand(t)
  BY <1>1 DEF InHand, JobOK
<1>3. h \in Nat /\ h >= 1 /\ position[t] \in Nat
  BY DEF PolledIn, LogsOK, OffsetsOK
<1>4. h <= StartAt(t)
  BY <1>1 DEF Settled
<1>5. h <= position[t]
  <2>1. CASE committed[t] # NoOffset
    <3>1. StartAt(t) = committed[t] /\ committed[t] <= position[t] /\ committed[t] \in Int
      BY <2>1 DEF StartAt, PolledIn, OffsetsOK
    <3> QED
      BY <1>3, <1>4, <3>1
  <2>2. CASE committed[t] = NoOffset /\ OffsetReset = "latest"
    BY <2>2 DEF PolledIn, CaughtUp
  <2>3. CASE committed[t] = NoOffset /\ OffsetReset # "latest"
    BY <1>3, <1>4, <2>3 DEF StartAt
  <2> QED
    BY <2>1, <2>2, <2>3
<1> QED
  BY <1>1, <1>2, <1>5 DEF Settled

\* A record just polled is in hand, or has no key.
LEMMA NewestPoll ==
  ASSUME GInv, NEW s \in Topic, Poll(s), NEW t \in Topic, NEW h \in handled[t],
         h \in Nat, NEW k \in KeysAt(t, h), Settled(t, k, h)'
  PROVE  Settled(t, k, h)
<1> USE DEF GInv
<1>1. /\ position' = [position EXCEPT ![s] = position[s] + 1] /\ position = [r \in Topic |-> position[r]]
      /\ job["consumer"] = Idle /\ torn' = torn
  BY DEF Poll, history, OffsetsOK
<1>2. ~ InHand(t) /\ position[t] \in Nat /\ position[s] \in Nat
  BY <1>1 DEF InHand, Idle, OffsetsOK
<1>3. h # position[t] + 1 \/ s # t
  <2> SUFFICES ASSUME h = position[t] + 1, s = t
               PROVE  FALSE
    OBVIOUS
  <2>1. CASE Decodable(t, position[t] + 1)
    <3>1. Polled(t, h) /\ Hand' = ItemsOf(t, h)
      BY <2>1, PollFacts
    <3>2. InHand(t)'
      BY <3>1 DEF Polled, Turn, InHand
    <3> QED
      BY <3>1, <3>2 DEF Settled, KeysAt
  <2>2. CASE ~ Decodable(t, position[t] + 1)
    BY <2>2, EmptyList DEF KeysAt, ItemsOf
  <2> QED
    BY <2>1, <2>2
<1>4. h <= position[t]
  <2>1. position'[t] = IF s = t THEN position[t] + 1 ELSE position[t]
    BY <1>1
  <2>2. h <= position'[t]
    BY DEF Settled
  <2> QED
    BY <1>2, <1>3, <2>1, <2>2
<1> QED
  BY <1>1, <1>2, <1>4 DEF Settled

\* What a handler stores is in hand.
LEMMA NewestHandler ==
  ASSUME TopicsApart, GInv, JInv, PolledIn, TopicsIn, PostedIn, HandledSoFar, [Next]_vars,
         NEW a \in Actor,
         StoreMoc(a) \/ StoreDocument(a) \/ (a = "consumer" /\ (Match \/ FindFails \/ AllMatched)),
         NEW t \in topics, NEW h \in handled[t], NEW k \in KeysAt(t, h), Settled(t, k, h)'
  PROVE  Settled(t, k, h) /\ Kept(k)
<1> USE DEF GInv
<1>1. UNCHANGED <<position, torn>>
  BY DEF StoreMoc, StoreDocument, Match, FindFails, AllMatched, memory, history
<1>2. /\ InHand(t)' <=> InHand(t)
      /\ job["consumer"].at # "idle" => Hand' = Hand
  <2>1. PICK at, todo : Onward(a, at, todo) /\ job[a].at # "idle" /\ at # "idle"
    BY HandlerOnward
  <2> QED
    BY <2>1, JHandler DEF Onward, Turn, InHand, Actor
<1>3. Settled(t, k, h)
  BY <1>1, <1>2 DEF Settled, InHand
<1>4. Kept(k)
  <2> SUFFICES ASSUME StoreDocument("consumer"), k = Head(job["consumer"].todo).key
               PROVE  FALSE
    BY KeptFacts
  <2> PICK c : c = job["consumer"]
    OBVIOUS
  <2>1. c.at = "document" /\ "consumer" \in Actor
    BY DEF StoreDocument, Actor
  <2>2. k \in KeysOf(c.todo)
    BY <2>1, ListFacts DEF JInv, JobIn
  <2>3. /\ k \in KeysAt(c.topic, c.record) /\ k \in KeysOf(Hand)
        /\ c.topic \in topics /\ c.record \in 1 .. Len(log[c.topic])
    BY <2>1, <2>2 DEF JInv, HandIn, HandledSoFar, Hand, KeysAt
  <2>4. h \in 1 .. Len(log[t])
    BY FeedAssumption DEF PolledIn, TopicsIn
  <2>5. t = c.topic
    BY <2>3, <2>4, KeysApart
  <2> QED
    BY <1>3, <2>1, <2>3, <2>5 DEF Settled, InHand
<1> QED
  BY <1>3, <1>4

\* The broker and the loop touch no document, and settle none but by polling on.
LEMMA NewestLoop ==
  ASSUME GInv, GInv', JInv, PolledIn, TopicsIn, PostedIn, [Next]_vars, LoopStep,
         NEW t \in topics, NEW h \in handled[t], NEW k \in KeysAt(t, h), Settled(t, k, h)'
  PROVE  Settled(t, k, h) /\ Kept(k)
<1> USE DEF GInv
<1>1. /\ UNCHANGED <<job, torn>>
      /\ job["consumer"].at # "idle" => Hand' = Hand
  BY LoopFacts, JLoop
<1>2. Kept(k)
  BY <1>1, DocumentShows, KeptFacts
<1>3. t \in Topic /\ h \in Nat
  BY FeedAssumption DEF TopicsIn, PolledIn
<1>4. CASE position' = position
  BY <1>1, <1>2, <1>4 DEF Settled, InHand
<1>5. CASE Start
  BY <1>2, <1>3, <1>5, NewestStart
<1>6. CASE \E s \in Topic : Poll(s)
  BY <1>2, <1>3, <1>6, NewestPoll
<1>7. position' = position \/ Start \/ \E s \in Topic : Poll(s)
  BY DEF LoopStep, Publish, AutoCommit, Stop, Close, vars, memory
<1> QED
  BY <1>2, <1>4, <1>5, <1>6, <1>7

\* Nor does a crash, which settles nothing, or gw-api where it begins and ends.
LEMMA NewestEnds ==
  ASSUME GInv, GInv', JInv, TopicsIn, PostedIn, [Next]_vars,
         Crash \/ Posted \/ PostCut \/ \E s \in Topic : \E n \in Told(s) : Submit(n),
         NEW t \in topics, NEW h \in handled[t], NEW k \in KeysAt(t, h), Settled(t, k, h)'
  PROVE  Settled(t, k, h) /\ Kept(k)
<1> USE DEF GInv
<1>1. "api" \in Actor /\ "consumer" \in Actor
  BY DEF Actor
<1>2. position' = position
  BY DEF Crash, Posted, PostCut, Submit, memory
<1>3. Kept(k)
  <2>1. docs' = docs
    BY DEF Crash, Posted, PostCut, Submit, stores
  <2>2. job'["consumer"] = job["consumer"] \/ job'["consumer"].at = "idle"
    BY <1>1, DropFacts, SubmitFacts DEF Crash, Posted, PostCut, Turn
  <2> QED
    BY <2>2, DocumentShows, KeptFacts
<1>4. CASE Crash
  <2>1. torn' = torn \cup UnderWay
    BY <1>4 DEF Crash
  <2>2. InHand(t) => UnderWay = KeysOf(Hand)
    BY DEF InHand, UnderWay, Hand, Idle
  <2> QED
    BY <1>2, <1>3, <2>1, <2>2 DEF Settled
<1>5. CASE Posted \/ PostCut \/ \E s \in Topic : \E n \in Told(s) : Submit(n)
  <2>1. torn' = torn
    BY <1>5 DEF Posted, PostCut, Submit, history
  <2>2. job'["consumer"] = job["consumer"] /\ Hand' = Hand
    <3>1. CASE Posted \/ PostCut
      <4>1. job' = [job EXCEPT !["api"] = Idle] /\ UNCHANGED <<log, docs, requests>>
        BY <3>1 DEF Posted, PostCut, broker, stores, bounds
      <4>2. Turn("api", Idle)
        BY <1>1, <4>1, DropFacts
      <4> QED
        BY <1>1, <4>1, <4>2, JDrop DEF Turn
    <3>2. CASE \E s \in Topic : \E n \in Told(s) : Submit(n)
      BY <1>1, <3>2, SubmitFacts, JSubmit DEF Turn
    <3> QED
      BY <1>5, <3>1, <3>2
  <2> QED
    BY <1>2, <1>3, <2>1, <2>2 DEF Settled, InHand
<1> QED
  BY <1>4, <1>5

\* The log is only added to.
LEMMA LongerStep ==
  ASSUME LogsOK, JInv, [Next]_vars
  PROVE  Longer
<1>1. log' = log => Longer
  BY DEF LogsOK, Longer
<1>2. LoopStep \/ log' = log
  BY Steps DEF Poll, StoreMoc, StoreDocument, Match, FindFails, AllMatched, StoreOffset, Crash,
     Posted, PostCut, Submit, broker
<1> QED
  BY <1>1, <1>2, LoopFacts

\* The step that ends the handling of a record makes it the newest of its keys, unless a
\* later one had been handled before: what the document says is what it has just been given.
LEMMA NewestStored ==
  ASSUME TopicsApart, GInv, GInv', JInv, PolledIn, TopicsIn, PostedIn, HandledSoFar, AllNewest,
         topics' = topics, [Next]_vars, StoreOffset
  PROVE  AllNewest'
<1> USE DEF GInv
<1> PICK c, items, n : c = job["consumer"] /\ items = Hand /\ n = Len(items)
  OBVIOUS
<1>1. /\ c.at = "next" /\ c.todo = <<>> /\ c.topic \in Topic /\ c.topic \in topics
      /\ c.record = position[c.topic] /\ c.record \in 1 .. Len(log[c.topic])
      /\ items = ItemsOf(c.topic, c.record) /\ IsList(items)
  BY HandFacts DEF StoreOffset, JobOK, JInv, HandIn, HandledSoFar, Hand
<1>2. n \in Nat /\ StoredUpTo(items, n)
  <2>1. Len(items) \in Nat
    BY <1>1 DEF IsList
  <2>2. Count = n
    BY <1>1, <2>1 DEF Count
  <2> QED
    BY <1>1, <2>1, <2>2 DEF HandledSoFar
<1>3. /\ UNCHANGED <<position, docs, log>> /\ torn' = torn \ KeysOf(items)
      /\ handled' = [handled EXCEPT ![c.topic] = @ \cup {c.record}]
      /\ handled = [t \in Topic |-> handled[t]]
      /\ ~ InHand(c.topic)' /\ \A t : t # c.topic => ~ InHand(t) /\ ~ InHand(t)'
  <2>1. job'["consumer"].at = "idle"
    BY DropFacts DEF StoreOffset, Turn, Actor
  <2> QED
    BY <1>1, <2>1 DEF StoreOffset, broker, stores, OffsetsOK, InHand
<1>4. \A k : Kept(k)
  <2>1. ~ StoreDocument("consumer")
    BY <1>1 DEF StoreDocument
  <2> QED
    BY <2>1, KeptFacts
<1>5. \A t \in Topic : \A i : ItemsOf(t, i)' = ItemsOf(t, i)
  BY <1>3 DEF ItemsOf, Decodable, NoticeOf
<1> SUFFICES ASSUME NEW t \in topics, NEW i \in handled'[t], NEW k \in KeysAt(t, i)'
             PROVE  NewestIn(t, k)'
  BY DEF AllNewest
<1>6. /\ t \in Topic /\ k \in KeysAt(t, i)
      /\ \A g \in handled[t] : g \in 1 .. Len(log[t])
  BY <1>5, FeedAssumption DEF TopicsIn, KeysAt, PolledIn
<1>7. ASSUME t # c.topic \/ k \notin KeysOf(items)
      PROVE  NewestIn(t, k)'
  <2>1. i \in handled[t]
    BY <1>1, <1>3, <1>6, <1>7 DEF KeysAt
  <2>2. PICK h, x : /\ IsNewest(t, k, h) /\ LastOf(ItemsOf(t, h), k, Len(ItemsOf(t, h)), x)
                    /\ Settled(t, k, h) => Says(k, ItemsOf(t, h)[x].doc)
    BY <1>6, <2>1 DEF AllNewest, NewestIn
  <2>3. k \notin KeysOf(items)
    BY <1>1, <1>6, <1>7, <2>1, KeysApart DEF KeysAt
  <2>4. IsNewest(t, k, h)'
    BY <1>1, <1>3, <1>5, <1>6, <2>2, <2>3 DEF IsNewest, KeysAt
  <2>5. Settled(t, k, h)' => Settled(t, k, h)
    BY <1>1, <1>3, <2>3 DEF Settled, InHand
  <2>6. PICK list : list = ItemsOf(t, h)
    OBVIOUS
  <2>7. list = ItemsOf(t, h)'
    BY <1>5, <1>6, <2>6
  <2>8. LastOf(ItemsOf(t, h), k, Len(ItemsOf(t, h)), x)'
    BY <2>2, <2>6, <2>7 DEF LastOf
  <2>9. Settled(t, k, h)' => Says(k, list[x].doc)'
    BY <1>4, <2>2, <2>5, <2>6, SaysKept
  <2>10. Settled(t, k, h)' => Says(k, ItemsOf(t, h)[x].doc)'
    BY <2>7, <2>9 DEF Says
  <2> QED
    BY <2>4, <2>8, <2>10 DEF NewestIn
<1>8. ASSUME t = c.topic, k \in KeysOf(items)
      PROVE  NewestIn(t, k)'
  <2>1. handled'[t] = handled[t] \cup {c.record}
    BY <1>3, <1>6, <1>8
  <2>2. CASE \E g \in handled[t] : k \in KeysAt(t, g) /\ g > c.record
    <3>1. PICK g \in handled[t] : k \in KeysAt(t, g) /\ g > c.record
      BY <2>2
    <3>2. PICK h, x : /\ IsNewest(t, k, h) /\ LastOf(ItemsOf(t, h), k, Len(ItemsOf(t, h)), x)
      BY <3>1 DEF AllNewest, NewestIn
    <3>3. g <= h /\ h \in Nat /\ g \in Nat /\ c.record \in Nat /\ h \in handled[t]
      BY <1>1, <1>6, <1>8, <3>1, <3>2 DEF IsNewest
    <3>4. h > c.record
      BY <3>1, <3>3
    <3>5. IsNewest(t, k, h)'
      <4>1. \A j \in handled'[t] : k \in KeysAt(t, j) => j <= h
        BY <2>1, <3>2, <3>3, <3>4 DEF IsNewest
      <4> QED
        BY <1>5, <1>6, <2>1, <3>2, <4>1 DEF IsNewest, KeysAt
    <3>6. ~ Settled(t, k, h)'
      BY <1>1, <1>3, <1>8, <3>3, <3>4 DEF Settled
    <3>7. LastOf(ItemsOf(t, h), k, Len(ItemsOf(t, h)), x)'
      <4>1. PICK list : list = ItemsOf(t, h)
        OBVIOUS
      <4>2. list = ItemsOf(t, h)'
        BY <1>5, <1>6, <4>1
      <4> QED
        BY <3>2, <4>1, <4>2 DEF LastOf
    <3> QED
      BY <3>5, <3>6, <3>7 DEF NewestIn
  <2>3. CASE \A g \in handled[t] : k \in KeysAt(t, g) => ~ (g > c.record)
    <3>1. \A g \in handled[t] : k \in KeysAt(t, g) => g <= c.record
      <4>1. \A g \in 1 .. Len(log[t]) : ~ (g > c.record) => g <= c.record
        BY <1>1
      <4> QED
        BY <1>6, <2>3, <4>1
    <3>2. items = ItemsOf(t, c.record)'
      BY <1>1, <1>5, <1>8
    <3>3. IsNewest(t, k, c.record)'
      BY <1>1, <1>5, <1>6, <1>8, <2>1, <3>1, <3>2 DEF IsNewest, KeysAt
    <3>4. PICK y \in DOMAIN items : items[y].key = k
      BY <1>8 DEF KeysOf
    <3>5. y \in 1 .. n
      BY <1>1, <3>4 DEF IsList
    <3>6. PICK x : LastOf(items, k, n, x) /\ Says(k, items[x].doc)
      BY <1>2, <3>4, <3>5 DEF StoredUpTo
    <3>7. Says(k, items[x].doc)'
      BY <1>4, <3>6, SaysKept
    <3>8. LastOf(ItemsOf(t, c.record), k, Len(ItemsOf(t, c.record)), x)'
      BY <3>2, <3>6 DEF LastOf
    <3>9. Says(k, ItemsOf(t, c.record)[x].doc)'
      BY <3>2, <3>7 DEF Says
    <3> QED
      BY <3>3, <3>8, <3>9 DEF NewestIn
  <2> QED
    BY <2>2, <2>3
<1> QED
  BY <1>7, <1>8

LEMMA NewestStep ==
  ASSUME TopicsApart, GInv, GInv', JInv, PolledIn, TopicsIn, PostedIn, HandledSoFar, AllNewest,
         [Next]_vars
  PROVE  AllNewest'
<1>1. topics' = topics /\ Longer
  BY TopicsStay, LongerStep DEF GInv
<1>2. CASE StoreOffset
  BY <1>1, <1>2, NewestStored
<1>3. CASE ~ StoreOffset
  <2>1. handled' = handled
    BY <1>3, Steps DEF GInv, LoopStep, Publish, Start, AutoCommit, Stop, Close, vars, Poll,
       StoreMoc, StoreDocument, Match, FindFails, AllMatched, Crash, Posted, PostCut, Submit, history
  <2>2. ASSUME NEW t \in topics, NEW h \in handled[t], NEW k \in KeysAt(t, h), Settled(t, k, h)'
        PROVE  Settled(t, k, h) /\ Kept(k)
    <3>1. CASE LoopStep
      BY <2>2, <3>1, NewestLoop
    <3>2. CASE \E s \in Topic : Poll(s) /\ Decodable(s, position[s] + 1)
      <4>1. PICK s \in Topic : Poll(s)
        BY <3>2
      <4>2. h \in Nat /\ t \in Topic
        BY <2>2, FeedAssumption DEF TopicsIn, PolledIn
      <4>3. job["consumer"].at = "idle"
        BY <4>1 DEF Poll, Idle
      <4>4. Kept(k)
        BY <4>3, KeptFacts DEF StoreDocument
      <4> QED
        BY <2>2, <4>1, <4>2, <4>4, NewestPoll
    <3>3. CASE (\E a \in Actor : StoreMoc(a) \/ StoreDocument(a)) \/ Match \/ FindFails \/ AllMatched
      BY <2>2, <3>3, NewestHandler DEF Actor
    <3>4. CASE Crash \/ Posted \/ PostCut \/ \E s \in Topic : \E n \in Told(s) : Submit(n)
      BY <2>2, <3>4, NewestEnds
    <3> QED
      BY <1>3, <3>1, <3>2, <3>3, <3>4, Steps DEF GInv
  <2> QED
    BY <1>1, <2>1, <2>2, AllKept
<1> QED
  BY <1>2, <1>3

\* The parts together.
LEMMA NStep ==
  ASSUME TopicsApart, GInv, GInv', JInv, NInv, [Next]_vars
  PROVE  NInv'
  BY TopicsStay, PolledStep, PostedStep, HandledStep, NewestStep DEF NInv

\* The greatest of some numbers, if there is one.
LEMMA MaxIs ==
  ASSUME NEW S, S \subseteq Int, NEW m \in S, \A x \in S : x <= m
  PROVE  Max(S) = m
<1>1. \A x \in S : m >= x
  OBVIOUS
<1>2. \A n \in S : (\A x \in S : n >= x) => n = m
  OBVIOUS
<1> QED
  BY <1>1, <1>2 DEF Max

\* Redelivery takes documents back to older notices; but whatever crashes, and whoever posts
\* what, once the consumer has polled as far as it had ever handled, each document is that of the
\* newest notice of its key, unless it was posted to gw-api, a write of it failed, or a crash
\* cut its record short and it has not been handled anew (gcn_consumer.rs, run; ingest.rs).
THEOREM NewestKeeps ==
  ASSUME TopicsApart
  PROVE  Spec => []NewestStays
<1>1. GInv /\ NInv => NewestStays
  <2> SUFFICES ASSUME GInv, NInv, AtRest, NEW t \in topics, CaughtUp(t),
                      NEW i \in handled[t], NEW k \in KeysAt(t, i),
                      k \notin mixed \cup torn \cup PostedKeys
               PROVE  LET j == Max({h \in handled[t] : k \in KeysAt(t, h)})
                          n == Max({x \in DOMAIN ItemsOf(t, j) : ItemsOf(t, j)[x].key = k})
                      IN k \in DOMAIN docs /\ docs[k] = ItemsOf(t, j)[n].doc
    BY DEF NewestStays, KeysAt, PostedKeys
  <2> USE DEF GInv
  <2>1. PICK h, x : /\ IsNewest(t, k, h) /\ LastOf(ItemsOf(t, h), k, Len(ItemsOf(t, h)), x)
                    /\ Settled(t, k, h) => Says(k, ItemsOf(t, h)[x].doc)
    BY DEF NInv, AllNewest, NewestIn
  <2>2. t \in Topic /\ h \in handled[t] /\ handled[t] \subseteq 1 .. Len(log[t]) /\ handled[t] \subseteq Int
    BY <2>1, FeedAssumption DEF NInv, TopicsIn, PolledIn, IsNewest
  <2>3. Settled(t, k, h)
    <3>1. ~ InHand(t)
      BY DEF AtRest, Actor, Idle, InHand
    <3> QED
      BY <2>2, <3>1 DEF Settled, CaughtUp
  <2>4. k \in DOMAIN docs /\ docs[k] = ItemsOf(t, h)[x].doc
    BY <2>1, <2>3 DEF Says
  <2>5. Max({g \in handled[t] : k \in KeysAt(t, g)}) = h
    BY <2>1, <2>2, MaxIs DEF IsNewest
  <2>6. Max({y \in DOMAIN ItemsOf(t, h) : ItemsOf(t, h)[y].key = k}) = x
    <3>1. PICK items : items = ItemsOf(t, h)
      OBVIOUS
    <3>2. DOMAIN items = 1 .. Len(items) /\ Len(items) \in Nat
      BY <2>2, <3>1, RecordFacts DEF IsList
    <3>3. PICK S : S = {y \in DOMAIN items : items[y].key = k}
      OBVIOUS
    <3>4. S \subseteq Int /\ x \in S /\ \A y \in S : y <= x
      BY <2>1, <3>1, <3>2, <3>3 DEF LastOf
    <3>5. Max(S) = x
      BY <3>4, MaxIs
    <3> QED
      BY <3>1, <3>3, <3>5
  <2> QED
    BY <2>4, <2>5, <2>6
<1>2. GInv /\ GInv' /\ JInv /\ NInv /\ [Next]_vars => NInv'
  BY NStep
<1> QED
  BY <1>1, <1>2, NInit, InHandInvariant, ConsumerInvariant, PTL DEF Spec

-------------------------------------------------------------------------------
(***************************************************************************)
(* The times.  The two clocks are tied to each other, and to the tables    *)
(* and sums of the conversions, by counting days: midnight adds one to the *)
(* number of the day that the sums come to; no two dates have one number;  *)
(* and the thresholds of the leap-second table are the numbers of the days *)
(* that began after a leap second, in seconds, each late by the leap       *)
(* seconds before it.                                                      *)
(***************************************************************************)

LeapYears(y) == {z \in 1980 .. y - 1 : IsLeapYear(z)}

LeapYearsBefore(y) == Cardinality(LeapYears(y))

\* Days since 1980-01-06, as the sums of the conversion give them.
DayNumber(y, m, d) ==
    365 * (y - 1980) + LeapYearsBefore(y) - 5 + DaysBeforeMonth(m, IsLeapYear(y)) + (d - 1)

ValidDate(y, m, d) ==
    /\ y \in Nat /\ y >= 1980 /\ m \in 1 .. 12
    /\ d \in Nat /\ d >= 1 /\ d <= DaysInMonth(y, m)

\* The n-th day that began after a leap second, by its year and month and by its number.
LeapDate == <<
    <<1981, 7>>, <<1982, 7>>, <<1983, 7>>, <<1985, 7>>, <<1988, 1>>, <<1990, 1>>,
    <<1991, 1>>, <<1992, 7>>, <<1993, 7>>, <<1994, 7>>, <<1996, 1>>, <<1997, 7>>,
    <<1999, 1>>, <<2006, 1>>, <<2009, 1>>, <<2012, 7>>, <<2015, 7>>, <<2017, 1>> >>

LeapDay == << 542, 907, 1272, 2003, 2917, 3648, 4013, 4560, 4925, 5290, 5839, 6386, 6935,
              9492, 10588, 11865, 12960, 13510 >>

\* The clocks after n leap seconds.
ClocksAgree(n) ==
    LET day == DayNumber(utc.year, utc.month, utc.day) IN
    /\ gps = CivilSeconds(utc) + n
    /\ IF n = 0 THEN sinceLeap = -1
       ELSE LeapDay[n] <= day /\ sinceLeap = 86400 * (day - LeapDay[n]) + utc.sod
    /\ n < 18 => day < LeapDay[n + 1]

ClockInv ==
    /\ utc = [year |-> utc.year, month |-> utc.month, day |-> utc.day, sod |-> utc.sod]
    /\ ValidDate(utc.year, utc.month, utc.day) /\ utc.sod \in Moments
    /\ \E n \in 0 .. 18 : ClocksAgree(n)

-------------------------------------------------------------------------------
(* The calendar. *)

LEMMA MonthSums ==
    ASSUME NEW leap \in BOOLEAN
    PROVE  \E l \in {28, 29} :
             /\ l = IF leap THEN 29 ELSE 28
             /\ DaysBeforeMonth(1, leap) = 0         /\ DaysBeforeMonth(2, leap) = 31
             /\ DaysBeforeMonth(3, leap) = 31 + l    /\ DaysBeforeMonth(4, leap) = 62 + l
             /\ DaysBeforeMonth(5, leap) = 92 + l    /\ DaysBeforeMonth(6, leap) = 123 + l
             /\ DaysBeforeMonth(7, leap) = 153 + l   /\ DaysBeforeMonth(8, leap) = 184 + l
             /\ DaysBeforeMonth(9, leap) = 215 + l   /\ DaysBeforeMonth(10, leap) = 245 + l
             /\ DaysBeforeMonth(11, leap) = 276 + l  /\ DaysBeforeMonth(12, leap) = 306 + l
<1>1. PICK l \in {28, 29} : l = IF leap THEN 29 ELSE 28
  OBVIOUS
<1>2. PICK days : days = <<31, l, 31, 30, 31, 30, 31, 31, 30, 31, 30, 31>>
  OBVIOUS
<1>3. /\ days[1] = 31 /\ days[2] = l /\ days[3] = 31 /\ days[4] = 30 /\ days[5] = 31 /\ days[6] = 30
      /\ days[7] = 31 /\ days[8] = 31 /\ days[9] = 30 /\ days[10] = 31 /\ days[11] = 30 /\ days[12] = 31
  BY <1>2
<1>4. PICK total : total = <<31, 31 + l, 62 + l, 92 + l, 123 + l, 153 + l, 184 + l, 215 + l, 245 + l,
                             276 + l, 306 + l, 337 + l>>
  OBVIOUS
<1>5. /\ total[1] = 31 /\ total[2] = 31 + l /\ total[3] = 62 + l /\ total[4] = 92 + l
      /\ total[5] = 123 + l /\ total[6] = 153 + l /\ total[7] = 184 + l /\ total[8] = 215 + l
      /\ total[9] = 245 + l /\ total[10] = 276 + l /\ total[11] = 306 + l /\ total[12] = 337 + l
  BY <1>4
<1>6. PICK g : g = [n \in 0 .. 12 |-> IF n = 0 THEN 0 ELSE total[n]]
  OBVIOUS
<1>7. g = [n \in 0 .. 12 |-> IF n = 0 THEN 0 ELSE g[n - 1] + days[n]]
  <2>1. \A n \in 1 .. 12 : total[n] = g[n - 1] + days[n]
    <3> SUFFICES ASSUME NEW n \in 1 .. 12 PROVE total[n] = g[n - 1] + days[n]
      OBVIOUS
    <3>1. n \in {1, 2, 3, 4, 5, 6, 7, 8, 9, 10, 11, 12}
      OBVIOUS
    <3> QED
      BY <1>3, <1>5, <1>6, <3>1
  <2> QED
    BY <1>6, <2>1
<1>8. PICK sum : sum = CHOOSE f : f = [n \in 0 .. 12 |-> IF n = 0 THEN 0 ELSE f[n - 1] + days[n]]
  OBVIOUS
<1>9. sum = [n \in 0 .. 12 |-> IF n = 0 THEN 0 ELSE sum[n - 1] + days[n]]
  BY <1>7, <1>8
<1>10. \A n \in 1 .. 12 : sum[n] = sum[n - 1] + days[n]
  BY <1>9
<1>11. sum[0] = 0
  BY <1>9
<1>12. /\ sum[1] = 31 /\ sum[2] = 31 + l /\ sum[3] = 62 + l /\ sum[4] = 92 + l
       /\ sum[5] = 123 + l /\ sum[6] = 153 + l
  BY <1>3, <1>10, <1>11
<1>13. /\ sum[7] = 184 + l /\ sum[8] = 215 + l /\ sum[9] = 245 + l
       /\ sum[10] = 276 + l /\ sum[11] = 306 + l /\ sum[12] = 337 + l
  BY <1>3, <1>10, <1>12
<1>14. \A m \in 1 .. 12 : DaysBeforeMonth(m, leap) = sum[m - 1]
  BY <1>1, <1>2, <1>8 DEF DaysBeforeMonth
<1> QED
  BY <1>1, <1>11, <1>12, <1>13, <1>14

LEMMA LeapYearsCounted ==
    /\ LeapYearsBefore(1980) = 0
    /\ \A y \in Nat : y >= 1980 =>
         /\ LeapYearsBefore(y) \in Nat
         /\ LeapYearsBefore(y + 1) = LeapYearsBefore(y) + (IF IsLeapYear(y) THEN 1 ELSE 0)
         /\ \A z \in Nat : y <= z => LeapYearsBefore(y) <= LeapYearsBefore(z)
<1>1. LeapYearsBefore(1980) = 0
  <2>1. LeapYears(1980) = {}
    BY DEF LeapYears
  <2> QED
    BY <2>1, FS_EmptySet DEF LeapYearsBefore
<1>2. ASSUME NEW y \in Nat PROVE IsFiniteSet(LeapYears(y)) /\ LeapYearsBefore(y) \in Nat
  <2>1. IsFiniteSet(1980 .. y - 1) /\ LeapYears(y) \subseteq 1980 .. y - 1
    BY FS_Interval DEF LeapYears
  <2>2. IsFiniteSet(LeapYears(y))
    BY <2>1, FS_Subset
  <2> QED
    BY <2>2, FS_CardinalityType DEF LeapYearsBefore
<1>3. ASSUME NEW y \in Nat, y >= 1980
      PROVE  LeapYearsBefore(y + 1) = LeapYearsBefore(y) + (IF IsLeapYear(y) THEN 1 ELSE 0)
  <2>1. CASE IsLeapYear(y)
    <3>1. LeapYears(y + 1) = LeapYears(y) \cup {y} /\ y \notin LeapYears(y)
      BY <1>3, <2>1 DEF LeapYears
    <3>2. Cardinality(LeapYears(y) \cup {y}) = Cardinality(LeapYears(y)) + 1
      BY <1>2, <3>1, FS_AddElement
    <3> QED
      BY <2>1, <3>1, <3>2 DEF LeapYearsBefore
  <2>2. CASE ~ IsLeapYear(y)
    <3>1. LeapYears(y + 1) = LeapYears(y)
      BY <1>3, <2>2 DEF LeapYears
    <3> QED
      BY <1>2, <2>2, <3>1 DEF LeapYearsBefore
  <2> QED
    BY <2>1, <2>2
<1>4. ASSUME NEW y \in Nat, NEW z \in Nat, y <= z
      PROVE  LeapYearsBefore(y) <= LeapYearsBefore(z)
  <2>1. LeapYears(y) \subseteq LeapYears(z)
    BY <1>4 DEF LeapYears
  <2> QED
    BY <1>2, <2>1, FS_Subset DEF LeapYearsBefore
<1> QED
  BY <1>1, <1>2, <1>3, <1>4

\* February has its extra day in the years the conversion calls leap years.
LEMMA MonthLengths ==
    ASSUME NEW y \in Nat
    PROVE  /\ DaysInMonth(y, 2) = (IF IsLeapYear(y) THEN 29 ELSE 28)
           /\ \A m \in {4, 6, 9, 11} : DaysInMonth(y, m) = 30
           /\ \A m \in {1, 3, 5, 7, 8, 10, 12} : DaysInMonth(y, m) = 31
<1>1. y % 400 = 0 => y % 100 = 0
  OBVIOUS
<1>2. y % 100 = 0 => y % 4 = 0
  OBVIOUS
<1>3. IsLeapYear(y) <=> ~ (y % 4 # 0 \/ (y % 100 = 0 /\ y % 400 # 0))
  BY <1>1, <1>2 DEF IsLeapYear
<1> QED
  BY <1>3 DEF DaysInMonth

-------------------------------------------------------------------------------
(* Days have different numbers. *)

\* The sums of a year's months, and how a date's number lies within them.
LEMMA WithinTheYear ==
    ASSUME NEW y, NEW m, NEW d, ValidDate(y, m, d)
    PROVE  \E l \in {28, 29} : \E before \in Nat :
             /\ l = IF IsLeapYear(y) THEN 29 ELSE 28
             /\ before = DaysBeforeMonth(m, IsLeapYear(y))
             /\ before + d - 1 >= 0 /\ before + d - 1 <= 336 + l
             /\ before + d - 1 = 0 => m = 1 /\ d = 1
             /\ before + d - 1 = 153 + l => m = 7 /\ d = 1
             /\ (m < 12 => DaysBeforeMonth(m + 1, IsLeapYear(y)) = before + DaysInMonth(y, m))
             /\ (m = 12 => before + DaysInMonth(y, m) = 337 + l)
             /\ DaysInMonth(y, m) \in 28 .. 31
<1>1. y \in Nat /\ m \in 1 .. 12 /\ d \in Nat /\ d >= 1 /\ d <= DaysInMonth(y, m)
  BY DEF ValidDate
<1>2. PICK leap \in BOOLEAN : leap = IsLeapYear(y)
  BY DEF IsLeapYear
<1>3. PICK l \in {28, 29} :
             /\ l = IF leap THEN 29 ELSE 28
             /\ DaysBeforeMonth(1, leap) = 0         /\ DaysBeforeMonth(2, leap) = 31
             /\ DaysBeforeMonth(3, leap) = 31 + l    /\ DaysBeforeMonth(4, leap) = 62 + l
             /\ DaysBeforeMonth(5, leap) = 92 + l    /\ DaysBeforeMonth(6, leap) = 123 + l
             /\ DaysBeforeMonth(7, leap) = 153 + l   /\ DaysBeforeMonth(8, leap) = 184 + l
             /\ DaysBeforeMonth(9, leap) = 215 + l   /\ DaysBeforeMonth(10, leap) = 245 + l
             /\ DaysBeforeMonth(11, leap) = 276 + l  /\ DaysBeforeMonth(12, leap) = 306 + l
  BY MonthSums
<1>4. /\ DaysInMonth(y, 2) = l
      /\ \A k \in {4, 6, 9, 11} : DaysInMonth(y, k) = 30
      /\ \A k \in {1, 3, 5, 7, 8, 10, 12} : DaysInMonth(y, k) = 31
  BY <1>1, <1>2, <1>3, MonthLengths
<1>5. m \in {1, 2, 3, 4, 5, 6, 7, 8, 9, 10, 11, 12}
  BY <1>1
<1>6. PICK before : before = DaysBeforeMonth(m, leap)
  OBVIOUS
<1>7. before \in Nat /\ DaysInMonth(y, m) \in 28 .. 31
  BY <1>3, <1>4, <1>5, <1>6
<1>8. /\ before + d - 1 >= 0 /\ before + d - 1 <= 336 + l
      /\ before + d - 1 = 0 => m = 1 /\ d = 1
      /\ before + d - 1 = 153 + l => m = 7 /\ d = 1
  BY <1>1, <1>3, <1>4, <1>5, <1>6
<1>9. /\ (m < 12 => DaysBeforeMonth(m + 1, leap) = before + DaysInMonth(y, m))
      /\ (m = 12 => before + DaysInMonth(y, m) = 337 + l)
  BY <1>3, <1>4, <1>5, <1>6
<1> QED
  BY <1>2, <1>3, <1>6, <1>7, <1>8, <1>9

\* The first of January, and the day of a year counted from it.
LEMMA YearStart ==
    ASSUME NEW y \in Nat, y >= 1980
    PROVE  /\ DayNumber(y, 1, 1) = 365 * (y - 1980) + LeapYearsBefore(y) - 5
           /\ DayNumber(y, 1, 1) \in Int
           /\ \A z \in Nat : y < z =>
                DayNumber(y, 1, 1) + 365 + (IF IsLeapYear(y) THEN 1 ELSE 0) <= DayNumber(z, 1, 1)
           /\ \A z \in Nat : y < z => DayNumber(y, 1, 1) < DayNumber(z, 1, 1)
           /\ DayNumber(y + 1, 1, 1) = DayNumber(y, 1, 1) + 365 + (IF IsLeapYear(y) THEN 1 ELSE 0)
<1>1. ASSUME NEW z \in Nat PROVE DaysBeforeMonth(1, IsLeapYear(z)) = 0
  <2>1. IsLeapYear(z) \in BOOLEAN
    BY DEF IsLeapYear
  <2> QED
    BY <2>1, MonthSums
<1>2. ASSUME NEW z \in Nat, z >= 1980
      PROVE  /\ LeapYearsBefore(z) \in Nat
             /\ DayNumber(z, 1, 1) = 365 * (z - 1980) + LeapYearsBefore(z) - 5
  BY <1>1, <1>2, LeapYearsCounted DEF DayNumber
<1>3. LeapYearsBefore(y + 1) = LeapYearsBefore(y) + (IF IsLeapYear(y) THEN 1 ELSE 0)
  BY LeapYearsCounted
<1>4. DayNumber(y + 1, 1, 1) = DayNumber(y, 1, 1) + 365 + (IF IsLeapYear(y) THEN 1 ELSE 0)
  <2>1. y + 1 \in Nat /\ y + 1 >= 1980
    OBVIOUS
  <2> QED
    BY <1>2, <1>3, <2>1
<1>5. ASSUME NEW z \in Nat, y < z
      PROVE  DayNumber(y, 1, 1) + 365 + (IF IsLeapYear(y) THEN 1 ELSE 0) <= DayNumber(z, 1, 1)
  <2>1. y + 1 \in Nat /\ y + 1 >= 1980 /\ y + 1 <= z /\ z >= 1980
    BY <1>5
  <2>2. LeapYearsBefore(y + 1) <= LeapYearsBefore(z)
    BY <2>1, LeapYearsCounted
  <2>3. DayNumber(y + 1, 1, 1) <= DayNumber(z, 1, 1)
    BY <1>2, <2>1, <2>2
  <2> QED
    BY <1>4, <2>3
<1>6. ASSUME NEW z \in Nat, y < z PROVE DayNumber(y, 1, 1) < DayNumber(z, 1, 1)
  <2>1. LeapYearsBefore(y) <= LeapYearsBefore(z) /\ z >= 1980
    BY <1>6, LeapYearsCounted
  <2> QED
    BY <1>2, <1>6, <2>1
<1> QED
  BY <1>2, <1>4, <1>5, <1>6

LEMMA NumberInYear ==
    ASSUME NEW y, NEW m, NEW d, ValidDate(y, m, d)
    PROVE  /\ DayNumber(y, m, d) = DayNumber(y, 1, 1) + DaysBeforeMonth(m, IsLeapYear(y)) + d - 1
           /\ DayNumber(y, m, d) \in Int
           /\ DayNumber(y, 1, 1) <= DayNumber(y, m, d)
           /\ DayNumber(y, m, d) < DayNumber(y + 1, 1, 1)
<1>1. y \in Nat /\ y >= 1980 /\ d \in Nat
  BY DEF ValidDate
<1>2. PICK l \in {28, 29}, before \in Nat :
        /\ l = IF IsLeapYear(y) THEN 29 ELSE 28
        /\ before = DaysBeforeMonth(m, IsLeapYear(y))
        /\ before + d - 1 >= 0 /\ before + d - 1 <= 336 + l
  BY <1>1, WithinTheYear
<1>3. /\ DayNumber(y, 1, 1) = 365 * (y - 1980) + LeapYearsBefore(y) - 5
      /\ DayNumber(y, 1, 1) \in Int
      /\ DayNumber(y + 1, 1, 1) = DayNumber(y, 1, 1) + 365 + (IF IsLeapYear(y) THEN 1 ELSE 0)
  BY <1>1, YearStart
<1>4. DayNumber(y, m, d) = DayNumber(y, 1, 1) + before + d - 1
  <2>1. LeapYearsBefore(y) \in Nat
    BY <1>1, LeapYearsCounted
  <2> QED
    BY <1>1, <1>2, <1>3, <2>1 DEF DayNumber
<1>5. 336 + l < 365 + (IF IsLeapYear(y) THEN 1 ELSE 0)
  BY <1>2
<1> QED
  BY <1>1, <1>2, <1>3, <1>4, <1>5

\* A first of January or of July is the only date with its number.
LEMMA OneDate ==
    ASSUME NEW y, NEW m, NEW d, ValidDate(y, m, d),
           NEW y0 \in Nat, y0 >= 1980, NEW m0 \in {1, 7},
           DayNumber(y, m, d) = DayNumber(y0, m0, 1)
    PROVE  y = y0 /\ m = m0 /\ d = 1
<1>1. y \in Nat /\ y >= 1980 /\ d \in Nat
  BY DEF ValidDate
<1>2. ValidDate(y0, m0, 1)
  BY MonthLengths DEF ValidDate
<1>3. y = y0
  <2>1. /\ DayNumber(y, 1, 1) <= DayNumber(y, m, d) /\ DayNumber(y, m, d) < DayNumber(y + 1, 1, 1)
        /\ DayNumber(y0, 1, 1) <= DayNumber(y, m, d) /\ DayNumber(y, m, d) < DayNumber(y0 + 1, 1, 1)
        /\ DayNumber(y, m, d) \in Int
    BY <1>2, NumberInYear
  <2>2. /\ DayNumber(y, 1, 1) \in Int /\ DayNumber(y0, 1, 1) \in Int
        /\ DayNumber(y + 1, 1, 1) \in Int /\ DayNumber(y0 + 1, 1, 1) \in Int
    BY <1>1, YearStart
  <2>3. y < y0 => DayNumber(y + 1, 1, 1) <= DayNumber(y0, 1, 1)
    BY <1>1, YearStart
  <2>4. y0 < y => DayNumber(y0 + 1, 1, 1) <= DayNumber(y, 1, 1)
    BY <1>1, YearStart
  <2> QED
    BY <1>1, <2>1, <2>2, <2>3, <2>4
<1>4. DaysBeforeMonth(m, IsLeapYear(y)) + d - 1 = DaysBeforeMonth(m0, IsLeapYear(y))
  <2>1. DayNumber(y, m, d) = DayNumber(y, 1, 1) + DaysBeforeMonth(m, IsLeapYear(y)) + d - 1
    BY NumberInYear
  <2>2. DayNumber(y, m0, 1) = DayNumber(y, 1, 1) + DaysBeforeMonth(m0, IsLeapYear(y)) + 1 - 1
    BY <1>2, <1>3, NumberInYear
  <2>3. DayNumber(y, 1, 1) \in Int
    BY <1>1, YearStart
  <2>4. DaysBeforeMonth(m, IsLeapYear(y)) \in Nat /\ DaysBeforeMonth(m0, IsLeapYear(y)) \in Nat
    BY <1>2, <1>3, WithinTheYear
  <2> QED
    BY <1>1, <1>3, <2>1, <2>2, <2>3, <2>4
<1>5. PICK l \in {28, 29}, before \in Nat :
        /\ l = IF IsLeapYear(y) THEN 29 ELSE 28
        /\ before = DaysBeforeMonth(m, IsLeapYear(y))
        /\ before + d - 1 = 0 => m = 1 /\ d = 1
        /\ before + d - 1 = 153 + l => m = 7 /\ d = 1
  BY <1>1, WithinTheYear
<1>6. DaysBeforeMonth(1, IsLeapYear(y)) = 0 /\ DaysBeforeMonth(7, IsLeapYear(y)) = 153 + l
  <2>1. PICK leap \in BOOLEAN : leap = IsLeapYear(y)
    <3>1. IsLeapYear(y) \in BOOLEAN
      BY DEF IsLeapYear
    <3> QED
      BY <3>1
  <2>2. DaysBeforeMonth(1, leap) = 0 /\ DaysBeforeMonth(7, leap) = 153 + l
    BY <1>5, <2>1, MonthSums
  <2> QED
    BY <2>1, <2>2
<1> QED
  BY <1>3, <1>4, <1>5, <1>6

\* Midnight adds one.
LEMMA NextDayCounts ==
    ASSUME NEW t, ValidDate(t.year, t.month, t.day)
    PROVE  \E y, m, d :
             /\ NextDay(t) = <<y, m, d>>
             /\ ValidDate(y, m, d)
             /\ DayNumber(y, m, d) = DayNumber(t.year, t.month, t.day) + 1
<1>1. PICK y, m, d : y = t.year /\ m = t.month /\ d = t.day
  OBVIOUS
<1>2. ValidDate(y, m, d) /\ y \in Nat /\ y >= 1980 /\ m \in 1 .. 12 /\ d \in Nat /\ d >= 1
  BY <1>1 DEF ValidDate
<1>3. PICK l \in {28, 29}, before \in Nat :
        /\ l = IF IsLeapYear(y) THEN 29 ELSE 28
        /\ before = DaysBeforeMonth(m, IsLeapYear(y))
        /\ (m < 12 => DaysBeforeMonth(m + 1, IsLeapYear(y)) = before + DaysInMonth(y, m))
        /\ (m = 12 => before + DaysInMonth(y, m) = 337 + l)
        /\ DaysInMonth(y, m) \in 28 .. 31
  BY <1>2, WithinTheYear
<1>4. DayNumber(y, 1, 1) \in Int /\ DayNumber(y, m, d) = DayNumber(y, 1, 1) + before + d - 1
  BY <1>2, <1>3, YearStart, NumberInYear
<1>5. CASE d < DaysInMonth(y, m)
  <2>1. NextDay(t) = <<y, m, d + 1>>
    BY <1>1, <1>5 DEF NextDay
  <2>2. ValidDate(y, m, d + 1)
    BY <1>2, <1>3, <1>5 DEF ValidDate
  <2>3. DayNumber(y, m, d + 1) = DayNumber(y, 1, 1) + before + (d + 1) - 1
    BY <1>3, <2>2, NumberInYear
  <2>4. DayNumber(y, m, d + 1) = DayNumber(y, m, d) + 1
    BY <1>2, <1>4, <2>3
  <2> QED
    BY <1>1, <2>1, <2>2, <2>4
<1>6. CASE d = DaysInMonth(y, m) /\ m < 12
  <2>1. NextDay(t) = <<y, m + 1, 1>>
    BY <1>1, <1>2, <1>6 DEF NextDay
  <2>2. ValidDate(y, m + 1, 1)
    <3>1. m + 1 \in {2, 3, 4, 5, 6, 7, 8, 9, 10, 11, 12}
      BY <1>2, <1>6
    <3>2. DaysInMonth(y, m + 1) >= 1
      BY <1>2, <3>1, MonthLengths
    <3> QED
      BY <1>2, <3>1, <3>2 DEF ValidDate
  <2>3. DayNumber(y, m + 1, 1) = DayNumber(y, 1, 1) + (before + d) + 1 - 1
    BY <1>3, <1>6, <2>2, NumberInYear
  <2>4. DayNumber(y, m + 1, 1) = DayNumber(y, m, d) + 1
    BY <1>2, <1>4, <2>3
  <2> QED
    BY <1>1, <2>1, <2>2, <2>4
<1>7. CASE d = DaysInMonth(y, m) /\ m = 12
  <2>1. NextDay(t) = <<y + 1, 1, 1>>
    BY <1>1, <1>2, <1>7 DEF NextDay
  <2>2. ValidDate(y + 1, 1, 1)
    <3>1. y + 1 \in Nat /\ y + 1 >= 1980
      BY <1>2
    <3>2. DaysInMonth(y + 1, 1) = 31
      BY <3>1, MonthLengths
    <3> QED
      BY <3>1, <3>2 DEF ValidDate
  <2>3. DayNumber(y + 1, 1, 1) = DayNumber(y, 1, 1) + 365 + (IF IsLeapYear(y) THEN 1 ELSE 0)
    BY <1>2, YearStart
  <2>4. before + d = 365 + (IF IsLeapYear(y) THEN 1 ELSE 0)
    BY <1>3, <1>7
  <2>5. DayNumber(y + 1, 1, 1) = DayNumber(y, m, d) + 1
    BY <1>2, <1>4, <2>3, <2>4
  <2> QED
    BY <1>1, <2>1, <2>2, <2>5
<1>8. d <= DaysInMonth(y, m)
  BY <1>2 DEF ValidDate
<1> QED
  BY <1>2, <1>3, <1>5, <1>6, <1>7, <1>8

-------------------------------------------------------------------------------
(* The days of the leap seconds, and the table. *)

\* Leap years come every fourth year as far as the leap seconds go.
LEMMA FourYears ==
    ASSUME NEW y \in {1980, 1984, 1988, 1992, 1996, 2000, 2004, 2008, 2012, 2016}
    PROVE  /\ LeapYearsBefore(y + 1) = LeapYearsBefore(y) + 1
           /\ LeapYearsBefore(y + 2) = LeapYearsBefore(y) + 1
           /\ LeapYearsBefore(y + 3) = LeapYearsBefore(y) + 1
           /\ LeapYearsBefore(y + 4) = LeapYearsBefore(y) + 1
           /\ LeapYearsBefore(y) \in Nat
           /\ IsLeapYear(y) /\ ~ IsLeapYear(y + 1) /\ ~ IsLeapYear(y + 2) /\ ~ IsLeapYear(y + 3)
<1>1. IsLeapYear(y) /\ ~ IsLeapYear(y + 1) /\ ~ IsLeapYear(y + 2) /\ ~ IsLeapYear(y + 3)
  BY DEF IsLeapYear
<1>2. PICK a \in Nat, b \in Nat, c \in Nat, d \in Nat :
        /\ a = y /\ b = y + 1 /\ c = y + 2 /\ d = y + 3
        /\ a >= 1980 /\ b >= 1980 /\ c >= 1980 /\ d >= 1980
  OBVIOUS
<1>3. /\ LeapYearsBefore(a) \in Nat
      /\ LeapYearsBefore(a + 1) = LeapYearsBefore(a) + (IF IsLeapYear(a) THEN 1 ELSE 0)
      /\ LeapYearsBefore(b + 1) = LeapYearsBefore(b) + (IF IsLeapYear(b) THEN 1 ELSE 0)
      /\ LeapYearsBefore(c + 1) = LeapYearsBefore(c) + (IF IsLeapYear(c) THEN 1 ELSE 0)
      /\ LeapYearsBefore(d + 1) = LeapYearsBefore(d) + (IF IsLeapYear(d) THEN 1 ELSE 0)
  BY <1>2, LeapYearsCounted
<1>4. a + 1 = b /\ b + 1 = c /\ c + 1 = d /\ d + 1 = y + 4
  BY <1>2
<1> QED
  BY <1>1, <1>2, <1>3, <1>4

LEMMA LeapYearTable ==
    /\ LeapYearsBefore(1981) = 1 /\ LeapYearsBefore(1982) = 1 /\ LeapYearsBefore(1983) = 1
    /\ LeapYearsBefore(1985) = 2 /\ LeapYearsBefore(1988) = 2 /\ LeapYearsBefore(1990) = 3
    /\ LeapYearsBefore(1991) = 3 /\ LeapYearsBefore(1992) = 3 /\ LeapYearsBefore(1993) = 4
    /\ LeapYearsBefore(1994) = 4 /\ LeapYearsBefore(1996) = 4 /\ LeapYearsBefore(1997) = 5
    /\ LeapYearsBefore(1999) = 5 /\ LeapYearsBefore(2006) = 7 /\ LeapYearsBefore(2009) = 8
    /\ LeapYearsBefore(2012) = 8 /\ LeapYearsBefore(2015) = 9 /\ LeapYearsBefore(2017) = 10
<1>1. LeapYearsBefore(1980) = 0
  BY LeapYearsCounted
<1>2. /\ LeapYearsBefore(1981) = 1 /\ LeapYearsBefore(1982) = 1 /\ LeapYearsBefore(1983) = 1
      /\ LeapYearsBefore(1984) = 1
  BY <1>1, FourYears
<1>3. LeapYearsBefore(1985) = 2 /\ LeapYearsBefore(1988) = 2
  BY <1>2, FourYears
<1>4. LeapYearsBefore(1990) = 3 /\ LeapYearsBefore(1991) = 3 /\ LeapYearsBefore(1992) = 3
  BY <1>3, FourYears
<1>5. LeapYearsBefore(1993) = 4 /\ LeapYearsBefore(1994) = 4 /\ LeapYearsBefore(1996) = 4
  BY <1>4, FourYears
<1>6. LeapYearsBefore(1997) = 5 /\ LeapYearsBefore(1999) = 5 /\ LeapYearsBefore(2000) = 5
  BY <1>5, FourYears
<1>7. LeapYearsBefore(2004) = 6
  BY <1>6, FourYears
<1>8. LeapYearsBefore(2006) = 7 /\ LeapYearsBefore(2008) = 7
  BY <1>7, FourYears
<1>9. LeapYearsBefore(2009) = 8 /\ LeapYearsBefore(2012) = 8
  BY <1>8, FourYears
<1>10. LeapYearsBefore(2015) = 9 /\ LeapYearsBefore(2016) = 9
  BY <1>9, FourYears
<1>11. LeapYearsBefore(2017) = 10
  BY <1>10, FourYears
<1> QED
  BY <1>2, <1>3, <1>4, <1>5, <1>6, <1>8, <1>9, <1>10, <1>11

\* The numbers of the days after the leap seconds.
LEMMA LeapDayNumbers ==
    \A n \in 1 .. 18 : DayNumber(LeapDate[n][1], LeapDate[n][2], 1) = LeapDay[n]
<1>1. ASSUME NEW y \in {1988, 1990, 1991, 1996, 1999, 2006, 2009, 2017}
      PROVE  DayNumber(y, 1, 1) = 365 * (y - 1980) + LeapYearsBefore(y) - 5
  BY YearStart
<1>2. ASSUME NEW y \in {1981, 1982, 1983, 1985, 1992, 1993, 1994, 1997, 2012, 2015}
      PROVE  DayNumber(y, 7, 1) = 365 * (y - 1980) + LeapYearsBefore(y) - 5
                                    + (IF IsLeapYear(y) THEN 182 ELSE 181)
  <2>1. PICK leap \in BOOLEAN : leap = IsLeapYear(y)
    <3>1. IsLeapYear(y) \in BOOLEAN
      BY DEF IsLeapYear
    <3> QED
      BY <3>1
  <2>2. DaysBeforeMonth(7, leap) = IF leap THEN 182 ELSE 181
    BY MonthSums
  <2>3. LeapYearsBefore(y) \in Nat
    BY LeapYearsCounted
  <2> QED
    BY <2>1, <2>2, <2>3 DEF DayNumber
<1>3. /\ ~ IsLeapYear(1981) /\ ~ IsLeapYear(1982) /\ ~ IsLeapYear(1983) /\ ~ IsLeapYear(1985)
      /\ IsLeapYear(1992) /\ ~ IsLeapYear(1993) /\ ~ IsLeapYear(1994) /\ ~ IsLeapYear(1997)
      /\ IsLeapYear(2012) /\ ~ IsLeapYear(2015)
  BY DEF IsLeapYear
<1>4. /\ DayNumber(1981, 7, 1) = 542    /\ DayNumber(1982, 7, 1) = 907
      /\ DayNumber(1983, 7, 1) = 1272   /\ DayNumber(1985, 7, 1) = 2003
      /\ DayNumber(1992, 7, 1) = 4560   /\ DayNumber(1993, 7, 1) = 4925
      /\ DayNumber(1994, 7, 1) = 5290   /\ DayNumber(1997, 7, 1) = 6386
      /\ DayNumber(2012, 7, 1) = 11865  /\ DayNumber(2015, 7, 1) = 12960
  BY <1>2, <1>3, LeapYearTable
<1>5. /\ DayNumber(1988, 1, 1) = 2917   /\ DayNumber(1990, 1, 1) = 3648
      /\ DayNumber(1991, 1, 1) = 4013   /\ DayNumber(1996, 1, 1) = 5839
      /\ DayNumber(1999, 1, 1) = 6935   /\ DayNumber(2006, 1, 1) = 9492
      /\ DayNumber(2009, 1, 1) = 10588  /\ DayNumber(2017, 1, 1) = 13510
  BY <1>1, LeapYearTable
<1> SUFFICES ASSUME NEW n \in 1 .. 18
             PROVE  DayNumber(LeapDate[n][1], LeapDate[n][2], 1) = LeapDay[n]
  OBVIOUS
<1>6. n \in {1, 2, 3, 4, 5, 6, 7, 8, 9, 10, 11, 12, 13, 14, 15, 16, 17, 18}
  OBVIOUS
<1> QED
  BY <1>4, <1>5, <1>6 DEF LeapDate, LeapDay

LEMMA LeapDatesAre ==
    /\ \A n \in 1 .. 18 : LeapDate[n][1] \in Nat /\ LeapDate[n][1] >= 1980 /\ LeapDate[n][2] \in {1, 7}
    /\ \A y, m, d : <<y, m, d>> \in LeapDays <=>
         \E n \in 1 .. 18 : y = LeapDate[n][1] /\ m = LeapDate[n][2] /\ d = 1
<1>1. /\ LeapDate[1] = <<1981, 7>> /\ LeapDate[2] = <<1982, 7>> /\ LeapDate[3] = <<1983, 7>>
      /\ LeapDate[4] = <<1985, 7>> /\ LeapDate[5] = <<1988, 1>> /\ LeapDate[6] = <<1990, 1>>
      /\ LeapDate[7] = <<1991, 1>> /\ LeapDate[8] = <<1992, 7>> /\ LeapDate[9] = <<1993, 7>>
      /\ LeapDate[10] = <<1994, 7>> /\ LeapDate[11] = <<1996, 1>> /\ LeapDate[12] = <<1997, 7>>
      /\ LeapDate[13] = <<1999, 1>> /\ LeapDate[14] = <<2006, 1>> /\ LeapDate[15] = <<2009, 1>>
      /\ LeapDate[16] = <<2012, 7>> /\ LeapDate[17] = <<2015, 7>> /\ LeapDate[18] = <<2017, 1>>
  BY DEF LeapDate
<1>2. \A n : n \in 1 .. 18 <=>
        n \in {1, 2, 3, 4, 5, 6, 7, 8, 9, 10, 11, 12, 13, 14, 15, 16, 17, 18}
  OBVIOUS
<1>3. \A y, m, d : <<y, m, d>> \in LeapDays <=>
        /\ d = 1
        /\ \/ m = 7 /\ y \in {1981, 1982, 1983, 1985, 1992, 1993, 1994, 1997, 2012, 2015}
           \/ m = 1 /\ y \in {1988, 1990, 1991, 1996, 1999, 2006, 2009, 2017}
  BY DEF LeapDays
<1>4. \A n \in 1 .. 18 :
        \/ LeapDate[n][2] = 7 /\ LeapDate[n][1] \in {1981, 1982, 1983, 1985, 1992, 1993, 1994, 1997, 2012, 2015}
        \/ LeapDate[n][2] = 1 /\ LeapDate[n][1] \in {1988, 1990, 1991, 1996, 1999, 2006, 2009, 2017}
  BY <1>1, <1>2
<1>5. \A y \in {1981, 1982, 1983, 1985, 1992, 1993, 1994, 1997, 2012, 2015} :
        \E n \in 1 .. 18 : LeapDate[n][1] = y /\ LeapDate[n][2] = 7
  BY <1>1
<1>6. \A y \in {1988, 1990, 1991, 1996, 1999, 2006, 2009, 2017} :
        \E n \in 1 .. 18 : LeapDate[n][1] = y /\ LeapDate[n][2] = 1
  BY <1>1
<1>7. \A n \in 1 .. 18 : LeapDate[n][1] \in Nat /\ LeapDate[n][1] >= 1980 /\ LeapDate[n][2] \in {1, 7}
  BY <1>4
<1>8. ASSUME NEW y, NEW m, NEW d
      PROVE  <<y, m, d>> \in LeapDays <=>
               \E n \in 1 .. 18 : y = LeapDate[n][1] /\ m = LeapDate[n][2] /\ d = 1
  <2>1. ASSUME <<y, m, d>> \in LeapDays
        PROVE  \E n \in 1 .. 18 : y = LeapDate[n][1] /\ m = LeapDate[n][2] /\ d = 1
    <3>1. CASE m = 7
      BY <1>3, <1>5, <2>1, <3>1
    <3>2. CASE m # 7
      BY <1>3, <1>6, <2>1, <3>2
    <3> QED
      BY <3>1, <3>2
  <2>2. ASSUME NEW n \in 1 .. 18, y = LeapDate[n][1], m = LeapDate[n][2], d = 1
        PROVE  <<y, m, d>> \in LeapDays
    BY <1>3, <1>4, <2>2
  <2> QED
    BY <2>1, <2>2
<1> QED
  BY <1>7, <1>8

LEMMA LeapDaysInOrder ==
    /\ \A n \in 1 .. 18 : LeapDay[n] \in Nat
    /\ \A n \in 1 .. 18, k \in 1 .. 18 : n < k => LeapDay[n] < LeapDay[k]
<1>1. /\ LeapDay[1] = 542 /\ LeapDay[2] = 907 /\ LeapDay[3] = 1272 /\ LeapDay[4] = 2003
      /\ LeapDay[5] = 2917 /\ LeapDay[6] = 3648 /\ LeapDay[7] = 4013 /\ LeapDay[8] = 4560
      /\ LeapDay[9] = 4925 /\ LeapDay[10] = 5290 /\ LeapDay[11] = 5839 /\ LeapDay[12] = 6386
      /\ LeapDay[13] = 6935 /\ LeapDay[14] = 9492 /\ LeapDay[15] = 10588 /\ LeapDay[16] = 11865
      /\ LeapDay[17] = 12960 /\ LeapDay[18] = 13510
  BY DEF LeapDay
<1>2. \A n \in 1 .. 18 : n \in {1, 2, 3, 4, 5, 6, 7, 8, 9, 10, 11, 12, 13, 14, 15, 16, 17, 18}
  OBVIOUS
<1> QED
  BY <1>1, <1>2

\* The thresholds of the table are those days, each late by the leap seconds before it.
LEMMA ThresholdsAre ==
    /\ DOMAIN LeapTable = 1 .. 18
    /\ \A n \in 1 .. 18 :
         /\ LeapTable[n][1] = 86400 * LeapDay[n] + n - 1
         /\ LeapTable[n][2] = n
<1>1. DOMAIN LeapTable = 1 .. 18
  BY DEF LeapTable
<1>2. ASSUME NEW n \in 1 .. 18
      PROVE  LeapTable[n][1] = 86400 * LeapDay[n] + n - 1 /\ LeapTable[n][2] = n
  <2>1. n \in {1, 2, 3, 4, 5, 6, 7, 8, 9, 10, 11, 12, 13, 14, 15, 16, 17, 18}
    OBVIOUS
  <2> QED
    BY <2>1 DEF LeapTable, LeapDay
<1> QED
  BY <1>1, <1>2

LEMMA LeapSecondsBetween ==
    ASSUME NEW s \in Int, NEW n \in 0 .. 18,
           n > 0 => LeapTable[n][1] <= s,
           n < 18 => s < LeapTable[n + 1][1]
    PROVE  LeapSecondsAt(s) = n
<1>1. \A i \in 1 .. 18 : LeapTable[i][1] = 86400 * LeapDay[i] + i - 1 /\ LeapDay[i] \in Nat
  BY ThresholdsAre, LeapDaysInOrder
<1>2. ASSUME NEW i \in 1 .. 18 PROVE s >= LeapTable[i][1] <=> i <= n
  <2>1. CASE i <= n
    <3>1. n \in 1 .. 18 /\ (i < n => LeapDay[i] < LeapDay[n])
      BY <2>1, LeapDaysInOrder
    <3>2. LeapTable[i][1] <= LeapTable[n][1]
      BY <1>1, <2>1, <3>1
    <3> QED
      BY <1>1, <2>1, <3>1, <3>2
  <2>2. CASE n < i
    <3>1. n + 1 \in 1 .. 18 /\ (n + 1 < i => LeapDay[n + 1] < LeapDay[i])
      BY <2>2, LeapDaysInOrder
    <3>2. LeapTable[n + 1][1] <= LeapTable[i][1]
      <4>1. CASE n + 1 = i
        BY <1>1, <4>1
      <4>2. CASE n + 1 < i
        <5>1. /\ LeapTable[n + 1][1] = 86400 * LeapDay[n + 1] + (n + 1) - 1 /\ LeapDay[n + 1] \in Nat
              /\ LeapTable[i][1] = 86400 * LeapDay[i] + i - 1 /\ LeapDay[i] \in Nat
          BY <1>1, <3>1
        <5>2. LeapDay[n + 1] < LeapDay[i]
          BY <3>1, <4>2
        <5> QED
          BY <4>2, <5>1, <5>2
      <4> QED
        BY <2>2, <4>1, <4>2
    <3> QED
      BY <1>1, <2>2, <3>1, <3>2
  <2> QED
    BY <2>1, <2>2
<1>3. {i \in DOMAIN LeapTable : s >= LeapTable[i][1]} = 1 .. n
  BY <1>2, ThresholdsAre
<1>4. Cardinality(1 .. n) = n
  <2>1. PICK a \in Nat : a = n
    OBVIOUS
  <2>2. Cardinality(1 .. a) = a
    BY FS_Interval
  <2> QED
    BY <2>1, <2>2
<1>5. LeapSecondsAt(s) = IF n = 0 THEN 0 ELSE LeapTable[n][2]
  BY <1>3, <1>4 DEF LeapSecondsAt
<1> QED
  BY <1>5, ThresholdsAre

LEMMA SecondsOfDays ==
    ASSUME NEW t, ValidDate(t.year, t.month, t.day), t.sod \in Int
    PROVE  CivilSeconds(t) = 86400 * DayNumber(t.year, t.month, t.day) + t.sod
<1>1. PICK year \in Nat, days \in Nat, before \in Nat, leaps \in Nat :
        /\ year = t.year /\ days = t.day /\ before = DaysBeforeMonth(t.month, IsLeapYear(t.year))
        /\ leaps = LeapYearsBefore(year) /\ year >= 1980
  <2>1. t.year \in Nat /\ t.day \in Nat /\ t.year >= 1980
    BY DEF ValidDate
  <2>2. DaysBeforeMonth(t.month, IsLeapYear(t.year)) \in Nat
    BY WithinTheYear
  <2>3. LeapYearsBefore(t.year) \in Nat
    BY <2>1, LeapYearsCounted
  <2> QED
    BY <2>1, <2>2, <2>3
<1>2. DayNumber(t.year, t.month, t.day) = 365 * (year - 1980) + leaps - 5 + before + (days - 1)
  BY <1>1 DEF DayNumber
<1>3. CivilSeconds(t) = (365 * (year - 1980) + leaps - 5 + before + (days - 1)) * 86400 + t.sod
  BY <1>1 DEF CivilSeconds, DaySeconds, LeapYearsBefore, LeapYears
<1> QED
  BY <1>1, <1>2, <1>3

-------------------------------------------------------------------------------
(* The clocks' steps. *)

\* Of the moments to come there is a first.
LEMMA NextMoment ==
    ASSUME NEW S \in SUBSET Nat, S # {}
    PROVE  Min(S) \in S
<1>1. IsWellFoundedOn(OpToRel(<, Nat), Nat)
  BY NatLessThanWellFounded
<1>2. PICK x \in S : \A y \in S : ~ (<<y, x>> \in OpToRel(<, Nat))
  BY <1>1, WFMin
<1>3. \A y \in S : ~ (y < x)
  BY <1>2 DEF OpToRel
<1>4. \A y \in S : x =< y
  BY <1>3
<1> QED
  BY <1>4 DEF Min

LEMMA ClockInitOK == ClockInit => ClockInv
<1> SUFFICES ASSUME ClockInit PROVE ClockInv
  OBVIOUS
<1>1. utc = [year |-> 1980, month |-> 1, day |-> 6, sod |-> 0] /\ gps = 0 /\ sinceLeap = -1
  BY DEF ClockInit
<1>2. ValidDate(1980, 1, 6) /\ ValidDate(1980, 1, 1)
  BY MonthLengths DEF ValidDate
<1>3. DayNumber(1980, 1, 6) = 0
  <2>1. LeapYearsBefore(1980) = 0
    BY LeapYearsCounted
  <2>2. DaysBeforeMonth(1, IsLeapYear(1980)) = 0
    <3>1. IsLeapYear(1980) \in BOOLEAN
      BY DEF IsLeapYear
    <3> QED
      BY <3>1, MonthSums
  <2> QED
    BY <2>1, <2>2 DEF DayNumber
<1>4. CivilSeconds(utc) = 0
  BY <1>1, <1>2, <1>3, SecondsOfDays
<1>5. ClocksAgree(0)
  <2>1. LeapDay[1] = 542
    BY DEF LeapDay
  <2> QED
    BY <1>1, <1>3, <1>4, <2>1 DEF ClocksAgree
<1> QED
  BY <1>1, <1>2, <1>5, ClockAssumption DEF ClockInv

LEMMA ClockFacts ==
    ASSUME ClockInv
    PROVE  /\ utc.year \in Nat /\ utc.month \in Nat /\ utc.day \in Nat /\ utc.sod \in Nat /\ utc.sod \in Moments
           /\ ValidDate(utc.year, utc.month, utc.day)
           /\ \E n \in 0 .. 18 : ClocksAgree(n)
<1>1. ValidDate(utc.year, utc.month, utc.day) /\ utc.sod \in Moments
  BY DEF ClockInv
<1>2. utc.year \in Nat /\ utc.month \in Nat /\ utc.day \in Nat
  BY <1>1 DEF ValidDate
<1>3. utc.sod \in Nat
  BY <1>1, ClockAssumption
<1>4. \E n \in 0 .. 18 : ClocksAgree(n)
  BY DEF ClockInv
<1> QED
  BY <1>1, <1>2, <1>3, <1>4

LEMMA TickKeeps ==
    ASSUME ClockInv, Tick
    PROVE  ClockInv'
<1>1. PICK s : /\ s \in Moments /\ s > utc.sod
               /\ utc' = [utc EXCEPT !.sod = s]
               /\ gps' = gps + (s - utc.sod)
               /\ sinceLeap' = IF sinceLeap = -1 THEN -1 ELSE sinceLeap + (s - utc.sod)
  <2>1. PICK S : S = {s \in Moments : s > utc.sod}
    OBVIOUS
  <2>2. S \in SUBSET Nat
    BY <2>1, ClockAssumption
  <2>3. /\ S # {}
        /\ utc' = [utc EXCEPT !.sod = Min(S)]
        /\ gps' = gps + (Min(S) - utc.sod)
        /\ sinceLeap' = IF sinceLeap = -1 THEN -1 ELSE sinceLeap + (Min(S) - utc.sod)
    BY <2>1, Zenon DEF Tick
  <2>4. Min(S) \in S
    BY <2>2, <2>3, NextMoment
  <2>5. Min(S) \in Moments /\ Min(S) > utc.sod
    BY <2>1, <2>4
  <2> QED
    BY <2>3, <2>5, Zenon
<1>2. PICK y, m, d, sod \in Nat :
        /\ y = utc.year /\ m = utc.month /\ d = utc.day /\ sod = utc.sod
        /\ ValidDate(y, m, d) /\ s \in Nat
  BY <1>1, ClockFacts, ClockAssumption
<1>3. /\ utc' = [year |-> y, month |-> m, day |-> d, sod |-> s]
      /\ utc'.year = y /\ utc'.month = m /\ utc'.day = d /\ utc'.sod = s
  BY <1>1, <1>2 DEF ClockInv
<1>4. PICK day \in Int : day = DayNumber(y, m, d)
  BY <1>2, NumberInYear
<1>5. CivilSeconds(utc) = 86400 * day + sod
  BY <1>2, <1>4, SecondsOfDays
<1>6. CivilSeconds(utc') = 86400 * day + s
  BY <1>2, <1>3, <1>4, SecondsOfDays
<1>7. PICK n \in 0 .. 18 : ClocksAgree(n)
  BY ClockFacts
<1>8. /\ gps = 86400 * day + sod + n
      /\ IF n = 0 THEN sinceLeap = -1
         ELSE LeapDay[n] <= day /\ sinceLeap = 86400 * (day - LeapDay[n]) + sod
      /\ n < 18 => day < LeapDay[n + 1]
  BY <1>2, <1>4, <1>5, <1>7 DEF ClocksAgree
<1>9. gps' = CivilSeconds(utc') + n
  BY <1>1, <1>2, <1>6, <1>8
<1>10. IF n = 0 THEN sinceLeap' = -1
       ELSE LeapDay[n] <= day /\ sinceLeap' = 86400 * (day - LeapDay[n]) + s
  <2>1. CASE n = 0
    BY <1>1, <1>8, <2>1
  <2>2. CASE n > 0
    <3>1. PICK a \in Nat : a = LeapDay[n]
      BY <2>2, LeapDaysInOrder
    <3>2. a <= day /\ sinceLeap = 86400 * (day - a) + sod
      BY <1>8, <2>2, <3>1
    <3>3. sinceLeap # -1
      BY <1>2, <3>2
    <3> QED
      BY <1>1, <1>2, <2>2, <3>1, <3>2, <3>3
  <2> QED
    BY <2>1, <2>2
<1>11. ClocksAgree(n)'
  BY <1>2, <1>3, <1>4, <1>8, <1>9, <1>10 DEF ClocksAgree
<1> QED
  BY <1>1, <1>2, <1>3, <1>11 DEF ClockInv

LEMMA MidnightKeeps ==
    ASSUME ClockInv, Midnight
    PROVE  ClockInv'
<1>1. PICK y, m, d, sod \in Nat :
        /\ y = utc.year /\ m = utc.month /\ d = utc.day /\ sod = utc.sod
        /\ ValidDate(y, m, d)
  BY ClockFacts
<1>2. PICK a, b, c : /\ NextDay(utc) = <<a, b, c>>
                     /\ ValidDate(a, b, c)
                     /\ DayNumber(a, b, c) = DayNumber(y, m, d) + 1
  BY <1>1, NextDayCounts
<1>3. PICK leap \in {0, 1} : leap = IF <<a, b, c>> \in LeapDays THEN 1 ELSE 0
  OBVIOUS
<1>4. /\ utc' = [year |-> a, month |-> b, day |-> c, sod |-> 0]
      /\ gps' = gps + (86400 - sod) + leap
      /\ sinceLeap' = IF leap = 1 THEN 0
                      ELSE IF sinceLeap = -1 THEN -1 ELSE sinceLeap + (86400 - sod)
  BY <1>1, <1>2, <1>3 DEF Midnight
<1>5. PICK day \in Int : day = DayNumber(y, m, d)
  BY <1>1, NumberInYear
<1>6. CivilSeconds(utc) = 86400 * day + sod
  BY <1>1, <1>5, SecondsOfDays
<1>7. CivilSeconds(utc') = 86400 * (day + 1) + 0
  <2>1. PICK t : t = utc' /\ t.year = a /\ t.month = b /\ t.day = c /\ t.sod = 0
    BY <1>4
  <2> QED
    BY <1>2, <1>5, <2>1, SecondsOfDays
<1>8. PICK n \in 0 .. 18 : ClocksAgree(n)
  BY ClockFacts
<1>9. /\ gps = 86400 * day + sod + n
      /\ IF n = 0 THEN sinceLeap = -1
         ELSE LeapDay[n] <= day /\ sinceLeap = 86400 * (day - LeapDay[n]) + sod
      /\ n < 18 => day < LeapDay[n + 1]
  BY <1>1, <1>5, <1>6, <1>8 DEF ClocksAgree
<1>10. CASE leap = 1
  <2>1. PICK k \in 1 .. 18 : a = LeapDate[k][1] /\ b = LeapDate[k][2] /\ c = 1
    BY <1>3, <1>10, LeapDatesAre
  <2>2. day + 1 = LeapDay[k]
    BY <1>2, <1>5, <2>1, LeapDayNumbers
  <2>3. \A i \in 1 .. 18 : LeapDay[i] \in Nat
    BY LeapDaysInOrder
  <2>4. n < k
    <3> SUFFICES ASSUME k <= n PROVE FALSE
      BY <1>8
    <3>1. n \in 1 .. 18 /\ LeapDay[k] <= LeapDay[n]
      <4>1. k = n \/ k < n
        OBVIOUS
      <4>2. n \in 1 .. 18
        OBVIOUS
      <4> QED
        BY <2>3, <4>1, <4>2, LeapDaysInOrder
    <3>2. LeapDay[n] <= day
      BY <1>9, <3>1
    <3> QED
      BY <2>2, <2>3, <3>1, <3>2
  <2>5. k = n + 1
    <3> SUFFICES ASSUME n + 1 < k PROVE FALSE
      BY <2>4
    <3>1. n + 1 \in 1 .. 18 /\ LeapDay[n + 1] < LeapDay[k] /\ day < LeapDay[n + 1]
      BY <1>9, LeapDaysInOrder
    <3> QED
      BY <2>2, <2>3, <3>1
  <2>6. n + 1 < 18 => day + 1 < LeapDay[n + 2]
    <3>1. n + 1 < 18 => LeapDay[n + 1] < LeapDay[n + 2]
      BY <2>5, LeapDaysInOrder
    <3> QED
      BY <2>2, <2>5, <3>1
  <2>7. gps' = CivilSeconds(utc') + (n + 1)
    BY <1>4, <1>7, <1>9, <1>10
  <2>8. LeapDay[n + 1] <= day + 1 /\ sinceLeap' = 86400 * ((day + 1) - LeapDay[n + 1]) + 0
    BY <1>4, <1>10, <2>2, <2>5
  <2>9. n + 1 \in 0 .. 18 /\ n + 1 # 0 /\ (n + 1) + 1 = n + 2
    BY <2>5
  <2>10. DayNumber(utc'.year, utc'.month, utc'.day) = day + 1 /\ utc'.sod = 0
    BY <1>2, <1>4, <1>5
  <2>11. ClocksAgree(n + 1)'
    BY <2>6, <2>7, <2>8, <2>9, <2>10 DEF ClocksAgree
  <2> QED
    BY <1>2, <1>4, <2>9, <2>11, ClockAssumption DEF ClockInv
<1>11. CASE leap = 0
  <2>1. n < 18 => day + 1 < LeapDay[n + 1]
    <3> SUFFICES ASSUME n < 18, day + 1 = LeapDay[n + 1] PROVE FALSE
      <4>1. n < 18 => LeapDay[n + 1] \in Nat
        BY LeapDaysInOrder
      <4> QED
        BY <1>9, <4>1
    <3>1. PICK k \in 1 .. 18 : k = n + 1
      OBVIOUS
    <3>2. /\ LeapDate[k][1] \in Nat /\ LeapDate[k][1] >= 1980 /\ LeapDate[k][2] \in {1, 7}
          /\ DayNumber(a, b, c) = DayNumber(LeapDate[k][1], LeapDate[k][2], 1)
      BY <1>2, <1>5, <3>1, LeapDatesAre, LeapDayNumbers
    <3>3. a = LeapDate[k][1] /\ b = LeapDate[k][2] /\ c = 1
      BY <1>2, <3>2, OneDate
    <3>4. <<a, b, c>> \in LeapDays
      BY <3>3, LeapDatesAre
    <3> QED
      BY <1>3, <1>11, <3>4
  <2>2. gps' = CivilSeconds(utc') + n
    BY <1>4, <1>7, <1>9, <1>11
  <2>3. IF n = 0 THEN sinceLeap' = -1
        ELSE LeapDay[n] <= day + 1 /\ sinceLeap' = 86400 * ((day + 1) - LeapDay[n]) + 0
    <3>1. CASE n = 0
      BY <1>4, <1>9, <1>11, <3>1
    <3>2. CASE n > 0
      <4>1. PICK l \in Nat : l = LeapDay[n]
        BY <3>2, LeapDaysInOrder
      <4>2. l <= day /\ sinceLeap = 86400 * (day - l) + sod
        BY <1>9, <3>2, <4>1
      <4>3. sinceLeap # -1
        BY <1>1, <4>2
      <4>4. sinceLeap' = 86400 * ((day + 1) - l) + 0
        BY <1>4, <1>11, <4>2, <4>3
      <4> QED
        BY <3>2, <4>1, <4>2, <4>4
    <3> QED
      BY <3>1, <3>2
  <2>4. DayNumber(utc'.year, utc'.month, utc'.day) = day + 1 /\ utc'.sod = 0
    BY <1>2, <1>4, <1>5
  <2>5. ClocksAgree(n)'
    BY <2>1, <2>2, <2>3, <2>4 DEF ClocksAgree
  <2> QED
    BY <1>2, <1>4, <2>5, ClockAssumption DEF ClockInv
<1> QED
  BY <1>10, <1>11

LEMMA ClockInvHolds == ClockSpec => []ClockInv
<1>1. ClockInit => ClockInv
  BY ClockInitOK
<1>2. ClockInv /\ [ClockNext]_clock => ClockInv'
  <2> SUFFICES ASSUME ClockInv, [ClockNext]_clock PROVE ClockInv'
    OBVIOUS
  <2>1. CASE UNCHANGED clock
    BY <2>1 DEF clock, ClockInv, ClocksAgree
  <2> QED
    BY <2>1, TickKeeps, MidnightKeeps DEF ClockNext
<1> QED
  BY <1>1, <1>2, PTL DEF ClockSpec

-------------------------------------------------------------------------------
(* What a conversion makes of the clocks' time. *)

\* The table is reached, or is late by less than it has entries.
LEMMA TableOnTheClock ==
    ASSUME ClockInv, NEW n \in 0 .. 18, ClocksAgree(n)
    PROVE  /\ CivilSeconds(utc) \in Int
           /\ sinceLeap \notin 0 .. 16 => LeapSecondsAt(CivilSeconds(utc)) = n
           /\ (n = 18 /\ sinceLeap \in 0 .. 16) => LeapSecondsAt(CivilSeconds(utc)) = 17
           /\ utc.year >= 2017 => n = 18
<1>1. PICK sod \in Nat : sod = utc.sod /\ sod < 86400
  BY ClockFacts, ClockAssumption
<1>2. PICK day \in Int : day = DayNumber(utc.year, utc.month, utc.day)
  BY ClockFacts, NumberInYear
<1>3. PICK s \in Int : s = CivilSeconds(utc) /\ s = 86400 * day + sod
  BY <1>1, <1>2, ClockFacts, SecondsOfDays
<1>4. /\ n = 0 => sinceLeap = -1
      /\ n > 0 => LeapDay[n] <= day /\ sinceLeap = 86400 * (day - LeapDay[n]) + sod
      /\ n < 18 => day < LeapDay[n + 1]
  BY <1>1, <1>2 DEF ClocksAgree
<1>5. n < 18 => s < LeapTable[n + 1][1]
  <2> SUFFICES ASSUME n < 18 PROVE s < LeapTable[n + 1][1]
    OBVIOUS
  <2>1. PICK k \in 1 .. 18 : k = n + 1
    OBVIOUS
  <2>2. LeapTable[k][1] = 86400 * LeapDay[k] + k - 1 /\ LeapDay[k] \in Nat /\ day < LeapDay[k]
    BY <1>4, <2>1, ThresholdsAre, LeapDaysInOrder
  <2> QED
    BY <1>1, <1>3, <2>1, <2>2
<1>6. ASSUME sinceLeap \notin 0 .. 16 PROVE LeapSecondsAt(s) = n
  <2>1. n > 0 => LeapTable[n][1] <= s
    <3> SUFFICES ASSUME n > 0 PROVE LeapTable[n][1] <= s
      OBVIOUS
    <3>1. LeapTable[n][1] = 86400 * LeapDay[n] + n - 1 /\ LeapDay[n] \in Nat
      BY ThresholdsAre, LeapDaysInOrder
    <3>2. LeapDay[n] <= day /\ sinceLeap = 86400 * (day - LeapDay[n]) + sod
      BY <1>4
    <3>3. sinceLeap \in Nat
      BY <3>1, <3>2
    <3>4. sinceLeap >= 17
      BY <1>6, <3>3
    <3> QED
      BY <1>3, <3>1, <3>2, <3>4
  <2> QED
    BY <1>5, <2>1, LeapSecondsBetween
<1>7. ASSUME n = 18, sinceLeap \in 0 .. 16 PROVE LeapSecondsAt(s) = 17
  <2>1. LeapDay[18] = 13510 /\ LeapTable[18][1] = 1167264017 /\ LeapTable[17][1] = 1119744016
    BY DEF LeapDay, LeapTable
  <2>2. 13510 <= day /\ sinceLeap = 86400 * (day - 13510) + sod
    BY <1>4, <1>7, <2>1
  <2>3. s < LeapTable[17 + 1][1] /\ LeapTable[17][1] <= s
    BY <1>3, <1>7, <2>1, <2>2
  <2>4. PICK k \in 0 .. 18 : k = 17
    OBVIOUS
  <2>5. (k > 0 => LeapTable[k][1] <= s) /\ (k < 18 => s < LeapTable[k + 1][1])
    BY <2>3, <2>4
  <2> QED
    BY <2>4, <2>5, LeapSecondsBetween
<1>8. ASSUME utc.year >= 2017 PROVE n = 18
  <2>1. PICK y \in Nat : y = utc.year /\ y >= 2017
    BY <1>8, ClockFacts
  <2>2. DayNumber(2017, 1, 1) = 13510
    <3>1. LeapDate[18] = <<2017, 1>> /\ LeapDay[18] = 13510
      BY DEF LeapDate, LeapDay
    <3>2. DayNumber(LeapDate[18][1], LeapDate[18][2], 1) = LeapDay[18]
      BY LeapDayNumbers
    <3> QED
      BY <3>1, <3>2
  <2>3. DayNumber(2017, 1, 1) <= DayNumber(y, 1, 1) /\ DayNumber(y, 1, 1) \in Int
    <3>1. CASE y = 2017
      BY <2>2, <3>1
    <3>2. CASE y > 2017
      <4>1. ASSUME NEW x \in Nat, x >= 1980, x < y
            PROVE  DayNumber(x, 1, 1) < DayNumber(y, 1, 1)
        BY <4>1, YearStart
      <4>2. DayNumber(2017, 1, 1) < DayNumber(y, 1, 1)
        BY <3>2, <4>1
      <4>3. DayNumber(y, 1, 1) \in Int
        BY <2>1, YearStart
      <4> QED
        BY <2>2, <4>1, <4>2, <4>3
    <3> QED
      BY <2>1, <3>1, <3>2
  <2>4. 13510 <= day
    <3>1. DayNumber(y, 1, 1) <= day
      BY <1>2, <2>1, ClockFacts, NumberInYear
    <3> QED
      BY <1>2, <2>2, <2>3, <3>1
  <2> SUFFICES ASSUME n < 18 PROVE FALSE
    OBVIOUS
  <2>5. PICK k \in 1 .. 18 : k = n + 1
    OBVIOUS
  <2>6. LeapDay[k] <= LeapDay[18] /\ LeapDay[k] \in Nat /\ LeapDay[18] = 13510
    <3>1. LeapDay[18] = 13510
      BY DEF LeapDay
    <3>2. k < 18 => LeapDay[k] < LeapDay[18]
      BY LeapDaysInOrder
    <3>3. LeapDay[k] \in Nat
      BY LeapDaysInOrder
    <3>4. k = 18 \/ k < 18
      OBVIOUS
    <3> QED
      BY <3>1, <3>2, <3>3, <3>4
  <2> QED
    BY <1>4, <2>4, <2>5, <2>6
<1> QED
  BY <1>3, <1>6, <1>7, <1>8

LEMMA ClockIsConverted ==
    ASSUME ClockInv
    PROVE  NoticeTimeIsRight /\ AlertTimeIsRight
<1>1. PICK n \in 0 .. 18 : ClocksAgree(n)
  BY ClockFacts
<1>2. PICK s \in Int : s = CivilSeconds(utc)
  BY <1>1, TableOnTheClock
<1>3. gps = s + n
  BY <1>1, <1>2 DEF ClocksAgree
<1>4. NoticeTimeIsRight
  <2> SUFFICES ASSUME sinceLeap \notin 0 .. 16 PROVE s + LeapSecondsAt(s) = gps
    BY <1>2 DEF NoticeTimeIsRight, Iso8601UtcToGps, LeapSeconds
  <2>1. LeapSecondsAt(s) = n
    BY <1>1, <1>2, TableOnTheClock
  <2> QED
    BY <1>3, <2>1
<1>5. AlertTimeIsRight
  <2> SUFFICES ASSUME utc.year >= 2017
               PROVE  UnixToCivilSeconds(GpsToUnix(Iso8601UtcToGps(utc))) - CivilSeconds(utc)
                        \in (IF sinceLeap \in 0 .. LeapSeconds - 2 THEN {-1} ELSE {0})
    BY DEF AlertTimeIsRight
  <2>0. /\ Iso8601UtcToGps(utc) = s + LeapSecondsAt(s)
        /\ \A g \in Int : UnixToCivilSeconds(GpsToUnix(g)) = g - 18
        /\ LeapSeconds - 2 = 16
    BY <1>2 DEF UnixToCivilSeconds, GpsToUnix, Iso8601UtcToGps, LeapSeconds, GpsEpochUnix
  <2>1. n = 18
    BY <1>1, TableOnTheClock
  <2>2. CASE sinceLeap \in 0 .. 16
    <3>1. LeapSecondsAt(s) = 17
      BY <1>1, <1>2, <2>1, <2>2, TableOnTheClock
    <3>2. PICK g \in Int : g = Iso8601UtcToGps(utc) /\ g - 18 - s = -1
      BY <2>0, <3>1
    <3> QED
      BY <1>2, <2>0, <2>2, <3>2
  <2>3. CASE sinceLeap \notin 0 .. 16
    <3>1. LeapSecondsAt(s) = 18
      BY <1>1, <1>2, <2>1, <2>3, TableOnTheClock
    <3>2. PICK g \in Int : g = Iso8601UtcToGps(utc) /\ g - 18 - s = 0
      BY <2>0, <3>1
    <3> QED
      BY <1>2, <2>0, <2>3, <3>2
  <2> QED
    BY <2>2, <2>3
<1> QED
  BY <1>4, <1>5

\* A notice's UTC timestamp is converted to the GPS second the clock shows then, at every moment of
\* every day from 1980 on, but for the first seconds after a leap second (src/gcn.rs,
\* iso8601_utc_to_gps).
THEOREM NoticeTimeIsRightHolds == ClockSpec => []NoticeTimeIsRight
  BY ClockInvHolds, ClockIsConverted, PTL

\* Since 2017, the time an alert prints is the one its notice had, but for those seconds, when it is
\* one second early: the conversions of src/gcn.rs and src/alert.rs are each other's inverse.
THEOREM AlertTimeIsRightHolds == ClockSpec => []AlertTimeIsRight
  BY ClockInvHolds, ClockIsConverted, PTL

-------------------------------------------------------------------------------
(* The conversion keeps the order of the notices. *)

ValidTime(t) ==
    ValidDate(t.year, t.month, t.day) /\ t.sod \in Nat /\ t.sod < 86400

EarlierDate(t, u) ==
    \/ t.year < u.year
    \/ t.year = u.year /\ t.month < u.month
    \/ t.year = u.year /\ t.month = u.month /\ t.day < u.day

Earlier(t, u) ==
    \/ EarlierDate(t, u)
    \/ t.year = u.year /\ t.month = u.month /\ t.day = u.day /\ t.sod < u.sod

\* A month ends before a later one of its year begins.
LEMMA MonthsInOrder ==
    ASSUME NEW y \in Nat, NEW m \in 1 .. 12, NEW k \in 1 .. 12, m < k
    PROVE  DaysBeforeMonth(m, IsLeapYear(y)) + DaysInMonth(y, m) <= DaysBeforeMonth(k, IsLeapYear(y))
<1>1. PICK leap \in BOOLEAN : leap = IsLeapYear(y)
  BY DEF IsLeapYear
<1>2. PICK l \in {28, 29} :
             /\ l = IF leap THEN 29 ELSE 28
             /\ DaysBeforeMonth(1, leap) = 0         /\ DaysBeforeMonth(2, leap) = 31
             /\ DaysBeforeMonth(3, leap) = 31 + l    /\ DaysBeforeMonth(4, leap) = 62 + l
             /\ DaysBeforeMonth(5, leap) = 92 + l    /\ DaysBeforeMonth(6, leap) = 123 + l
             /\ DaysBeforeMonth(7, leap) = 153 + l   /\ DaysBeforeMonth(8, leap) = 184 + l
             /\ DaysBeforeMonth(9, leap) = 215 + l   /\ DaysBeforeMonth(10, leap) = 245 + l
             /\ DaysBeforeMonth(11, leap) = 276 + l  /\ DaysBeforeMonth(12, leap) = 306 + l
  BY MonthSums
<1>3. /\ DaysInMonth(y, 2) = l
      /\ \A n \in {4, 6, 9, 11} : DaysInMonth(y, n) = 30
      /\ \A n \in {1, 3, 5, 7, 8, 10, 12} : DaysInMonth(y, n) = 31
  BY <1>1, <1>2, MonthLengths
<1>4. /\ m \in {1, 2, 3, 4, 5, 6, 7, 8, 9, 10, 11, 12}
      /\ k \in {1, 2, 3, 4, 5, 6, 7, 8, 9, 10, 11, 12}
  OBVIOUS
<1>5. DaysBeforeMonth(m + 1, leap) = DaysBeforeMonth(m, leap) + DaysInMonth(y, m)
  BY <1>2, <1>3, <1>4
<1>6. DaysBeforeMonth(m + 1, leap) <= DaysBeforeMonth(k, leap)
  <2>1. \A a, b \in {1, 2, 3, 4, 5, 6, 7, 8, 9, 10, 11, 12} :
          a <= b => DaysBeforeMonth(a, leap) <= DaysBeforeMonth(b, leap)
    BY <1>2
  <2>2. m + 1 \in {1, 2, 3, 4, 5, 6, 7, 8, 9, 10, 11, 12} /\ m + 1 <= k
    BY <1>4
  <2> QED
    BY <1>4, <2>1, <2>2
<1> QED
  BY <1>1, <1>5, <1>6

LEMMA DatesInOrder ==
    ASSUME NEW t, NEW u, ValidDate(t.year, t.month, t.day), ValidDate(u.year, u.month, u.day),
           EarlierDate(t, u)
    PROVE  DayNumber(t.year, t.month, t.day) < DayNumber(u.year, u.month, u.day)
<1>1. PICK y, m, d \in Nat : /\ y = t.year /\ m = t.month /\ d = t.day
                             /\ y >= 1980 /\ m \in 1 .. 12 /\ d <= DaysInMonth(y, m)
  BY DEF ValidDate
<1>2. PICK z, k, e \in Nat : /\ z = u.year /\ k = u.month /\ e = u.day
                             /\ z >= 1980 /\ k \in 1 .. 12 /\ e >= 1
  BY DEF ValidDate
<1>3. PICK a, b \in Int : /\ a = DayNumber(y, m, d) /\ a < DayNumber(y + 1, 1, 1)
                          /\ b = DayNumber(z, k, e) /\ DayNumber(z, 1, 1) <= b
                          /\ a = DayNumber(y, 1, 1) + DaysBeforeMonth(m, IsLeapYear(y)) + d - 1
                          /\ b = DayNumber(z, 1, 1) + DaysBeforeMonth(k, IsLeapYear(z)) + e - 1
  BY <1>1, <1>2, NumberInYear
<1>4. DayNumber(y, 1, 1) \in Int /\ DayNumber(z, 1, 1) \in Int /\ DayNumber(y + 1, 1, 1) \in Int
  BY <1>1, <1>2, YearStart
<1>5. DaysBeforeMonth(m, IsLeapYear(y)) \in Nat /\ DaysBeforeMonth(k, IsLeapYear(z)) \in Nat
  BY <1>1, <1>2, WithinTheYear
<1>6. CASE y < z
  <2>1. DayNumber(y, 1, 1) + 365 + (IF IsLeapYear(y) THEN 1 ELSE 0) <= DayNumber(z, 1, 1)
    BY <1>1, <1>2, <1>6, YearStart
  <2>2. DayNumber(y + 1, 1, 1) = DayNumber(y, 1, 1) + 365 + (IF IsLeapYear(y) THEN 1 ELSE 0)
    BY <1>1, YearStart
  <2> QED
    BY <1>1, <1>2, <1>3, <1>4, <2>1, <2>2
<1>7. CASE y = z /\ m < k
  <2>1. DaysBeforeMonth(m, IsLeapYear(y)) + DaysInMonth(y, m) <= DaysBeforeMonth(k, IsLeapYear(y))
    BY <1>1, <1>2, <1>7, MonthsInOrder
  <2>2. DaysInMonth(y, m) \in Int
    BY <1>1, WithinTheYear
  <2> QED
    BY <1>1, <1>2, <1>3, <1>4, <1>5, <1>7, <2>1, <2>2
<1>8. CASE y = z /\ m = k /\ d < e
  BY <1>1, <1>2, <1>3, <1>4, <1>5, <1>8
<1> QED
  BY <1>1, <1>2, <1>6, <1>7, <1>8 DEF EarlierDate

LEMMA LeapSecondsGrow ==
    ASSUME NEW s \in Int, NEW r \in Int, s <= r
    PROVE  /\ LeapSecondsAt(s) \in Nat /\ LeapSecondsAt(r) \in Nat
           /\ LeapSecondsAt(s) <= LeapSecondsAt(r)
<1>1. ASSUME NEW x \in Int
      PROVE  \E n \in Nat : /\ IsFiniteSet({i \in DOMAIN LeapTable : x >= LeapTable[i][1]})
                            /\ n = Cardinality({i \in DOMAIN LeapTable : x >= LeapTable[i][1]})
                            /\ LeapSecondsAt(x) = n
  <2>1. PICK S : S = {i \in DOMAIN LeapTable : x >= LeapTable[i][1]}
    OBVIOUS
  <2>2. S \subseteq 1 .. 18
    BY <2>1, ThresholdsAre
  <2>3. IsFiniteSet(1 .. 18) /\ Cardinality(1 .. 18) = 18
    <3>1. PICK a \in Nat : a = 18
      OBVIOUS
    <3>2. IsFiniteSet(1 .. a) /\ Cardinality(1 .. a) = a
      BY FS_Interval
    <3> QED
      BY <3>1, <3>2
  <2>4. IsFiniteSet(S) /\ Cardinality(S) <= 18
    BY <2>2, <2>3, FS_Subset
  <2>5. PICK n \in Nat : n = Cardinality(S)
    BY <2>4, FS_CardinalityType
  <2>6. LeapSecondsAt(x) = IF n = 0 THEN 0 ELSE LeapTable[n][2]
    BY <2>1, <2>5 DEF LeapSecondsAt
  <2>7. LeapSecondsAt(x) = n
    BY <2>4, <2>5, <2>6, ThresholdsAre
  <2> QED
    BY <2>1, <2>4, <2>5, <2>7
<1>2. PICK S, R : /\ S = {i \in DOMAIN LeapTable : s >= LeapTable[i][1]}
                  /\ R = {i \in DOMAIN LeapTable : r >= LeapTable[i][1]}
  OBVIOUS
<1>3. IsFiniteSet(S) /\ IsFiniteSet(R) /\ LeapSecondsAt(s) = Cardinality(S) /\ LeapSecondsAt(r) = Cardinality(R)
  BY <1>1, <1>2
<1>4. S \subseteq R
  <2>1. \A i \in DOMAIN LeapTable : LeapTable[i][1] \in Int
    BY ThresholdsAre, LeapDaysInOrder
  <2> QED
    BY <1>2, <2>1
<1>5. Cardinality(S) <= Cardinality(R)
  BY <1>3, <1>4, FS_Subset
<1> QED
  BY <1>1, <1>3, <1>5

\* Of two notices the one with the later timestamp gets the later GPS time, from 1980 to whatever
\* year: neither a carry nor a leap second turns them round, and no two timestamps become one, as
\* long as none names the leap second itself (the lists and the windows in time compare these
\* times; src/gcn.rs, iso8601_utc_to_gps).
THEOREM LaterNoticesConvertLater ==
    ASSUME NEW t, NEW u, ValidTime(t), ValidTime(u), Earlier(t, u)
    PROVE  Iso8601UtcToGps(t) < Iso8601UtcToGps(u)
<1>1. PICK a, b \in Int : /\ a = DayNumber(t.year, t.month, t.day)
                          /\ b = DayNumber(u.year, u.month, u.day)
  BY NumberInYear DEF ValidTime
<1>2. PICK v, w \in Nat : v = t.sod /\ w = u.sod /\ v < 86400 /\ w < 86400
  BY DEF ValidTime
<1>3. CivilSeconds(t) = 86400 * a + v /\ CivilSeconds(u) = 86400 * b + w
  BY <1>1, <1>2, SecondsOfDays DEF ValidTime
<1>4. a < b \/ (a = b /\ v < w)
  <2>1. CASE EarlierDate(t, u)
    BY <1>1, <2>1, DatesInOrder DEF ValidTime
  <2>2. CASE t.year = u.year /\ t.month = u.month /\ t.day = u.day /\ t.sod < u.sod
    BY <1>1, <1>2, <2>2
  <2> QED
    BY <2>1, <2>2 DEF Earlier
<1>5. PICK s, r \in Int : s = CivilSeconds(t) /\ r = CivilSeconds(u) /\ s < r
  BY <1>1, <1>2, <1>3, <1>4
<1>6. LeapSecondsAt(s) \in Nat /\ LeapSecondsAt(r) \in Nat /\ LeapSecondsAt(s) <= LeapSecondsAt(r)
  BY <1>5, LeapSecondsGrow
<1> QED
  BY <1>5, <1>6 DEF Iso8601UtcToGps

===============================================================================
