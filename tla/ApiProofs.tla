------------------------------ MODULE ApiProofs ------------------------------
(***************************************************************************)
(* Proofs about what gw-api answers and sends.                             *)
(*                                                                         *)
(* PublicAlert, for any operators, writers, writes, settings and bounds:   *)
(* the audit rows tell what happened to every alert, whatever fails and    *)
(* whenever gw-api restarts; and an alert made while nothing was being     *)
(* written carries the map its superevent is described with.               *)
(*                                                                         *)
(* Listings, for any rows, endpoints, tiers and page sizes: a walk through *)
(* a list shows what kept its place, and a match carries the strictest     *)
(* tier it clears.                                                         *)
(***************************************************************************)
EXTENDS PublicAlert, Listings, FunctionTheorems, FiniteSetTheorems, NaturalsInduction, TLAPS

\* An alert on its way to its audit row; one that counts as sent is on the topic.
Inserting(c) == requests[c].at = "insert"
SentIsOnTopic(c) == requests[c].outcome = "sent" => requests[c].alert.attempt \in topic

\* What becomes of an alert on the topic.
Accounted(a) ==
  \/ \E row \in audit : row.attempt = a
  \/ \E c \in Operator : Inserting(c) /\ requests[c].alert.attempt = a
  \/ a \in unrecorded

AuditInv ==
  /\ requests = [c \in Operator |-> requests[c]]
  /\ \A c \in Operator : Inserting(c) => SentIsOnTopic(c)
  /\ \A row \in audit : row.published => row.attempt \in topic
  /\ \A a \in topic : Accounted(a)

\* A step of a request before it publishes, or one that ends it there: nothing is sent
\* or recorded, and the request does not come to its insert.
Early(c) ==
  /\ UNCHANGED <<topic, audit, unrecorded>>
  /\ ~ Inserting(c)
  /\ \E r : r.at # "insert" /\ requests' = [requests EXCEPT ![c] = r]

LEMMA EarlyFacts ==
  ASSUME AuditInv, NEW c \in Operator, Early(c)
  PROVE  AuditInv'
<1>1. PICK r : r.at # "insert" /\ requests' = [requests EXCEPT ![c] = r]
  BY DEF Early
<1>2. /\ requests'[c] = r
      /\ \A d \in Operator : d # c => requests'[d] = requests[d]
      /\ requests' = [d \in Operator |-> requests'[d]]
  BY <1>1 DEF AuditInv
<1>3. \A d \in Operator : Inserting(d)' => Inserting(d) /\ requests'[d] = requests[d]
  BY <1>1, <1>2 DEF Inserting
<1>4. \A d \in Operator : Inserting(d) => requests'[d] = requests[d]
  BY <1>2 DEF Early
<1>5. \A d \in Operator : Inserting(d)' => SentIsOnTopic(d)'
  BY <1>3 DEF AuditInv, Early, SentIsOnTopic
<1>6. \A a \in topic' : Accounted(a)'
  BY <1>4 DEF AuditInv, Early, Accounted, Inserting
<1> QED
  BY <1>2, <1>5, <1>6 DEF AuditInv, Early

\* Steps that leave the requests, the topic and the rows alone.
LEMMA ElsewhereFacts ==
  ASSUME AuditInv, UNCHANGED <<requests, topic, audit, unrecorded>>
  PROVE  AuditInv'
  BY DEF AuditInv, Inserting, SentIsOnTopic, Accounted

LEMMA InitOK == AlertInit => AuditInv
  BY DEF AlertInit, AuditInv, Inserting, NoRequest

-------------------------------------------------------------------------------
(* A request up to its publication *)

LEMMA RespondsEarly ==
  ASSUME NEW c \in Operator, Respond(c), UNCHANGED <<topic, audit, unrecorded>>, ~ Inserting(c)
  PROVE  Early(c)
<1>1. NoRequest.at # "insert"
  BY DEF NoRequest
<1> QED
  BY <1>1 DEF Respond, Early

LEMMA PressPublishOK ==
  ASSUME AuditInv, NEW c \in Operator, PressPublish(c)
  PROVE  AuditInv'
<1>1. PICK r : r.at = "superevent" /\ requests' = [requests EXCEPT ![c] = r]
  <2>1. PICK id \in Ids, dry_run \in BOOLEAN :
          requests' = [requests EXCEPT ![c] =
            [ at |-> "superevent", id |-> id, dry_run |-> dry_run, attempt |-> attempts + 1,
              since |-> IF Settled(id) THEN progress ELSE <<>> ]]
    BY DEF PressPublish
  <2>2. [ at |-> "superevent", id |-> id, dry_run |-> dry_run, attempt |-> attempts + 1,
          since |-> IF Settled(id) THEN progress ELSE <<>> ].at = "superevent"
    OBVIOUS
  <2> QED
    BY <2>1, <2>2
<1>2. ~ Inserting(c)
  BY DEF PressPublish, Inserting, NoRequest
<1>3. Early(c)
  BY <1>1, <1>2 DEF PressPublish, Early
<1> QED
  BY <1>3, EarlyFacts

LEMMA LearnsEarly ==
  ASSUME NEW c \in Operator, ~ Inserting(c), UNCHANGED <<topic, audit, unrecorded>>,
         NEW news, "at" \in DOMAIN news, news.at # "insert", Learns(c, news)
  PROVE  Early(c)
<1> DEFINE next == [k \in DOMAIN requests[c] \cup DOMAIN news |->
                      IF k \in DOMAIN news THEN news[k] ELSE requests[c][k]]
<1>1. next["at"] = news["at"]
  OBVIOUS
<1>2. next.at # "insert"
  BY <1>1
<1>3. requests' = [requests EXCEPT ![c] = next]
  BY DEF Learns
<1> QED
  BY <1>2, <1>3 DEF Early

LEMMA ReadSupereventOK ==
  ASSUME AuditInv, NEW c \in Operator, ReadSuperevent(c)
  PROVE  Early(c)
<1>1. ~ Inserting(c)
  BY DEF ReadSuperevent, Inserting
<1>2. CASE GivesUp(c)
  BY <1>1, <1>2, RespondsEarly DEF GivesUp, ReadSuperevent
<1>3. CASE /\ Learns(c, [at |-> "annotations", doc |-> superevents[requests[c].id]])
           /\ UNCHANGED <<topic, audit, unrecorded>>
  BY <1>1, <1>3, LearnsEarly
<1> QED
  BY <1>2, <1>3 DEF ReadSuperevent

LEMMA ReadAnnotationsOK ==
  ASSUME AuditInv, NEW c \in Operator, ReadAnnotations(c)
  PROVE  Early(c)
<1>1. ~ Inserting(c)
  BY DEF ReadAnnotations, Inserting
<1>2. CASE GivesUp(c)
  BY <1>1, <1>2, RespondsEarly DEF GivesUp
<1>3. CASE /\ Learns(c, [at |-> "event", classification |-> Classification(requests[c].id)])
           /\ UNCHANGED <<topic, audit, unrecorded>>
  BY <1>1, <1>3, LearnsEarly
<1> QED
  BY <1>2, <1>3 DEF ReadAnnotations

LEMMA ReadEventOK ==
  ASSUME AuditInv, NEW c \in Operator, ReadEvent(c)
  PROVE  Early(c)
<1> DEFINE next == IF WantsMap(requests[c].doc) THEN "map" ELSE "publish"
<1>1. ~ Inserting(c)
  BY DEF ReadEvent, Inserting
<1>2. CASE GivesUp(c)
  BY <1>1, <1>2, RespondsEarly DEF GivesUp
<1>3. CASE /\ Learns(c, [at |-> next, map |-> NoBlob])
           /\ UNCHANGED <<topic, audit, unrecorded>>
  <2>1. next # "insert"
    OBVIOUS
  <2> HIDE DEF next
  <2> QED
    BY <1>1, <1>3, <2>1, LearnsEarly
<1> QED
  BY <1>2, <1>3 DEF ReadEvent

LEMMA TakeMapOK ==
  ASSUME AuditInv, NEW c \in Operator, TakeMap(c)
  PROVE  Early(c)
<1>1. ~ Inserting(c)
  BY DEF TakeMap, Inserting
<1>2. CASE GivesUp(c)
  BY <1>1, <1>2, RespondsEarly DEF GivesUp, TakeMap
<1>3. CASE /\ Learns(c, [at |-> "publish", map |-> calls[c].blob])
           /\ UNCHANGED <<topic, audit, unrecorded>>
  BY <1>1, <1>3, LearnsEarly
<1> QED
  BY <1>2, <1>3 DEF TakeMap

-------------------------------------------------------------------------------
(* The publication and the row *)

LEMMA PublishOK ==
  ASSUME AuditInv, NEW c \in Operator, Publish(c)
  PROVE  AuditInv'
<1> DEFINE attempt == requests[c].attempt
<1>1. UNCHANGED <<audit, unrecorded>>
  BY DEF Publish
<1>2. ~ Inserting(c)
  BY DEF Publish, Inserting
<1>3. CASE Respond(c) /\ topic' = topic
  BY <1>1, <1>2, <1>3, RespondsEarly, EarlyFacts
<1>4. CASE \E outcome \in {"dry", "sent", "refused"} :
             /\ Leaves(c, outcome)
             /\ topic' \in {topic, topic \cup {attempt}}
             /\ outcome = "dry" => topic' = topic
             /\ outcome = "sent" => topic' = topic \cup {attempt}
  <2>1. PICK outcome \in {"dry", "sent", "refused"} :
          /\ Leaves(c, outcome)
          /\ topic' \in {topic, topic \cup {attempt}}
          /\ outcome = "sent" => topic' = topic \cup {attempt}
    BY <1>4
  <2>2. /\ Built(c, outcome).at = "insert" /\ Built(c, outcome).outcome = outcome
        /\ Built(c, outcome).alert.attempt = attempt
    BY DEF Built, build_alert
  <2>3. /\ requests'[c] = Built(c, outcome)
        /\ \A d \in Operator : d # c => requests'[d] = requests[d]
        /\ requests' = [d \in Operator |-> requests'[d]]
    BY <2>1 DEF Leaves, AuditInv
  <2>4. /\ Inserting(c)' /\ requests'[c].alert.attempt = attempt
        /\ requests'[c].outcome = outcome
    BY <2>2, <2>3 DEF Inserting
  <2>5. \A d \in Operator : Inserting(d)' => SentIsOnTopic(d)'
    BY <2>1, <2>3, <2>4 DEF AuditInv, Inserting, SentIsOnTopic
  <2>6. \A d \in Operator : Inserting(d) => requests'[d] = requests[d]
    BY <1>2, <2>3
  <2>7. \A a \in topic' : Accounted(a)'
    <3> TAKE a \in topic'
    <3>1. CASE a = attempt
      BY <3>1, <2>4 DEF Accounted
    <3>2. CASE a \in topic
      BY <3>2, <1>1, <2>6 DEF AuditInv, Accounted, Inserting
    <3> QED
      BY <2>1, <3>1, <3>2
  <2>8. \A row \in audit' : row.published => row.attempt \in topic'
    BY <1>1, <2>1 DEF AuditInv
  <2> QED
    BY <2>3, <2>5, <2>7, <2>8 DEF AuditInv
<1> QED
  BY <1>3, <1>4 DEF Publish

LEMMA InsertAlertOK ==
  ASSUME AuditInv, NEW c \in Operator, InsertAlert(c)
  PROVE  AuditInv'
<1> DEFINE alert == requests[c].alert
           row   == AlertDoc(alert, Published(requests[c].outcome))
<1>1. topic' = topic /\ Inserting(c)
  BY DEF InsertAlert, Inserting
<1>2. /\ requests'[c].at # "insert"
      /\ \A d \in Operator : d # c => requests'[d] = requests[d]
      /\ requests' = [d \in Operator |-> requests'[d]]
  BY DEF InsertAlert, Respond, NoRequest, AuditInv
<1>3. \A d \in Operator : Inserting(d)' => SentIsOnTopic(d)'
  BY <1>1, <1>2 DEF AuditInv, Inserting, SentIsOnTopic
<1>4. row.attempt = alert.attempt /\ (row.published => row.attempt \in topic)
  BY <1>1 DEF AlertDoc, Published, AuditInv, SentIsOnTopic
<1>5. \/ audit' = audit \cup {row} /\ unrecorded' = unrecorded
      \/ audit' = audit /\ unrecorded' = unrecorded \cup {alert.attempt}
  BY DEF InsertAlert
<1>6. \A a \in topic' : Accounted(a)'
  <2> TAKE a \in topic'
  <2>1. CASE a = alert.attempt
    BY <2>1, <1>4, <1>5 DEF Accounted
  <2>2. CASE a # alert.attempt
    BY <2>2, <1>1, <1>2, <1>5 DEF AuditInv, Accounted, Inserting
  <2> QED
    BY <2>1, <2>2
<1>7. \A r \in audit' : r.published => r.attempt \in topic'
  BY <1>1, <1>4, <1>5 DEF AuditInv
<1> QED
  BY <1>2, <1>3, <1>6, <1>7 DEF AuditInv

\* A restart leaves no request, and counts those at their insert as unrecorded.
LEMMA CrashOK == AuditInv /\ Crash => AuditInv'
<1> SUFFICES ASSUME AuditInv, Crash PROVE AuditInv'
  OBVIOUS
<1>1. /\ requests' = [c \in Operator |-> requests'[c]]
      /\ \A c \in Operator : ~ Inserting(c)'
  BY DEF Crash, Inserting, NoRequest
<1>2. /\ UNCHANGED <<topic, audit>> /\ unrecorded \subseteq unrecorded'
      /\ \A c \in Operator : Inserting(c) => requests[c].alert.attempt \in unrecorded'
  BY DEF Crash, Inserting
<1>3. \A a \in topic' : Accounted(a)'
  BY <1>2 DEF AuditInv, Accounted
<1> QED
  BY <1>1, <1>2, <1>3 DEF AuditInv

-------------------------------------------------------------------------------

LEMMA StepOK == AuditInv /\ [Next]_vars => AuditInv'
<1> SUFFICES ASSUME AuditInv, [Next]_vars PROVE AuditInv'
  OBVIOUS
<1>1. CASE \/ \E c \in Client : Storage(c)
           \/ \E id \in Ids : Expires(id)
           \/ CreateAnnotation
           \/ UNCHANGED vars
  BY <1>1, ElsewhereFacts DEF Storage, Expires, CreateAnnotation, vars, alertVars
<1>2. CASE \E w \in Writer : Write(w)
  BY <1>2, ElsewhereFacts
     DEF Write, RecordEvent, UpsertSuperevent, StoreBlob, BlobStored, alertVars
<1>3. CASE \E c \in Operator : Download(c) \/ Downloaded(c)
  BY <1>3, ElsewhereFacts DEF Download, Downloaded, alertVars
<1>4. CASE \E c \in Operator : PressPublish(c)
  BY <1>4, PressPublishOK
<1>5. CASE \E c \in Operator :
             ReadSuperevent(c) \/ ReadAnnotations(c) \/ ReadEvent(c) \/ TakeMap(c)
  BY <1>5, ReadSupereventOK, ReadAnnotationsOK, ReadEventOK, TakeMapOK, EarlyFacts
<1>6. CASE \E c \in Operator : Publish(c)
  BY <1>6, PublishOK
<1>7. CASE \E c \in Operator : InsertAlert(c)
  BY <1>7, InsertAlertOK
<1>8. CASE Crash
  BY <1>8, CrashOK
<1> QED
  BY <1>1, <1>2, <1>3, <1>4, <1>5, <1>6, <1>7, <1>8 DEF Next, CreateAlert

\* However reads, writers, failures of the broker and of the archive, and restarts
\* interleave: a row says published only of what is on the topic, and of what is there
\* nothing is without a row but what is known to be (create_alert in src/api.rs).
THEOREM AuditStaysTruthful == Spec => []AuditIsTruthful
<1>1. AuditInv => AuditIsTruthful
  BY DEF AuditInv, AuditIsTruthful, Accounted, Inserting
<1> QED
  BY InitOK, StepOK, <1>1, PTL DEF Spec

-------------------------------------------------------------------------------
(* The map of an alert.  A request compares two values of `progress': since when
   it was pressed and now.  Progress only grows, so equal values mean that no
   writer moved between them, and a writer that is at the beginning of a write
   and does not move has no call of the storage either. *)

InProgress == {"lookup", "object", "fill"}

\* A call is none, answered or in progress; only a sky map is ever looked for in the
\* cache or put there; operators only get.
CallOK(c) ==
  \/ calls[c] = NoCall
  \/ /\ calls[c].at = "answered"
     /\ calls[c] = [at |-> "answered", answer |-> calls[c].answer, blob |-> calls[c].blob]
  \/ /\ calls[c].at \in InProgress
     /\ calls[c] = [ op |-> calls[c].op, key |-> calls[c].key, blob |-> calls[c].blob,
                     at |-> calls[c].at ]
     /\ calls[c].key[1] = "skymaps" => calls[c].key = SkymapKey(calls[c].key[2])
     /\ calls[c].at \in {"lookup", "fill"} => calls[c].key[1] = "skymaps"
     /\ c \in Operator => calls[c].op = "get"

Positions == [Writer -> Nat \X Nat]

CallsInv ==
  /\ calls = [c \in Client |-> calls[c]]
  /\ \A c \in Client : CallOK(c)
  /\ \A w \in Writer : calls[w] # NoCall => IsAt(w, {"map", "contour"})
  /\ progress \in Positions

\* One position of a writer is not after another.
Before(p, q) == p[1] < q[1] \/ (p[1] = q[1] /\ p[2] <= q[2])

\* The positions of the writers at the press, if all was settled then, and at present.
SinceOK(since, recent) ==
  since = <<>> \/ (since \in Positions /\ \A w \in Writer : Before(since[w], recent[w]))

\* The storage is asked for the map of a superevent, or gave the one it has.
MapCall(c, id) ==
  \/ /\ calls[c].at = "answered"
     /\ calls[c].answer # "error" => calls[c].blob = Stored(SkymapKey(id))
  \/ calls[c].at \in InProgress /\ calls[c].key = SkymapKey(id)

\* What a request has read is what is there.
UpToDate(c, r) ==
  /\ Settled(r.id)
  /\ r.at # "superevent" => r.id \in DOMAIN superevents /\ r.doc = superevents[r.id]
  /\ r.at = "map" => r.doc.skymap_summary # NoBlob /\ MapCall(c, r.id)
  /\ r.at = "publish" => r.map = r.doc.skymap_summary

Reading == {"superevent", "annotations", "event", "map", "publish"}

RequestOK(c, r) ==
  \/ r = NoRequest
  \/ r.at = "insert" /\ (r.alert.settled => r.alert.skymap = r.alert.described)
  \/ /\ r.at \in Reading
     /\ {"id", "since"} \subseteq DOMAIN r /\ r.id \in Ids /\ SinceOK(r.since, progress)
     /\ r.at # "superevent" => "doc" \in DOMAIN r
     /\ r.since = progress => UpToDate(c, r)

MapInv ==
  /\ CallsInv
  /\ requests = [c \in Operator |-> requests[c]]
  /\ \A c \in Operator : RequestOK(c, requests[c])

LEMMA AnswersFacts ==
  ASSUME CallsInv, NEW d \in Client, NEW answer, NEW blob, Answers(d, answer, blob)
  PROVE  /\ calls'[d] = [at |-> "answered", answer |-> answer, blob |-> blob]
         /\ \A c \in Client : c # d => calls'[c] = calls[c]
         /\ calls' = [c \in Client |-> calls'[c]]
  BY DEF CallsInv, Answers

LEMMA GoesFacts ==
  ASSUME CallsInv, NEW d \in Client, calls[d].at \in InProgress, NEW step, Goes(d, step)
  PROVE  /\ calls'[d] = [op |-> calls[d].op, key |-> calls[d].key, blob |-> calls[d].blob, at |-> step]
         /\ \A c \in Client : c # d => calls'[c] = calls[c]
         /\ calls' = [c \in Client |-> calls'[c]]
<1>1. calls[d] = [op |-> calls[d].op, key |-> calls[d].key, blob |-> calls[d].blob, at |-> calls[d].at]
  BY DEF CallsInv, CallOK, NoCall, InProgress
<1>2. calls'[d] = [calls[d] EXCEPT !.at = step]
  BY DEF CallsInv, Goes
<1>3. calls'[d] = [op |-> calls[d].op, key |-> calls[d].key, blob |-> calls[d].blob, at |-> step]
  BY <1>1, <1>2
<1> QED
  BY <1>3 DEF CallsInv, Goes

\* A call goes on or is answered, and the others stay.
Moved(d) ==
  /\ \A c \in Client : c # d => calls'[c] = calls[c]
  /\ calls' = [c \in Client |-> calls'[c]]
  /\ \/ /\ calls'[d].at = "answered"
        /\ calls'[d] = [at |-> "answered", answer |-> calls'[d].answer, blob |-> calls'[d].blob]
     \/ /\ calls'[d].at \in {"object", "fill"}
        /\ calls'[d] = [ op |-> calls[d].op, key |-> calls[d].key, blob |-> calls'[d].blob,
                         at |-> calls'[d].at ]
        /\ calls'[d].at = "fill" => calls[d].key[1] = "skymaps"

\* A get, of a map on which cache and store agree, comes back with the stored one.
Faithful(d) ==
  \A id :
    /\ Coherent(id) /\ calls[d].key = SkymapKey(id)
    /\ (calls'[d].at = "answered" /\ calls'[d].answer # "error") \/ calls'[d].at = "fill"
    => calls'[d].blob = Stored(SkymapKey(id))

\* An entry of the cache is an old one or the map of the call.
CacheStep(d) ==
  \A id \in DOMAIN cache' :
    \/ id \in DOMAIN cache /\ cache'[id] = cache[id]
    \/ calls[d].at = "fill" /\ calls[d].key[2] = id /\ cache'[id].blob = calls[d].blob

LEMMA AnswerMoves ==
  ASSUME CallsInv, NEW d \in Client, NEW answer, NEW blob, Answers(d, answer, blob)
  PROVE  /\ Moved(d) /\ calls'[d].at = "answered"
         /\ calls'[d].answer = answer /\ calls'[d].blob = blob
<1>1. /\ calls'[d] = [at |-> "answered", answer |-> answer, blob |-> blob]
      /\ \A c \in Client : c # d => calls'[c] = calls[c]
      /\ calls' = [c \in Client |-> calls'[c]]
  BY AnswersFacts
<1>2. calls'[d].at = "answered" /\ calls'[d].answer = answer /\ calls'[d].blob = blob
  BY <1>1
<1> QED
  BY <1>1, <1>2 DEF Moved

LEMMA GoesMoves ==
  ASSUME CallsInv, NEW d \in Client, calls[d].at \in InProgress,
         NEW step \in {"object", "fill"}, Goes(d, step),
         step = "fill" => calls[d].key[1] = "skymaps"
  PROVE  Moved(d) /\ calls'[d].at = step
<1>1. /\ calls'[d] = [op |-> calls[d].op, key |-> calls[d].key, blob |-> calls[d].blob, at |-> step]
      /\ \A c \in Client : c # d => calls'[c] = calls[c]
      /\ calls' = [c \in Client |-> calls'[c]]
  BY GoesFacts
<1>2. calls'[d].at = step /\ calls'[d].blob = calls[d].blob
  BY <1>1
<1> QED
  BY <1>1, <1>2 DEF Moved

LEMMA LookupStep ==
  ASSUME CallsInv, NEW d \in Client, Lookup(d)
  PROVE  Moved(d) /\ Faithful(d) /\ CacheStep(d) /\ UNCHANGED objects
<1>1. CASE Goes(d, "object")
  <2>1. Moved(d) /\ calls'[d].at = "object"
    BY <1>1, GoesMoves DEF Lookup, InProgress
  <2> QED
    BY <2>1 DEF Faithful, CacheStep, Lookup
<1>2. CASE calls[d].key[2] \in DOMAIN cache /\ Answers(d, "ok", cache[calls[d].key[2]].blob)
  <2>1. Faithful(d)
    BY <1>2, AnswerMoves DEF Faithful, Coherent, SkymapKey
  <2> QED
    BY <1>2, <2>1, AnswerMoves DEF CacheStep, Lookup
<1> QED
  BY <1>1, <1>2 DEF Lookup

LEMMA FillStep ==
  ASSUME CallsInv, NEW d \in Client, Fill(d)
  PROVE  Moved(d) /\ Faithful(d) /\ CacheStep(d) /\ UNCHANGED objects
<1>1. calls[d].at = "fill" /\ Answers(d, "ok", calls[d].blob)
  BY DEF Fill
<1>2. Moved(d) /\ calls'[d].blob = calls[d].blob
  BY <1>1, AnswerMoves
<1>3. Faithful(d)
  BY <1>1, <1>2 DEF Faithful, Coherent
<1>4. CacheStep(d)
  BY <1>1 DEF Fill, CacheStep, CacheEntry
<1> QED
  BY <1>2, <1>3, <1>4 DEF Fill

\* The object itself: three ways to it, that differ in what comes after.
LEMMA ObjectStep ==
  ASSUME CallsInv, NEW d \in Client, MongoCall(d) \/ S3MapCall(d) \/ S3BlobCall(d)
  PROVE  /\ Moved(d) /\ CacheStep(d)
         /\ calls[d].op = "get" => Faithful(d) /\ UNCHANGED objects
<1> DEFINE key == calls[d].key
<1>1. calls[d].at \in InProgress /\ CacheStep(d)
  BY DEF MongoCall, S3MapCall, S3BlobCall, InProgress, CacheStep
<1>2. calls[d] = [op |-> calls[d].op, key |-> key, blob |-> calls[d].blob, at |-> calls[d].at]
  BY <1>1 DEF CallsInv, CallOK, NoCall, InProgress
<1>3. ASSUME NEW answer, NEW blob, Answers(d, answer, blob)
      PROVE  Moved(d)
  BY <1>3, AnswerMoves
<1>4. CASE calls[d].op = "upsert"
  <2>1. CASE UsesCache(d, key) /\ Goes(d, "fill")
    BY <1>1, <1>4, <2>1, GoesMoves DEF UsesCache, InS3
  <2>2. CASE Answers(d, "ok", calls[d].blob) \/ Answers(d, "error", NoBlob)
    BY <1>1, <1>3, <1>4, <2>2
  <2>3. \/ UsesCache(d, key) /\ Goes(d, "fill")
        \/ Answers(d, "ok", calls[d].blob) \/ Answers(d, "error", NoBlob)
    BY <1>4 DEF MongoCall, S3MapCall, S3BlobCall, Replace, Find
  <2> QED
    BY <1>1, <1>4, <2>1, <2>2, <2>3
<1>5. CASE calls[d].op = "get" /\ objects' = objects
  <2>1. CASE Answers(d, "error", NoBlob)
    BY <1>1, <1>5, <2>1, AnswerMoves DEF Faithful
  <2>2. CASE key \notin DOMAIN objects /\ Answers(d, "not found", NoBlob)
    BY <1>1, <1>5, <2>2, AnswerMoves DEF Faithful, Stored
  <2>3. CASE Answers(d, "ok", Stored(key))
    BY <1>1, <1>5, <2>3, AnswerMoves DEF Faithful
  <2>4. CASE /\ UsesCache(d, key)
             /\ calls' = [calls EXCEPT ![d].at = "fill", ![d].blob = Stored(key)]
    <3>1. calls'[d] = [op |-> calls[d].op, key |-> key, blob |-> Stored(key), at |-> "fill"]
      <4>1. calls'[d] = [calls[d] EXCEPT !.at = "fill", !.blob = Stored(key)]
        BY <2>4 DEF CallsInv
      <4> QED
        BY <1>2, <4>1
    <3>2. Moved(d)
      BY <2>4, <3>1 DEF Moved, UsesCache, InS3, CallsInv
    <3> QED
      BY <1>1, <1>5, <3>1, <3>2 DEF Faithful
  <2>5. \/ Answers(d, "error", NoBlob)
        \/ key \notin DOMAIN objects /\ Answers(d, "not found", NoBlob)
        \/ Answers(d, "ok", Stored(key))
        \/ /\ UsesCache(d, key)
           /\ calls' = [calls EXCEPT ![d].at = "fill", ![d].blob = Stored(key)]
    BY <1>5 DEF MongoCall, S3MapCall, S3BlobCall, Replace, Find
  <2> QED
    BY <1>1, <1>5, <2>1, <2>2, <2>3, <2>4, <2>5
<1> QED
  BY <1>4, <1>5 DEF MongoCall, S3MapCall, S3BlobCall, Replace, Find

LEMMA StorageMoves ==
  ASSUME CallsInv, NEW d \in Client, StorageStep(d)
  PROVE  /\ calls[d].at \in InProgress /\ Moved(d) /\ CacheStep(d)
         /\ calls[d].op = "get" => Faithful(d) /\ UNCHANGED objects
<1>1. calls[d].at \in InProgress
  BY DEF StorageStep, Lookup, MongoCall, S3MapCall, S3BlobCall, Fill, InProgress
<1> QED
  BY <1>1, LookupStep, FillStep, ObjectStep DEF StorageStep

-------------------------------------------------------------------------------
(* The writers.  One that is at the beginning of a write has no call of the
   storage, and has to move before it gets one. *)

LEMMA FirstStep == Step[1] = "event"
<1>1. [n \in DOMAIN Levels |-> "contour"] \in Seq({"contour"})
  BY LevelsAssumption
<1>2. <<"event", "doc", "map">> \in Seq({"event", "doc", "map"})
  OBVIOUS
<1> QED
  BY <1>1, <1>2 DEF Step

LEMMA SettledWriters ==
  ASSUME CallsInv, NEW id, Settled(id), NEW w \in Writer
  PROVE  calls[w] = NoCall /\ ~ IsAt(w, {"doc"}) /\ ~ IsAt(w, {"map", "contour"})
  BY FirstStep DEF CallsInv, Settled, IsAt

LEMMA MoveFacts ==
  ASSUME CallsInv, NEW w \in Writer,
         NEW position \in {NextWrite(w), NextStep(w), AfterError(w)}, Moves(w, position)
  PROVE  /\ progress' \in Positions /\ progress'[w] # progress[w]
         /\ \A v \in Writer : v # w => progress'[v] = progress[v]
         /\ \A v \in Writer : Before(progress[v], progress'[v])
<1>1. /\ progress \in Positions
      /\ progress[w] = <<progress[w][1], progress[w][2]>>
      /\ \A v \in Writer : progress[v][1] \in Nat /\ progress[v][2] \in Nat
  BY DEF CallsInv, Positions
<1>2. \/ position = <<progress[w][1] + 1, 1>>
      \/ position = <<progress[w][1], progress[w][2] + 1>>
  BY DEF NextWrite, NextStep, AfterError
<1>3. position \in Nat \X Nat /\ position # progress[w] /\ Before(progress[w], position)
  BY <1>1, <1>2 DEF Before
<1>4. progress' = [progress EXCEPT ![w] = position]
  BY DEF Moves
<1> QED
  BY <1>1, <1>3, <1>4 DEF Positions, Before

\* Positions only grow, so that no writer moved between two equal ones.
LEMMA SinceSteps ==
  ASSUME NEW s, NEW p \in Positions, NEW q \in Positions, Writer # {},
         SinceOK(s, p), \A w \in Writer : Before(p[w], q[w])
  PROVE  SinceOK(s, q) /\ (s = q => p = q)
<1>1. CASE s = <<>>
  <2>1. q # <<>>
    BY DEF Positions
  <2> QED
    BY <1>1, <2>1 DEF SinceOK
<1>2. CASE s \in Positions /\ \A w \in Writer : Before(s[w], p[w])
  <2>1. \A w \in Writer :
          /\ s[w] = <<s[w][1], s[w][2]>> /\ p[w] = <<p[w][1], p[w][2]>>
          /\ q[w] = <<q[w][1], q[w][2]>>
          /\ s[w][1] \in Nat /\ s[w][2] \in Nat /\ p[w][1] \in Nat /\ p[w][2] \in Nat
          /\ q[w][1] \in Nat /\ q[w][2] \in Nat
    BY <1>2 DEF Positions
  <2>2. \A w \in Writer : Before(s[w], q[w])
    BY <1>2, <2>1 DEF Before
  <2>3. ASSUME s = q
        PROVE  p = q
    <3>1. \A w \in Writer : p[w][1] = q[w][1] /\ p[w][2] = q[w][2]
      BY <1>2, <2>1, <2>3 DEF Before
    <3>2. \A w \in Writer : p[w] = q[w]
      BY <2>1, <3>1
    <3> QED
      BY <3>2 DEF Positions
  <2> QED
    BY <1>2, <2>2, <2>3 DEF SinceOK
<1> QED
  BY <1>1, <1>2 DEF SinceOK

LEMMA SamePlaces ==
  ASSUME NEW p \in Positions
  PROVE  \A w \in Writer : Before(p[w], p[w])
  BY DEF Positions, Before

\* A call as it begins.
KeyOK(key) == key[1] = "skymaps" => key = SkymapKey(key[2])

LEMMA KeysOK ==
  ASSUME NEW id, NEW level
  PROVE  KeyOK(SkymapKey(id)) /\ KeyOK(ContourKey(id, level))
  BY DEF KeyOK, SkymapKey, ContourKey

LEMMA CallsAreOK ==
  ASSUME NEW c \in Client, NEW op, c \in Operator => op = "get", NEW key, KeyOK(key), NEW blob,
         calls'[c] = Call(op, c, key, blob)
  PROVE  CallOK(c)' /\ calls'[c].at \in {"lookup", "object"} /\ calls'[c].key = key
<1>1. calls'[c].op = op /\ calls'[c].key = key /\ calls'[c].blob = blob
  BY DEF Call
<1>2. calls'[c].at \in {"lookup", "object"} /\ (calls'[c].at = "lookup" => key[1] = "skymaps")
  BY DEF Call, UsesCache, InS3
<1>3. calls'[c] = [op |-> op, key |-> key, blob |-> blob, at |-> calls'[c].at]
  BY DEF Call
<1> QED
  BY <1>1, <1>2, <1>3 DEF CallOK, InProgress, KeyOK

\* The calls and positions of the writers are kept by every step of one of them.
LEMMA CallsOfWrite ==
  ASSUME CallsInv, NEW w \in Writer, Write(w)
  PROVE  /\ CallsInv' /\ \A v \in Writer : Before(progress[v], progress'[v])
         /\ UNCHANGED requests
         /\ \A id : Settled(id) => progress' # progress
<1>1. /\ progress \in Positions /\ w \in Client
      /\ \A c \in Client : c \in Writer \/ c \in Operator
      /\ \A v \in Writer : v \in Client /\ v \notin Operator
      /\ calls = [c \in Client |-> calls[c]]
  BY ClientAssumption DEF CallsInv, Positions
<1>2. CASE RecordEvent(w) \/ UpsertSuperevent(w)
  <2>1. /\ calls' = calls /\ requests' = requests
        /\ IsAt(w, {"event"}) \/ IsAt(w, {"doc"})
        /\ \E position \in {NextWrite(w), NextStep(w), AfterError(w)} : Moves(w, position)
    BY <1>2 DEF RecordEvent, UpsertSuperevent, alertVars
  <2>2. calls[w] = NoCall
    BY <2>1 DEF CallsInv, IsAt
  <2>3. \A v \in Writer : calls'[v] # NoCall => IsAt(v, {"map", "contour"})'
    BY <2>1, <2>2, MoveFacts DEF CallsInv, IsAt, HasWork
  <2>4. \A c \in Client : CallOK(c)'
    BY <2>1 DEF CallsInv, CallOK
  <2> QED
    BY <1>1, <2>1, <2>3, <2>4, MoveFacts DEF CallsInv, Positions
<1>3. CASE StoreBlob(w)
  <2>1. /\ calls[w] = NoCall /\ requests' = requests /\ IsAt(w, {"map", "contour"})
    BY <1>3 DEF StoreBlob, alertVars
  <2>2. \A id : ~ Settled(id)
    BY <2>1, SettledWriters
  <2>3. CASE Moves(w, NextWrite(w)) /\ calls' = calls
    <3>1. \A v \in Writer : calls'[v] # NoCall => IsAt(v, {"map", "contour"})'
      BY <2>1, <2>3, MoveFacts DEF CallsInv, IsAt, HasWork
    <3>2. \A c \in Client : CallOK(c)'
      BY <2>3 DEF CallsInv, CallOK
    <3> QED
      BY <1>1, <2>1, <2>2, <2>3, <3>1, <3>2, MoveFacts DEF CallsInv, Positions
  <2>4. CASE /\ calls' = [calls EXCEPT ![w] = Call("upsert", w, BlobKey(w), Current(w).map)]
             /\ progress' = progress
    <3>1. KeyOK(BlobKey(w))
      BY KeysOK DEF BlobKey
    <3>2. calls'[w] = Call("upsert", w, BlobKey(w), Current(w).map)
      BY <1>1, <2>4
    <3>3. CallOK(w)'
      BY <1>1, <3>1, <3>2, CallsAreOK
    <3>4. \A c \in Client : CallOK(c)'
      BY <2>4, <3>3 DEF CallsInv, CallOK
    <3>5. \A v \in Writer : calls'[v] # NoCall => IsAt(v, {"map", "contour"})'
      BY <1>1, <2>1, <2>4 DEF CallsInv, IsAt, HasWork
    <3> QED
      BY <1>1, <2>1, <2>2, <2>4, <3>4, <3>5, SamePlaces DEF CallsInv, Positions
  <2> QED
    BY <1>3, <2>3, <2>4 DEF StoreBlob
<1>4. CASE BlobStored(w)
  <2>1. /\ requests' = requests /\ calls' = [calls EXCEPT ![w] = NoCall]
        /\ \E position \in {NextWrite(w), NextStep(w), AfterError(w)} : Moves(w, position)
    BY <1>4 DEF BlobStored, alertVars
  <2>2. \A v \in Writer : calls'[v] # NoCall => IsAt(v, {"map", "contour"})'
    BY <1>1, <2>1, MoveFacts DEF CallsInv, IsAt, HasWork
  <2>3. \A c \in Client : CallOK(c)'
    BY <1>1, <2>1 DEF CallsInv, CallOK
  <2> QED
    BY <1>1, <2>1, <2>2, <2>3, MoveFacts DEF CallsInv, Positions
<1> QED
  BY <1>2, <1>3, <1>4 DEF Write

-------------------------------------------------------------------------------
(* What the steps of others leave to a request *)

\* If no writer moves, what was settled stays so, and the call of c comes to the map.
Steady(c) ==
  /\ progress' \in Positions /\ \A w \in Writer : Before(progress[w], progress'[w])
  /\ progress' = progress =>
       \A id : Settled(id) =>
         /\ Settled(id)' /\ superevents' = superevents
         /\ c \in Operator /\ MapCall(c, id) => MapCall(c, id)'

LEMMA StorageSteady ==
  ASSUME CallsInv, NEW d \in Client, Storage(d)
  PROVE  CallsInv' /\ UNCHANGED requests /\ \A c \in Client : Steady(c)
<1>1. /\ calls[d].at \in InProgress /\ Moved(d) /\ CacheStep(d)
      /\ calls[d].op = "get" => Faithful(d) /\ UNCHANGED objects
  BY StorageMoves DEF Storage
<1>2. UNCHANGED <<progress, superevents, requests>>
  BY DEF Storage, archiveVars, alertVars
<1>3. CallOK(d)'
  BY <1>1 DEF CallsInv, CallOK, Moved, InProgress, NoCall
<1>4. CallsInv'
  <2>1. \A c \in Client : CallOK(c)'
    BY <1>1, <1>3 DEF CallsInv, CallOK, Moved
  <2>2. calls[d] # NoCall
    BY <1>1 DEF NoCall, InProgress
  <2>3. \A w \in Writer : calls'[w] # NoCall => IsAt(w, {"map", "contour"})'
    BY <1>1, <1>2, <2>2, ClientAssumption DEF CallsInv, Moved, IsAt, HasWork
  <2> QED
    BY <1>1, <1>2, <2>1, <2>3 DEF CallsInv, Moved
<1>5. ASSUME NEW id, Settled(id)
      PROVE  Settled(id)' /\ \A c \in Operator : MapCall(c, id) => MapCall(c, id)'
  <2>a. calls[d] # NoCall
    BY <1>1 DEF InProgress, NoCall
  <2>b. d \in Operator
    BY <1>5, <2>a, SettledWriters, ClientAssumption
  <2>1. d \in Operator /\ calls[d].op = "get"
    BY <1>1, <2>a, <2>b DEF CallsInv, CallOK, InProgress
  <2>2. Faithful(d) /\ UNCHANGED objects
    BY <1>1, <2>1
  <2>3. Stored(SkymapKey(id))' = Stored(SkymapKey(id))
    BY <2>2 DEF Stored
  <2>4. calls[d].at = "fill" /\ calls[d].key[2] = id => calls[d].key = SkymapKey(id)
    BY DEF CallsInv, CallOK, NoCall, InProgress
  <2>5. id \in DOMAIN cache' => cache'[id].blob = Stored(SkymapKey(id))
    BY <1>1, <1>5, <2>4 DEF CacheStep, Settled, Coherent
  <2>6. ASSUME NEW c \in Client, calls'[c].at = "fill", calls'[c].key = SkymapKey(id)
        PROVE  calls'[c].blob = Stored(SkymapKey(id))
    <3>1. CASE c = d
      <4>1. calls[d].key = SkymapKey(id)
        BY <1>1, <2>6, <3>1 DEF Moved
      <4> QED
        BY <1>5, <2>2, <2>6, <3>1, <4>1 DEF Faithful, Settled
    <3>2. CASE c # d
      BY <1>1, <1>5, <2>6, <3>2 DEF Moved, Settled, Coherent
    <3> QED
      BY <3>1, <3>2
  <2>7. Coherent(id)'
    BY <2>3, <2>5, <2>6 DEF Coherent
  <2>8. Settled(id)'
    BY <1>2, <1>5, <2>3, <2>7 DEF Settled, HasWork
  <2>9. ASSUME NEW c \in Operator, MapCall(c, id)
        PROVE  MapCall(c, id)'
    <3>1. CASE c = d
      <4>1. calls[d].key = SkymapKey(id)
        BY <1>1, <2>9, <3>1 DEF MapCall, InProgress
      <4>2. CASE calls'[d].at = "answered"
        BY <1>5, <2>2, <2>3, <3>1, <4>1, <4>2 DEF Faithful, MapCall, Settled
      <4>3. CASE calls'[d].at \in {"object", "fill"} /\ calls'[d].key = calls[d].key
        BY <3>1, <4>1, <4>3 DEF MapCall, InProgress
      <4> QED
        BY <1>1, <4>2, <4>3 DEF Moved
    <3>2. CASE c # d
      <4>1. calls'[c] = calls[c]
        BY <1>1, <3>2, ClientAssumption DEF Moved
      <4> QED
        BY <2>3, <2>9, <4>1 DEF MapCall
    <3> QED
      BY <3>1, <3>2
  <2> QED
    BY <2>8, <2>9
<1>6. progress \in Positions /\ progress' \in Positions
  BY <1>2 DEF CallsInv, Positions
<1> QED
  BY <1>2, <1>4, <1>5, <1>6, SamePlaces DEF Steady

LEMMA WriteSteady ==
  ASSUME CallsInv, NEW w \in Writer, Write(w)
  PROVE  CallsInv' /\ UNCHANGED requests /\ \A c \in Client : Steady(c)
<1>1. /\ CallsInv' /\ \A v \in Writer : Before(progress[v], progress'[v])
      /\ UNCHANGED requests /\ \A id : Settled(id) => progress' # progress
  BY CallsOfWrite
<1>2. progress' \in Positions
  BY <1>1 DEF CallsInv, Positions
<1> QED
  BY <1>1, <1>2 DEF Steady

\* A step of an operator's task: a call begins or ends, and nothing else changes that
\* a request goes by.
OperatorStep(d) ==
  /\ UNCHANGED <<progress, objects, cache, superevents>>
  /\ calls' = [c \in Client |-> calls'[c]]
  /\ \A c \in Client : c # d => calls'[c] = calls[c]
  /\ \/ calls'[d] \in {calls[d], NoCall}
     \/ \E key : KeyOK(key) /\ calls'[d] = Call("get", d, key, NoBlob)

LEMMA OperatorSteady ==
  ASSUME CallsInv, NEW d \in Operator, OperatorStep(d)
  PROVE  /\ CallsInv' /\ \A id : Settled(id) => Settled(id)'
         /\ \A c \in Client : c # d => Steady(c)
<1>1. d \in Client /\ d \notin Writer /\ progress \in Positions /\ progress' \in Positions
  BY ClientAssumption DEF CallsInv, Positions, OperatorStep
<1>2. CallOK(d)' /\ (calls'[d].at = "fill" => calls'[d] = calls[d])
  <2>1. CASE calls'[d] = calls[d]
    BY <1>1, <2>1 DEF CallsInv, CallOK
  <2>2. CASE calls'[d] = NoCall
    BY <2>2 DEF CallOK, NoCall
  <2>3. CASE \E key : KeyOK(key) /\ calls'[d] = Call("get", d, key, NoBlob)
    BY <1>1, <2>3, CallsAreOK
  <2> QED
    BY <2>1, <2>2, <2>3 DEF OperatorStep
<1>3. \A c \in Client : CallOK(c)'
  BY <1>2 DEF CallsInv, CallOK, OperatorStep
<1>4. CallsInv'
  BY <1>1, <1>3, ClientAssumption DEF CallsInv, OperatorStep, IsAt, HasWork
<1>5. ASSUME NEW id, Settled(id)
      PROVE  Settled(id)'
  <2>1. Stored(SkymapKey(id))' = Stored(SkymapKey(id))
    BY DEF Stored, OperatorStep
  <2>2. Coherent(id)'
    BY <1>2, <1>5, <2>1 DEF Settled, Coherent, OperatorStep
  <2> QED
    BY <1>5, <2>1, <2>2 DEF Settled, HasWork, OperatorStep
<1>6. ASSUME NEW c \in Operator, c # d, NEW id, MapCall(c, id)
      PROVE  MapCall(c, id)'
  BY <1>6, ClientAssumption DEF MapCall, OperatorStep, Stored
<1> QED
  BY <1>1, <1>4, <1>5, <1>6, SamePlaces DEF Steady, OperatorStep

\* The request of c is as good as it was.
LEMMA RequestStays ==
  ASSUME MapInv, CallsInv', NEW c \in Operator, Steady(c), requests'[c] = requests[c]
  PROVE  RequestOK(c, requests[c])'
<1> DEFINE r == requests[c]
<1>1. CASE r = NoRequest \/ r.at = "insert"
  BY <1>1 DEF MapInv, RequestOK, NoRequest, Reading
<1>2. CASE r.at \in Reading
  <2>1. /\ {"id", "since"} \subseteq DOMAIN r /\ r.id \in Ids /\ SinceOK(r.since, progress)
        /\ r.at # "superevent" => "doc" \in DOMAIN r
        /\ r.since = progress => UpToDate(c, r)
    BY <1>2 DEF MapInv, RequestOK, NoRequest, Reading
  <2>2. /\ Writer # {} /\ progress \in Positions /\ progress' \in Positions
        /\ \A w \in Writer : Before(progress[w], progress'[w])
    BY <2>1 DEF MapInv, CallsInv, Positions, Ids, Steady
  <2>3. SinceOK(r.since, progress')
    BY <2>1, <2>2, SinceSteps
  <2>4. r.since = progress' => progress' = progress
    BY <2>1, <2>2, SinceSteps
  <2>5. ASSUME r.since = progress'
        PROVE  UpToDate(c, r)'
    <3>1. progress' = progress /\ UpToDate(c, r)
      BY <2>1, <2>4, <2>5
    <3>2. /\ Settled(r.id)' /\ superevents' = superevents
          /\ MapCall(c, r.id) => MapCall(c, r.id)'
      BY <3>1 DEF Steady, UpToDate
    <3> QED
      BY <3>1, <3>2 DEF UpToDate
  <2> QED
    BY <1>2, <2>1, <2>3, <2>5 DEF RequestOK
<1> QED
  BY <1>1, <1>2 DEF MapInv, RequestOK

-------------------------------------------------------------------------------
(* The steps of a request *)

LEMMA RequestMoves ==
  ASSUME MapInv, NEW d \in Operator, OperatorStep(d), NEW r, requests' = [requests EXCEPT ![d] = r],
         RequestOK(d, requests[d])'
  PROVE  MapInv'
<1>1. CallsInv' /\ \A c \in Client : c # d => Steady(c)
  BY OperatorSteady DEF MapInv
<1>2. /\ requests' = [c \in Operator |-> requests'[c]]
      /\ \A c \in Operator : c # d => requests'[c] = requests[c]
  BY DEF MapInv
<1>3. \A c \in Operator : RequestOK(c, requests[c])'
  BY <1>1, <1>2, RequestStays, ClientAssumption
<1> QED
  BY <1>1, <1>2, <1>3 DEF MapInv

LEMMA RequestEnds ==
  ASSUME MapInv, NEW d \in Operator, OperatorStep(d), Respond(d)
  PROVE  MapInv'
<1>1. requests'[d] = NoRequest
  BY DEF Respond, MapInv
<1>2. RequestOK(d, requests[d])'
  BY <1>1 DEF RequestOK
<1> QED
  BY <1>2, RequestMoves DEF Respond

LEMMA LearnsFacts ==
  ASSUME MapInv, NEW d \in Operator, NEW news, Learns(d, news)
  PROVE  /\ DOMAIN requests'[d] = DOMAIN requests[d] \cup DOMAIN news
         /\ \A k \in DOMAIN news : requests'[d][k] = news[k]
         /\ \A k \in DOMAIN requests[d] : k \notin DOMAIN news => requests'[d][k] = requests[d][k]
<1>1. requests'[d] = [k \in DOMAIN requests[d] \cup DOMAIN news |->
                        IF k \in DOMAIN news THEN news[k] ELSE requests[d][k]]
  BY DEF MapInv, Learns
<1> QED
  BY <1>1

\* What is known of a request at one of its reads.
LEMMA ReadingFacts ==
  ASSUME MapInv, NEW d \in Operator, requests[d].at \in Reading
  PROVE  LET r == requests[d] IN
         /\ {"id", "since"} \subseteq DOMAIN r /\ r.id \in Ids /\ SinceOK(r.since, progress)
         /\ r.at # "superevent" => "doc" \in DOMAIN r
         /\ r.since = progress => UpToDate(d, r)
  BY DEF MapInv, RequestOK, NoRequest, Reading

LEMMA ReadsOn ==
  ASSUME MapInv, NEW d \in Operator, OperatorStep(d), requests[d].at \in Reading,
         NEW news, Learns(d, news), "at" \in DOMAIN news,
         news.at \in Reading, "id" \notin DOMAIN news, "since" \notin DOMAIN news,
         "doc" \in DOMAIN news \/ requests[d].at # "superevent",
         UpToDate(d, requests[d]) => UpToDate(d, requests[d])'
  PROVE  MapInv'
<1> DEFINE r == requests[d]
           next == requests'[d]
<1>1. /\ {"id", "since"} \subseteq DOMAIN r /\ r.id \in Ids /\ SinceOK(r.since, progress)
      /\ r.at # "superevent" => "doc" \in DOMAIN r
      /\ r.since = progress => UpToDate(d, r)
  BY ReadingFacts
<1>2. /\ {"id", "since", "doc"} \subseteq DOMAIN next
      /\ next["at"] = news["at"] /\ next["id"] = r["id"] /\ next["since"] = r["since"]
  BY <1>1, LearnsFacts
<1>3. RequestOK(d, requests[d])'
  BY <1>1, <1>2 DEF RequestOK, OperatorStep
<1> QED
  BY <1>3, RequestMoves DEF Learns

LEMMA PressPublishMap ==
  ASSUME MapInv, NEW d \in Operator, PressPublish(d)
  PROVE  MapInv'
<1>1. OperatorStep(d)
  BY DEF PressPublish, OperatorStep, storageVars, archiveVars, MapInv, CallsInv
<1>2. PICK id \in Ids, dry_run \in BOOLEAN :
        requests' = [requests EXCEPT ![d] =
          [ at |-> "superevent", id |-> id, dry_run |-> dry_run, attempt |-> attempts + 1,
            since |-> IF Settled(id) THEN progress ELSE <<>> ]]
  BY DEF PressPublish
<1> DEFINE since == IF Settled(id) THEN progress ELSE <<>>
<1>3. requests'[d] = [ at |-> "superevent", id |-> id, dry_run |-> dry_run,
                       attempt |-> attempts + 1, since |-> since ]
  BY <1>2 DEF MapInv
<1>4. Writer # {} /\ progress \in Positions /\ progress # <<>> /\ progress' = progress
  BY <1>1 DEF Ids, MapInv, CallsInv, Positions, OperatorStep
<1>5. SinceOK(since, progress)
  BY <1>4, SamePlaces DEF SinceOK
<1>6. since = progress => Settled(id)'
  BY <1>1, <1>4, OperatorSteady DEF MapInv
<1> HIDE DEF since
<1>7. /\ {"id", "since"} \subseteq DOMAIN requests'[d] /\ requests'[d].at = "superevent"
      /\ requests'[d].id = id /\ requests'[d].since = since
  BY <1>3
<1>8. RequestOK(d, requests[d])'
  BY <1>4, <1>5, <1>6, <1>7 DEF RequestOK, Reading, UpToDate
<1> QED
  BY <1>1, <1>2, <1>8, RequestMoves

LEMMA ReadSupereventMap ==
  ASSUME MapInv, NEW d \in Operator, ReadSuperevent(d)
  PROVE  MapInv'
<1>1. OperatorStep(d) /\ requests[d].at \in Reading
  BY DEF ReadSuperevent, OperatorStep, archiveVars, MapInv, CallsInv, Reading
<1>2. CASE GivesUp(d)
  BY <1>1, <1>2, RequestEnds DEF GivesUp
<1>3. CASE /\ requests[d].id \in DOMAIN superevents
           /\ Learns(d, [at |-> "annotations", doc |-> superevents[requests[d].id]])
  <2> DEFINE news == [at |-> "annotations", doc |-> superevents[requests[d].id]]
  <2>1. /\ DOMAIN news = {"at", "doc"} /\ news["at"] = "annotations"
        /\ news["doc"] = superevents[requests[d].id]
    OBVIOUS
  <2> HIDE DEF news
  <2>2. /\ requests'[d]["at"] = "annotations" /\ requests'[d]["id"] = requests[d]["id"]
        /\ requests'[d]["doc"] = superevents[requests[d].id]
    BY <1>1, <1>3, <2>1, ReadingFacts, LearnsFacts DEF news
  <2>3. UpToDate(d, requests[d]) => UpToDate(d, requests[d])'
    BY <1>1, <1>3, <2>2, OperatorSteady DEF UpToDate, OperatorStep, MapInv
  <2> QED
    BY <1>1, <1>3, <2>1, <2>3, ReadsOn DEF news, Reading
<1> QED
  BY <1>2, <1>3 DEF ReadSuperevent

LEMMA ReadAnnotationsMap ==
  ASSUME MapInv, NEW d \in Operator, ReadAnnotations(d)
  PROVE  MapInv'
<1>1. OperatorStep(d) /\ requests[d].at = "annotations" /\ requests[d].at \in Reading
  BY DEF ReadAnnotations, OperatorStep, archiveVars, MapInv, CallsInv, Reading
<1>2. CASE GivesUp(d)
  BY <1>1, <1>2, RequestEnds DEF GivesUp
<1>3. CASE Learns(d, [at |-> "event", classification |-> Classification(requests[d].id)])
  <2> DEFINE news == [at |-> "event", classification |-> Classification(requests[d].id)]
  <2>1. DOMAIN news = {"at", "classification"} /\ news["at"] = "event"
    OBVIOUS
  <2> HIDE DEF news
  <2>2. /\ requests'[d]["at"] = "event" /\ requests'[d]["id"] = requests[d]["id"]
        /\ requests'[d]["doc"] = requests[d]["doc"]
    BY <1>1, <1>3, <2>1, ReadingFacts, LearnsFacts DEF news
  <2>3. UpToDate(d, requests[d]) => UpToDate(d, requests[d])'
    BY <1>1, <2>2, OperatorSteady DEF UpToDate, OperatorStep, MapInv
  <2> QED
    BY <1>1, <1>3, <2>1, <2>3, ReadsOn DEF news, Reading
<1> QED
  BY <1>2, <1>3 DEF ReadAnnotations

LEMMA ReadEventMap ==
  ASSUME MapInv, NEW d \in Operator, ReadEvent(d)
  PROVE  MapInv'
<1> DEFINE r == requests[d]
           call == Call("get", d, SkymapKey(r.id), NoBlob)
<1>1. /\ r.at = "event" /\ r.at \in Reading /\ d \in Client
      /\ calls' = [calls EXCEPT ![d] = call] \/ calls' = calls
  BY ClientAssumption DEF ReadEvent, Reading
<1>2. OperatorStep(d)
  <2>1. UNCHANGED <<progress, objects, cache, superevents>>
    BY DEF ReadEvent, archiveVars
  <2>2. KeyOK(SkymapKey(r.id))
    BY KeysOK
  <2> HIDE DEF call
  <2>3. /\ calls' = [c \in Client |-> calls'[c]] /\ \A c \in Client : c # d => calls'[c] = calls[c]
        /\ calls'[d] = calls[d] \/ calls'[d] = call
    BY <1>1 DEF MapInv, CallsInv
  <2> QED
    BY <2>1, <2>2, <2>3 DEF OperatorStep, call
<1>3. CASE GivesUp(d)
  BY <1>2, <1>3, RequestEnds DEF GivesUp
<1>4. CASE /\ Learns(d, [at |-> IF WantsMap(r.doc) THEN "map" ELSE "publish", map |-> NoBlob])
           /\ calls' = IF WantsMap(r.doc) THEN [calls EXCEPT ![d] = call] ELSE calls
  <2> DEFINE news == [at |-> IF WantsMap(r.doc) THEN "map" ELSE "publish", map |-> NoBlob]
  <2>1. /\ DOMAIN news = {"at", "map"} /\ news["map"] = NoBlob
        /\ news["at"] = IF WantsMap(r.doc) THEN "map" ELSE "publish"
    OBVIOUS
  <2> HIDE DEF news
  <2>2. /\ requests'[d]["at"] = news["at"] /\ requests'[d]["id"] = requests[d]["id"]
        /\ requests'[d]["doc"] = requests[d]["doc"] /\ requests'[d]["map"] = NoBlob
    BY <1>1, <1>4, <2>1, ReadingFacts, LearnsFacts DEF news
  <2>3. WantsMap(r.doc) => MapCall(d, r.id)'
    <3>1. SUFFICES ASSUME WantsMap(r.doc) PROVE MapCall(d, r.id)'
      OBVIOUS
    <3> HIDE DEF call
    <3>2. calls'[d] = call
      BY <1>1, <1>4, <3>1 DEF MapInv, CallsInv
    <3>3. calls'[d].at \in {"lookup", "object"} /\ calls'[d].key = SkymapKey(r.id)
      BY <1>1, <3>2, KeysOK, CallsAreOK DEF call
    <3> QED
      BY <2>2, <3>3 DEF MapCall, InProgress
  <2>4. UpToDate(d, requests[d]) => UpToDate(d, requests[d])'
    BY <1>1, <1>2, <2>1, <2>2, <2>3, OperatorSteady DEF UpToDate, OperatorStep, MapInv, WantsMap
  <2>5. news.at \in Reading
    BY <2>1 DEF Reading
  <2> QED
    BY <1>1, <1>2, <1>4, <2>1, <2>4, <2>5, ReadsOn DEF news
<1> QED
  BY <1>3, <1>4 DEF ReadEvent

LEMMA TakeMapMap ==
  ASSUME MapInv, NEW d \in Operator, TakeMap(d)
  PROVE  MapInv'
<1>1. /\ requests[d].at = "map" /\ requests[d].at \in Reading /\ d \in Client
      /\ calls[d].at = "answered" /\ calls' = [calls EXCEPT ![d] = NoCall]
  BY ClientAssumption DEF TakeMap, Reading
<1>2. OperatorStep(d)
  BY <1>1 DEF TakeMap, OperatorStep, archiveVars, MapInv, CallsInv
<1>3. CASE GivesUp(d)
  BY <1>2, <1>3, RequestEnds DEF GivesUp
<1>4. CASE calls[d].answer # "error" /\ Learns(d, [at |-> "publish", map |-> calls[d].blob])
  <2> DEFINE news == [at |-> "publish", map |-> calls[d].blob]
  <2>1. DOMAIN news = {"at", "map"} /\ news["at"] = "publish" /\ news["map"] = calls[d].blob
    OBVIOUS
  <2> HIDE DEF news
  <2>2. /\ requests'[d]["at"] = "publish" /\ requests'[d]["id"] = requests[d]["id"]
        /\ requests'[d]["doc"] = requests[d]["doc"] /\ requests'[d]["map"] = calls[d].blob
    BY <1>1, <1>4, <2>1, ReadingFacts, LearnsFacts DEF news
  <2>3. UpToDate(d, requests[d]) => calls[d].blob = requests[d].doc.skymap_summary
    BY <1>1, <1>4 DEF UpToDate, MapCall, Settled, InProgress
  <2>4. UpToDate(d, requests[d]) => UpToDate(d, requests[d])'
    BY <1>1, <1>2, <2>2, <2>3, OperatorSteady DEF UpToDate, OperatorStep, MapInv
  <2> QED
    BY <1>1, <1>2, <1>4, <2>1, <2>4, ReadsOn DEF news, Reading
<1> QED
  BY <1>3, <1>4 DEF TakeMap

LEMMA PublishMap ==
  ASSUME MapInv, NEW d \in Operator, Publish(d)
  PROVE  MapInv'
<1>1. OperatorStep(d) /\ requests[d].at = "publish" /\ requests[d].at \in Reading
  BY DEF Publish, OperatorStep, archiveVars, MapInv, CallsInv, Reading
<1>2. CASE Respond(d)
  BY <1>1, <1>2, RequestEnds
<1>3. ASSUME NEW outcome, Leaves(d, outcome)
      PROVE  MapInv'
  <2> DEFINE alert == build_alert(requests[d])
  <2>1. requests[d].since = progress => requests[d].map = requests[d].doc.skymap_summary
    BY <1>1, ReadingFacts DEF UpToDate
  <2>2. /\ alert.skymap = requests[d].map /\ alert.described = requests[d].doc.skymap_summary
        /\ alert.settled = (requests[d].since = progress)
    BY DEF build_alert
  <2>3. alert.settled => alert.skymap = alert.described
    BY <2>1, <2>2
  <2> HIDE DEF alert
  <2>4. requests'[d].at = "insert" /\ requests'[d].alert = alert
    BY <1>3 DEF Leaves, Built, MapInv, alert
  <2>5. RequestOK(d, requests[d])'
    BY <2>3, <2>4 DEF RequestOK
  <2> QED
    BY <1>1, <1>3, <2>5, RequestMoves DEF Leaves
<1> QED
  BY <1>2, <1>3 DEF Publish

LEMMA InsertAlertMap ==
  ASSUME MapInv, NEW d \in Operator, InsertAlert(d)
  PROVE  MapInv'
<1>1. OperatorStep(d)
  BY DEF InsertAlert, OperatorStep, archiveVars, MapInv, CallsInv
<1> QED
  BY <1>1, RequestEnds DEF InsertAlert

\* A download is a call without a request.
LEMMA DownloadMap ==
  ASSUME MapInv, NEW d \in Operator, Download(d) \/ Downloaded(d)
  PROVE  MapInv'
<1>1. /\ requests' = requests /\ requests[d] = NoRequest /\ d \in Client
      /\ UNCHANGED <<progress, objects, cache, superevents>>
  BY ClientAssumption DEF Download, Downloaded, alertVars, archiveVars
<1>2. OperatorStep(d)
  <2>1. CASE Download(d)
    <3>1. PICK key : KeyOK(key) /\ calls' = [calls EXCEPT ![d] = Call("get", d, key, NoBlob)]
      BY <2>1, KeysOK DEF Download
    <3> DEFINE call == Call("get", d, key, NoBlob)
    <3> HIDE DEF call
    <3>2. calls' = [calls EXCEPT ![d] = call]
      BY <3>1 DEF call
    <3>3. /\ calls' = [c \in Client |-> calls'[c]] /\ \A c \in Client : c # d => calls'[c] = calls[c]
          /\ calls'[d] = call
      BY <1>1, <3>2 DEF MapInv, CallsInv
    <3> QED
      BY <1>1, <3>1, <3>3 DEF OperatorStep, call
  <2>2. CASE Downloaded(d)
    BY <1>1, <2>2 DEF Downloaded, OperatorStep, MapInv, CallsInv
  <2> QED
    BY <2>1, <2>2
<1>3. CallsInv' /\ \A c \in Client : c # d => Steady(c)
  BY <1>2, OperatorSteady DEF MapInv
<1>4. RequestOK(d, requests[d])'
  BY <1>1 DEF RequestOK
<1>5. \A c \in Operator : RequestOK(c, requests[c])'
  BY <1>1, <1>3, <1>4, RequestStays, ClientAssumption
<1> QED
  BY <1>1, <1>3, <1>5 DEF MapInv

-------------------------------------------------------------------------------
(* The steps of others *)

LEMMA SteadyKeeps ==
  ASSUME MapInv, CallsInv', UNCHANGED requests, \A c \in Client : Steady(c)
  PROVE  MapInv'
  BY RequestStays, ClientAssumption DEF MapInv

\* An entry of the cache that goes, an annotation that comes.
LEMMA ElsewhereSteady ==
  ASSUME MapInv, UNCHANGED <<calls, progress, requests, objects, superevents>>,
         \A id \in DOMAIN cache' : id \in DOMAIN cache /\ cache'[id] = cache[id]
  PROVE  MapInv'
<1>1. CallsInv'
  BY DEF MapInv, CallsInv, CallOK, IsAt, HasWork
<1>2. progress \in Positions /\ progress' \in Positions
  BY DEF MapInv, CallsInv
<1>3. \A id : Stored(SkymapKey(id))' = Stored(SkymapKey(id))
  BY DEF Stored
<1>4. \A id : Settled(id) => Settled(id)'
  BY <1>3 DEF Settled, Coherent, HasWork
<1>5. \A c : Steady(c)
  BY <1>2, <1>3, <1>4, SamePlaces DEF Steady, MapCall
<1> QED
  BY <1>1, <1>5, SteadyKeeps

LEMMA CrashMap == MapInv /\ Crash => MapInv'
<1> SUFFICES ASSUME MapInv, Crash PROVE MapInv'
  OBVIOUS
<1>1. requests' = [c \in Operator |-> NoRequest]
  BY DEF Crash
<1>2. \A c \in Operator : RequestOK(c, requests[c])'
  BY <1>1 DEF RequestOK
<1>3. /\ calls' = [c \in Client |-> IF c \in Writer /\ ~ OfApi(c) THEN calls[c] ELSE NoCall]
      /\ progress' = [w \in Writer |-> IF OfApi(w) THEN NextWrite(w) ELSE progress[w]]
  BY DEF Crash
<1>4. progress' \in Positions
  BY <1>3 DEF MapInv, CallsInv, Positions, NextWrite
<1>5. \A c \in Client : CallOK(c)'
  BY <1>3 DEF MapInv, CallsInv, CallOK
<1>6. \A w \in Writer : calls'[w] # NoCall => calls'[w] = calls[w] /\ progress'[w] = progress[w]
  BY <1>3, ClientAssumption
<1>7. \A w \in Writer : calls'[w] # NoCall => IsAt(w, {"map", "contour"})'
  BY <1>6 DEF MapInv, CallsInv, IsAt, HasWork
<1> QED
  BY <1>1, <1>2, <1>3, <1>4, <1>5, <1>7 DEF MapInv, CallsInv

LEMMA MapStarts == AlertInit => MapInv
  BY ClientAssumption DEF AlertInit, StorageInit, MapInv, CallsInv, CallOK, RequestOK, Positions

LEMMA MapKept == MapInv /\ [Next]_vars => MapInv'
<1> SUFFICES ASSUME MapInv, [Next]_vars PROVE MapInv'
  OBVIOUS
<1>0. CallsInv
  BY DEF MapInv
<1>1. CASE \E c \in Client : Storage(c)
  BY <1>0, <1>1, StorageSteady, SteadyKeeps
<1>2. CASE \E id \in Ids : Expires(id)
  BY <1>2, ElsewhereSteady DEF Expires, Expire, archiveVars, alertVars
<1>3. CASE \E w \in Writer : Write(w)
  BY <1>0, <1>3, WriteSteady, SteadyKeeps
<1>4. CASE CreateAnnotation \/ UNCHANGED vars
  BY <1>4, ElsewhereSteady DEF CreateAnnotation, storageVars, archiveVars, alertVars, vars
<1>5. CASE \E c \in Operator : PressPublish(c) \/ CreateAlert(c)
  BY <1>5, PressPublishMap, ReadSupereventMap, ReadAnnotationsMap, ReadEventMap, TakeMapMap,
     PublishMap, InsertAlertMap DEF CreateAlert
<1>6. CASE \E c \in Operator : Download(c) \/ Downloaded(c)
  BY <1>6, DownloadMap
<1>7. CASE Crash
  BY <1>7, CrashMap
<1> QED
  BY <1>1, <1>2, <1>3, <1>4, <1>5, <1>6, <1>7 DEF Next

\* Whatever the backend and the caches, and however calls of the storage, expiries,
\* failures and restarts interleave with the reads of an alert: if all was settled at
\* the press and no writer moved until the alert was built, it carries the map that its
\* superevent is described with (create_alert and build_alert).
THEOREM AlertsCarryTheirMap == Spec => []AlertCarriesItsMap
<1>1. MapInv => AlertCarriesItsMap
  BY DEF MapInv, RequestOK, AlertCarriesItsMap, NoRequest, Reading
<1> QED
  BY MapStarts, MapKept, <1>1, PTL DEF Spec

-------------------------------------------------------------------------------
(***************************************************************************)
(* The lists.  A client is shown what kept its place because of what the   *)
(* last page's order has to do with the places of now: what comes before a *)
(* steady entry in it can only have moved forward since, so that, when the *)
(* entry is found on an earlier page than before, what it overtook is in   *)
(* front of it no more; and an order that has room for one more in front   *)
(* cannot have.                                                            *)
(***************************************************************************)

\* A row is written in its time, and matches whatever is written if the query does not narrow.
RowOK(row) ==
  /\ row.written \in Nat /\ row.written <= now
  /\ row.inserted \in Nat /\ row.far \in Nat
  /\ row.passes \in BOOLEAN /\ (~ listing.narrows => row.passes)

RowsOK ==
  /\ rows = [i \in DOMAIN rows |-> rows[i]]
  /\ DOMAIN rows \subseteq Id
  /\ \A i \in DOMAIN rows : RowOK(rows[i])

CountersOK ==
  /\ limit \in Nat /\ limit >= 1
  /\ page \in Nat /\ now \in Nat /\ writes \in Nat

\* The order of the last page held everything steady, and nothing twice.
OrderOK ==
  /\ \E n \in Nat : DOMAIN order = 1 .. n /\ Len(order) = n
  /\ \A i, j \in DOMAIN order : i # j => order[i] # order[j]
  /\ page > 0 => \A e \in steady : \E n \in DOMAIN order : order[n] = e
  /\ steady \subseteq DOMAIN Places

\* What was before a steady entry has only moved forward.
StaysAhead ==
  ~ Demotes => \A i, j \in DOMAIN order : (i < j /\ order[j] \in steady) =>
    order[i] \in DOMAIN Places /\ ~ Precedes(Places[order[j]], Places[order[i]])

\* The pages read so far have been shown.
PagesShown ==
  \A n \in DOMAIN order :
    (n <= page * limit /\ order[n] \in steady \ slid /\ StreamOk(order[n])) =>
      \E x \in seen : x.entry = order[n]

WalkInv ==
  /\ RowsOK /\ CountersOK
  /\ OrderOK /\ StaysAhead /\ PagesShown

\* The filter's tiers are in the order of their bounds.
TiersSorted ==
  /\ \E n \in Nat : DOMAIN tiers = 1 .. n
  /\ \A i \in DOMAIN tiers : tiers[i].max \in Int
  /\ \A i, j \in DOMAIN tiers : i < j => tiers[i].max <= tiers[j].max

TierInv ==
  /\ TiersSorted
  /\ \A x \in seen : x.far \in Nat /\ (x.far # NoFar => x.tier = TierFor(x.far))

-------------------------------------------------------------------------------
(* Sequences of all of a set, and the sort of the tiers. *)

LEMMA ArrangementFacts ==
  ASSUME NEW S, IsFiniteSet(S), NEW s \in SetToSeqs(S)
  PROVE  /\ \E n \in Nat : n = Cardinality(S) /\ DOMAIN s = 1 .. n /\ Len(s) = n /\ s \in [1 .. n -> S]
         /\ \A i, j \in DOMAIN s : i # j => s[i] # s[j]
         /\ \A e \in S : \E i \in DOMAIN s : s[i] = e
<1>1. PICK n \in Nat : n = Cardinality(S)
  BY FS_CardinalityType
<1>2. s \in [1 .. n -> S] /\ \A i, j \in 1 .. n : i # j => s[i] # s[j]
  BY <1>1 DEF SetToSeqs
<1>3. DOMAIN s = 1 .. n /\ s \in Seq(S) /\ Len(s) = n
  <2>1. s \in Seq(S)
    BY <1>2
  <2> QED
    BY <1>2, <2>1
<1>4. s \in Injection(1 .. n, S)
  BY <1>2, Fun_IsInj
<1>5. Cardinality(1 .. n) = n
  BY FS_Interval
<1>6. s \in Surjection(1 .. n, S)
  BY <1>1, <1>4, <1>5, FS_Injection
<1>7. \A e \in S : \E i \in 1 .. n : s[i] = e
  BY <1>6, Fun_SurjectionProperties
<1> QED
  BY <1>1, <1>2, <1>3, <1>7

LEMMA SoonerFacts ==
  ASSUME NEW sent, NEW n \in Nat, \A i \in 1 .. n : sent[i].max \in Int
  PROVE  /\ \A i \in 1 .. n : ~ Sooner(sent, i, i)
         /\ \A i, j \in 1 .. n : i # j => Sooner(sent, i, j) \/ Sooner(sent, j, i)
         /\ \A i, j, k \in 1 .. n : Sooner(sent, i, j) /\ Sooner(sent, j, k) => Sooner(sent, i, k)
  BY DEF Sooner

\* The sort that the filter keeps exists: a tier's position is one more than the number of the
\* sooner ones.
LEMMA SortExists ==
  ASSUME NEW sent, NEW n \in Nat, DOMAIN sent = 1 .. n, \A i \in 1 .. n : sent[i].max \in Int
  PROVE  \E p \in SetToSeqs(DOMAIN sent) :
           \A i, j \in DOMAIN p : i < j => Sooner(sent, p[i], p[j])
<1>0. /\ \A i \in 1 .. n : ~ Sooner(sent, i, i)
      /\ \A i, j \in 1 .. n : i # j => Sooner(sent, i, j) \/ Sooner(sent, j, i)
      /\ \A i, j, k \in 1 .. n : Sooner(sent, i, j) /\ Sooner(sent, j, k) => Sooner(sent, i, k)
  BY SoonerFacts
<1>1. PICK rank : rank = [i \in 1 .. n |-> Cardinality({j \in 1 .. n : Sooner(sent, j, i)}) + 1]
  OBVIOUS
<1>2. IsFiniteSet(1 .. n) /\ Cardinality(1 .. n) = n
  BY FS_Interval
<1>3. \A i \in 1 .. n : rank[i] \in 1 .. n
  <2> SUFFICES ASSUME NEW i \in 1 .. n PROVE rank[i] \in 1 .. n
    OBVIOUS
  <2>1. PICK A : A = {j \in 1 .. n : Sooner(sent, j, i)}
    OBVIOUS
  <2>2. A \subseteq (1 .. n) \ {i}
    BY <1>0, <2>1
  <2>3. IsFiniteSet((1 .. n) \ {i}) /\ Cardinality((1 .. n) \ {i}) = n - 1
    BY <1>2, FS_RemoveElement
  <2>4. IsFiniteSet(A) /\ Cardinality(A) <= n - 1
    BY <2>2, <2>3, FS_Subset
  <2>5. Cardinality(A) \in Nat
    BY <2>4, FS_CardinalityType
  <2> QED
    BY <1>1, <2>1, <2>4, <2>5
<1>4. \A i, j \in 1 .. n : Sooner(sent, i, j) => rank[i] < rank[j]
  <2> SUFFICES ASSUME NEW i \in 1 .. n, NEW j \in 1 .. n, Sooner(sent, i, j)
               PROVE  rank[i] < rank[j]
    OBVIOUS
  <2>1. PICK A, B : A = {k \in 1 .. n : Sooner(sent, k, i)} /\ B = {k \in 1 .. n : Sooner(sent, k, j)}
    OBVIOUS
  <2>2. i \notin A /\ A \cup {i} \subseteq B
    BY <1>0, <2>1
  <2>3. IsFiniteSet(A) /\ IsFiniteSet(B)
    BY <1>2, <2>1, FS_Subset
  <2>4. Cardinality(A \cup {i}) = Cardinality(A) + 1 /\ Cardinality(A \cup {i}) <= Cardinality(B)
    BY <2>2, <2>3, FS_AddElement, FS_Subset
  <2>5. Cardinality(A) \in Nat /\ Cardinality(B) \in Nat
    BY <2>3, FS_CardinalityType
  <2> QED
    BY <1>1, <2>1, <2>4, <2>5
<1>5. \A i, j \in 1 .. n : rank[i] < rank[j] => Sooner(sent, i, j)
  <2>1. \A i \in 1 .. n : rank[i] \in Int
    BY <1>3
  <2> QED
    BY <1>0, <1>4, <2>1
<1>6. rank \in Injection(1 .. n, 1 .. n)
  <2>1. rank \in [1 .. n -> 1 .. n]
    BY <1>1, <1>3
  <2>2. \A i, j \in 1 .. n : rank[i] = rank[j] => i = j
    <3>1. \A i \in 1 .. n : rank[i] \in Int
      BY <1>3
    <3> QED
      BY <1>0, <1>4, <3>1
  <2> QED
    BY <2>1, <2>2, Fun_IsInj
<1>7. \A r \in 1 .. n : \E i \in 1 .. n : rank[i] = r
  <2>1. rank \in Surjection(1 .. n, 1 .. n)
    BY <1>2, <1>6, FS_Injection
  <2> QED
    BY <2>1 DEF Surjection
<1>8. PICK p : p = [r \in 1 .. n |-> CHOOSE i \in 1 .. n : rank[i] = r]
  OBVIOUS
<1>9. \A r \in 1 .. n : p[r] \in 1 .. n /\ rank[p[r]] = r
  BY <1>7, <1>8
<1>10. p \in SetToSeqs(DOMAIN sent)
  <2>1. p \in [1 .. n -> 1 .. n]
    BY <1>8, <1>9
  <2>2. \A i, j \in 1 .. n : i # j => p[i] # p[j]
    BY <1>9
  <2> QED
    BY <1>2, <2>1, <2>2 DEF SetToSeqs
<1>11. \A i, j \in DOMAIN p : i < j => Sooner(sent, p[i], p[j])
  <2> SUFFICES ASSUME NEW i \in 1 .. n, NEW j \in 1 .. n, i < j
               PROVE  Sooner(sent, p[i], p[j])
    BY <1>8
  <2>1. p[i] \in 1 .. n /\ p[j] \in 1 .. n /\ rank[p[i]] < rank[p[j]]
    BY <1>9
  <2> QED
    BY <1>5, <2>1
<1> QED
  BY <1>10, <1>11

\* The order in which a filter keeps its tiers: of those sent each is there once, the lower bound
\* first, and of equal bounds the one that was sent first (src/archive.rs, sort_tiers).
THEOREM TiersAreSorted ==
  ASSUME NEW sent, NEW n \in Nat, DOMAIN sent = 1 .. n, \A i \in 1 .. n : sent[i].max \in Int
  PROVE  \E p \in Bijection(1 .. n, 1 .. n) :
           /\ SortTiers(sent) = [i \in 1 .. n |-> sent[p[i]]]
           /\ \A i, j \in 1 .. n : i < j =>
                \/ SortTiers(sent)[i].max < SortTiers(sent)[j].max
                \/ SortTiers(sent)[i].max = SortTiers(sent)[j].max /\ p[i] < p[j]
<1>1. PICK p : p = CHOOSE q \in SetToSeqs(DOMAIN sent) :
                     \A i, j \in DOMAIN q : i < j => Sooner(sent, q[i], q[j])
  OBVIOUS
<1>2. p \in SetToSeqs(DOMAIN sent) /\ \A i, j \in DOMAIN p : i < j => Sooner(sent, p[i], p[j])
  BY <1>1, SortExists
<1>3. IsFiniteSet(1 .. n) /\ Cardinality(1 .. n) = n
  BY FS_Interval
<1>4. p \in [1 .. n -> 1 .. n] /\ \A i, j \in 1 .. n : i # j => p[i] # p[j]
  BY <1>2, <1>3 DEF SetToSeqs
<1>5. SortTiers(sent) = [i \in 1 .. n |-> sent[p[i]]]
  BY <1>1 DEF SortTiers
<1>6. p \in Bijection(1 .. n, 1 .. n)
  <2>1. p \in Injection(1 .. n, 1 .. n)
    BY <1>4, Fun_IsInj
  <2>2. p \in Surjection(1 .. n, 1 .. n)
    BY <1>3, <2>1, FS_Injection
  <2> QED
    BY <2>1, <2>2 DEF Bijection
<1>7. ASSUME NEW i \in 1 .. n, NEW j \in 1 .. n, i < j
      PROVE  \/ SortTiers(sent)[i].max < SortTiers(sent)[j].max
             \/ SortTiers(sent)[i].max = SortTiers(sent)[j].max /\ p[i] < p[j]
  <2>1. Sooner(sent, p[i], p[j])
    BY <1>2, <1>4, <1>7
  <2>2. SortTiers(sent)[i] = sent[p[i]] /\ SortTiers(sent)[j] = sent[p[j]]
    BY <1>5
  <2> QED
    BY <2>1, <2>2 DEF Sooner
<1> QED
  BY <1>5, <1>6, <1>7

LEMMA SortTiersFacts ==
  ASSUME NEW sent, NEW n \in Nat, DOMAIN sent = 1 .. n, \A i \in 1 .. n : sent[i].max \in Int
  PROVE  /\ DOMAIN SortTiers(sent) = 1 .. n
         /\ \A i \in 1 .. n : SortTiers(sent)[i].max \in Int
         /\ \A i, j \in 1 .. n : i < j => SortTiers(sent)[i].max <= SortTiers(sent)[j].max
<1>1. PICK p \in Bijection(1 .. n, 1 .. n) :
        /\ SortTiers(sent) = [i \in 1 .. n |-> sent[p[i]]]
        /\ \A i, j \in 1 .. n : i < j =>
             \/ SortTiers(sent)[i].max < SortTiers(sent)[j].max
             \/ SortTiers(sent)[i].max = SortTiers(sent)[j].max /\ p[i] < p[j]
  BY TiersAreSorted
<1>2. \A i \in 1 .. n : p[i] \in 1 .. n /\ SortTiers(sent)[i] = sent[p[i]]
  BY <1>1 DEF Bijection, Injection
<1>3. \A i \in 1 .. n : SortTiers(sent)[i].max \in Int
  BY <1>2
<1>4. ASSUME NEW i \in 1 .. n, NEW j \in 1 .. n, i < j
      PROVE  SortTiers(sent)[i].max <= SortTiers(sent)[j].max
  <2>1. \/ SortTiers(sent)[i].max < SortTiers(sent)[j].max
        \/ SortTiers(sent)[i].max = SortTiers(sent)[j].max
    BY <1>1, <1>4
  <2> QED
    BY <1>3, <2>1
<1> QED
  BY <1>1, <1>3, <1>4

-------------------------------------------------------------------------------
(* The steps of the walk. *)

\* A row can be written only with a date of now or later, and then matches if it must.
LEMMA VersionFacts ==
  ASSUME NEW date \in Nat, NEW number \in Nat, NEW row \in Versions(date, number)
  PROVE  /\ row.written \in Nat /\ row.written <= date
         /\ row.inserted \in Nat /\ row.far \in Nat
         /\ row.passes \in BOOLEAN /\ (~ listing.narrows => row.passes)
         /\ listing.sort = "written" => row.written = date
         /\ row = [written |-> row.written, time |-> row.time, inserted |-> row.inserted,
                   far |-> row.far, passes |-> row.passes]
<1>1. /\ row.written \in Used({"written", "far"}, {date})
      /\ row.inserted \in Used({"natural"}, {number})
      /\ row.far \in Used({"far"}, Far \union {NoFar})
      /\ row.passes \in IF listing.narrows THEN BOOLEAN ELSE {TRUE}
      /\ row = [written |-> row.written, time |-> row.time, inserted |-> row.inserted,
                far |-> row.far, passes |-> row.passes]
  BY DEF Versions
<1>2. row.written \in {0, date} /\ (listing.sort = "written" => row.written = date)
  BY <1>1 DEF Used
<1>3. row.inserted \in {0, number}
  BY <1>1 DEF Used
<1>4. row.far \in Far \union {0}
  BY <1>1 DEF Used, NoFar
<1>5. row.passes \in BOOLEAN /\ (~ listing.narrows => row.passes)
  <2>1. CASE listing.narrows
    BY <1>1, <2>1
  <2>2. CASE ~ listing.narrows
    <3>1. row.passes = TRUE
      BY <1>1, <2>2
    <3> QED
      BY <3>1, <2>2
  <2> QED
    BY <2>1, <2>2
<1> QED
  BY <1>1, <1>2, <1>3, <1>4, <1>5, FarAssumption

LEMMA WalkInitOK == WalkInit => WalkInv /\ TierInv
<1> SUFFICES ASSUME WalkInit PROVE WalkInv /\ TierInv
  OBVIOUS
<1>1. PICK present \in SUBSET Id :
        rows \in [present -> UNION { Versions(d, i) : d \in 1 .. 2, i \in Id }]
  BY DEF WalkInit
<1>2. RowsOK
  <2>1. \A i \in present : RowOK(rows[i])
    <3> SUFFICES ASSUME NEW i \in present PROVE RowOK(rows[i])
      OBVIOUS
    <3>1. PICK d \in 1 .. 2, k \in Id : rows[i] \in Versions(d, k)
      BY <1>1
    <3>2. d \in Nat /\ k \in Nat /\ d <= now
      BY IdAssumption DEF WalkInit
    <3> QED
      BY <3>1, <3>2, VersionFacts DEF RowOK, WalkInit
  <2> QED
    BY <1>1, <2>1 DEF RowsOK
<1>3. CountersOK
  BY FarAssumption DEF WalkInit, CountersOK
<1>4. DOMAIN order = 1 .. 0 /\ Len(order) = 0
  BY DEF WalkInit
<1>5. OrderOK /\ StaysAhead /\ PagesShown
  BY <1>4 DEF WalkInit, OrderOK, StaysAhead, PagesShown
<1>6. TiersSorted
  <2>1. PICK sent \in (IF listing.sort = "far" THEN TierLists ELSE {<<>>}) : tiers = SortTiers(sent)
    BY DEF WalkInit
  <2>2. PICK n \in Nat : DOMAIN sent = 1 .. n /\ \A i \in 1 .. n : sent[i].max \in Int
    <3>1. CASE listing.sort = "far"
      BY <2>1, <3>1, TierAssumption
    <3>2. CASE listing.sort # "far"
      <4>1. sent = <<>>
        BY <2>1, <3>2
      <4> QED
        BY <4>1
    <3> QED
      BY <3>1, <3>2
  <2> QED
    BY <2>1, <2>2, SortTiersFacts DEF TiersSorted
<1> QED
  BY <1>2, <1>3, <1>5, <1>6 DEF WalkInv, TierInv, WalkInit

\* The keys of the orders that only move a row forward.
LEMMA PlacesOfAForwardOrder ==
  ASSUME ~ Demotes, RowsOK
  PROVE  /\ DOMAIN Places = DOMAIN rows
         /\ \A i \in DOMAIN rows :
              Places[i] = << IF listing.sort = "written" THEN - rows[i].written ELSE rows[i].inserted >>
<1>1. listing.sort \in {"written", "natural"} /\ ~ listing.narrows
  BY DEF Demotes
<1>2. Matching = DOMAIN rows
  BY <1>1 DEF Matching, RowsOK, RowOK
<1> QED
  BY <1>1, <1>2 DEF Places, SortKey, NewestFirst

LEMMA OneComponent ==
  ASSUME NEW a \in Int, NEW b \in Int
  PROVE  Precedes(<<a>>, <<b>>) <=> a < b
<1>1. <<a>>[1] = a /\ <<b>>[1] = b /\ DOMAIN <<a>> = {1}
  OBVIOUS
<1>2. ASSUME a < b PROVE \E n \in {1} : <<a>>[n] < <<b>>[n] /\ \A m \in 1 .. n - 1 : <<a>>[m] = <<b>>[m]
  BY <1>1, <1>2
<1> QED
  BY <1>1, <1>2 DEF Precedes

LEMMA UpsertKeeps ==
  ASSUME WalkInv, NEW i \in Id, Upsert(i)
  PROVE  WalkInv'
<1> USE DEF WalkInv
<1>1. PICK date \in {now, now + 1} :
        /\ now' = date
        /\ \E row \in Versions(date, Cardinality(Id) + 1 + writes) :
             rows' = [ j \in DOMAIN rows \union {i} |->
                         IF j # i THEN rows[j]
                         ELSE IF i \in DOMAIN rows THEN [row EXCEPT !.inserted = rows[i].inserted]
                         ELSE row ]
  BY DEF Upsert
<1>2. PICK row \in Versions(date, Cardinality(Id) + 1 + writes) :
        rows' = [ j \in DOMAIN rows \union {i} |->
                    IF j # i THEN rows[j]
                    ELSE IF i \in DOMAIN rows THEN [row EXCEPT !.inserted = rows[i].inserted]
                    ELSE row ]
  BY <1>1
<1>3. UNCHANGED <<listing, limit, tiers, page, order, seen, slid>> /\ writes' = writes + 1
      /\ steady' = { e \in steady : e \in DOMAIN Places' /\ Places'[e] = Places[e] }
  BY DEF Upsert
<1>4. date \in Nat /\ date >= now /\ Cardinality(Id) + 1 + writes \in Nat
  BY IdAssumption, FS_CardinalityType DEF CountersOK
<1>5. /\ row.written \in Nat /\ row.written <= date
      /\ row.inserted \in Nat /\ row.far \in Nat
      /\ row.passes \in BOOLEAN /\ (~ listing.narrows => row.passes)
      /\ listing.sort = "written" => row.written = date
      /\ row = [written |-> row.written, time |-> row.time, inserted |-> row.inserted,
                far |-> row.far, passes |-> row.passes]
  BY <1>4, VersionFacts
<1>6. /\ DOMAIN rows' = DOMAIN rows \union {i}
      /\ \A j \in DOMAIN rows : j # i => rows'[j] = rows[j]
      /\ rows'[i].written = row.written /\ rows'[i].far = row.far /\ rows'[i].passes = row.passes
      /\ rows'[i].inserted = IF i \in DOMAIN rows THEN rows[i].inserted ELSE row.inserted
  BY <1>2, <1>5
<1>7. RowsOK'
  <2>1. RowOK(rows[i])' 
    BY <1>1, <1>3, <1>4, <1>5, <1>6 DEF RowOK, RowsOK
  <2>2. ASSUME NEW j \in DOMAIN rows, j # i PROVE RowOK(rows[j])'
    BY <1>1, <1>3, <1>4, <1>6, <2>2 DEF RowOK, RowsOK, CountersOK
  <2> QED
    BY <1>2, <1>6, <2>1, <2>2 DEF RowsOK
<1>8. CountersOK'
  BY <1>1, <1>3, <1>4 DEF CountersOK
<1>9. OrderOK'
  BY <1>3 DEF OrderOK
<1>10. StaysAhead'
  <2> SUFFICES ASSUME ~ Demotes,
                      NEW m \in DOMAIN order, NEW n \in DOMAIN order, m < n, order[n] \in steady'
               PROVE  /\ order[m] \in DOMAIN Places'
                      /\ ~ Precedes(Places'[order[n]], Places'[order[m]])
    BY <1>3 DEF StaysAhead, Demotes
  <2>1. /\ order[n] \in steady /\ Places'[order[n]] = Places[order[n]] /\ order[n] \in DOMAIN Places'
        /\ order[m] \in DOMAIN Places /\ ~ Precedes(Places[order[n]], Places[order[m]])
    BY <1>3 DEF StaysAhead
  <2>2. /\ DOMAIN Places = DOMAIN rows
        /\ \A k \in DOMAIN rows :
             Places[k] = << IF listing.sort = "written" THEN - rows[k].written ELSE rows[k].inserted >>
    BY PlacesOfAForwardOrder
  <2>3. /\ DOMAIN Places' = DOMAIN rows'
        /\ \A k \in DOMAIN rows' :
             Places'[k] = << IF listing.sort = "written" THEN - rows'[k].written ELSE rows'[k].inserted >>
    <3>1. listing.sort \in {"written", "natural"} /\ ~ listing.narrows
      BY DEF Demotes
    <3>2. Matching' = DOMAIN rows'
      BY <1>3, <1>7, <3>1 DEF Matching, RowsOK, RowOK
    <3> QED
      BY <1>3, <3>1, <3>2 DEF Places, SortKey, NewestFirst
  <2>4. order[m] \in DOMAIN Places' /\ order[m] \in DOMAIN rows /\ order[n] \in DOMAIN rows
    BY <1>6, <2>1, <2>2, <2>3 DEF OrderOK
  <2>5. CASE order[m] # i
    BY <1>6, <2>1, <2>2, <2>3, <2>4, <2>5
  <2>6. CASE order[m] = i /\ listing.sort = "written"
    <3>1. Places'[order[n]] = << - rows[order[n]].written >> /\ Places'[order[m]] = << - date >>
      BY <1>5, <1>6, <2>1, <2>2, <2>3, <2>4, <2>6
    <3>2. rows[order[n]].written \in Nat /\ rows[order[n]].written <= now
      BY <2>4 DEF RowsOK, RowOK
    <3>3. - rows[order[n]].written \in Int /\ - date \in Int /\ ~ (- rows[order[n]].written < - date)
      BY <1>4, <3>2 DEF CountersOK
    <3> QED
      BY <2>4, <3>1, <3>3, OneComponent
  <2>7. CASE order[m] = i /\ listing.sort # "written"
    BY <1>6, <2>1, <2>2, <2>3, <2>4, <2>7
  <2> QED
    BY <2>5, <2>6, <2>7
<1>11. PagesShown'
  BY <1>3 DEF PagesShown, StreamOk
<1> QED
  BY <1>7, <1>8, <1>9, <1>10, <1>11

\* The places are finitely many: one for a row, or one for a trigger of a row.
LEMMA PlacesFinite ==
  ASSUME RowsOK
  PROVE  IsFiniteSet(DOMAIN Places)
<1>1. IsFiniteSet(Matching) /\ Matching \subseteq Id
  BY IdAssumption, FS_Subset DEF RowsOK, Matching
<1>2. CASE listing.sort # "best stage"
  BY <1>1, <1>2 DEF Places
<1>3. CASE listing.sort = "best stage"
  <2>1. DOMAIN Places = { TriggerOf[i] : i \in Matching }
    BY <1>3 DEF Places
  <2>2. PICK f : f = [i \in Matching |-> TriggerOf[i]]
    OBVIOUS
  <2>3. f \in Surjection(Matching, DOMAIN Places)
    BY <2>1, <2>2 DEF Surjection
  <2> QED
    BY <1>1, <2>3, FS_Surjection
<1> QED
  BY <1>2, <1>3

LEMMA PageBounds ==
  ASSUME CountersOK
  PROVE  page * limit \in Nat /\ (page + 1) * limit \in Nat /\ (page + 1) * limit >= page * limit + 1
  BY DEF CountersOK

\* An entry that was to come on a later page and now stands on an earlier one has lost something
\* in front of it; if that is still listed, and was no more than moved forward, it is a tie.
LEMMA OvertakenSlides ==
  ASSUME WalkInv, NEW s \in Sorted(Places), NEW p \in DOMAIN order, NEW q \in DOMAIN s, q < p,
         s[q] = order[p], order[p] \in steady
  PROVE  \E a \in Ahead(order, s[q]) \ Ahead(s, s[q]) :
           Demotes \/ (a \in DOMAIN Places /\ Places[a] = Places[s[q]])
<1> USE DEF WalkInv
<1>1. PICK n \in Nat : DOMAIN order = 1 .. n
  BY DEF OrderOK
<1>2. PICK len \in Nat : DOMAIN s = 1 .. len
  BY PlacesFinite, ArrangementFacts DEF Sorted
<1>3. /\ \A i, j \in DOMAIN s : i # j => s[i] # s[j]
      /\ \A e \in DOMAIN Places : \E i \in DOMAIN s : s[i] = e
  BY PlacesFinite, ArrangementFacts DEF Sorted
<1>4. PICK m \in 1 .. p - 1 : \A k \in 1 .. q - 1 : s[k] # order[m]
  \* there is no room for all of them in front of the q-th
  <2> SUFFICES ASSUME \A i \in 1 .. p - 1 : \E k \in 1 .. q - 1 : s[k] = order[i]
               PROVE  FALSE
    OBVIOUS
  <2>1. p \in Nat /\ q \in Nat /\ 1 <= q
    BY <1>1, <1>2
  <2>2. PICK f : f = [i \in 1 .. p - 1 |-> CHOOSE k \in 1 .. q - 1 : s[k] = order[i]]
    OBVIOUS
  <2>3. \A i \in 1 .. p - 1 : f[i] \in 1 .. q - 1 /\ s[f[i]] = order[i]
    BY <2>2
  <2>4. f \in [1 .. p - 1 -> 1 .. q - 1]
    BY <2>2, <2>3
  <2>5. /\ IsFiniteSet(1 .. p - 1) /\ IsFiniteSet(1 .. q - 1)
        /\ Cardinality(1 .. q - 1) < Cardinality(1 .. p - 1)
    <3>1. PICK a \in Nat, b \in Nat : a = p - 1 /\ b = q - 1 /\ b < a
      BY <2>1
    <3>2. /\ IsFiniteSet(1 .. a) /\ IsFiniteSet(1 .. b)
          /\ Cardinality(1 .. a) = a /\ Cardinality(1 .. b) = b
      BY FS_Interval
    <3> QED
      BY <3>1, <3>2
  <2>6. PICK i, j \in 1 .. p - 1 : i # j /\ f[i] = f[j]
    <3>1. PICK S, T : S = 1 .. p - 1 /\ T = 1 .. q - 1
      OBVIOUS
    <3>2. IsFiniteSet(S) /\ IsFiniteSet(T) /\ Cardinality(T) < Cardinality(S) /\ f \in [S -> T]
      BY <2>4, <2>5, <3>1
    <3>3. \E i, j \in S : i # j /\ f[i] = f[j]
      BY <3>2, FS_PigeonHole
    <3> QED
      BY <3>1, <3>3
  <2>7. order[i] = order[j] /\ i \in DOMAIN order /\ j \in DOMAIN order
    BY <1>1, <2>1, <2>3, <2>6
  <2> QED
    BY <2>6, <2>7 DEF OrderOK
<1>5. m \in DOMAIN order /\ m < p
  BY <1>1, <1>4
<1>6. order[m] \in Ahead(order, s[q])
  BY <1>5 DEF Ahead
<1>7. order[m] \notin Ahead(s, s[q])
  <2> SUFFICES ASSUME order[m] \in Ahead(s, s[q]) PROVE FALSE
    OBVIOUS
  <2>1. PICK k \in DOMAIN s, l \in DOMAIN s : k < l /\ s[l] = s[q] /\ s[k] = order[m]
    BY DEF Ahead
  <2>2. l = q
    BY <1>3, <2>1
  <2> QED
    BY <1>2, <1>4, <2>1, <2>2
<1>8. ASSUME ~ Demotes PROVE order[m] \in DOMAIN Places /\ Places[order[m]] = Places[s[q]]
  <2>1. order[m] \in DOMAIN Places /\ ~ Precedes(Places[s[q]], Places[order[m]])
    BY <1>5, <1>8 DEF StaysAhead
  <2>2. PICK k \in DOMAIN s : s[k] = order[m]
    BY <1>3, <2>1
  <2>3. k # q
    BY <1>5, <2>2 DEF OrderOK
  <2>4. q < k
    BY <1>2, <1>4, <2>2, <2>3
  <2>5. ~ Precedes(Places[order[m]], Places[s[q]])
    BY <2>2, <2>4 DEF Sorted
  <2>6. s[q] \in DOMAIN Places
    BY DEF OrderOK
  <2>7. PICK key : key = [i \in DOMAIN rows |->
                            IF listing.sort = "written" THEN - rows[i].written ELSE rows[i].inserted]
    OBVIOUS
  <2>8. DOMAIN Places = DOMAIN rows /\ \A i \in DOMAIN rows : Places[i] = << key[i] >> /\ key[i] \in Int
    BY <1>8, <2>7, PlacesOfAForwardOrder DEF RowsOK, RowOK
  <2>9. key[s[q]] = key[order[m]]
    <3>1. PICK a \in Int, b \in Int : a = key[s[q]] /\ b = key[order[m]]
      BY <2>1, <2>6, <2>8
    <3>2. ~ Precedes(<<a>>, <<b>>) /\ ~ Precedes(<<b>>, <<a>>)
      BY <2>1, <2>5, <2>6, <2>8, <3>1
    <3>3. ~ (a < b) /\ ~ (b < a)
      BY <3>2, OneComponent
    <3> QED
      BY <3>1, <3>3
  <2> QED
    BY <2>1, <2>6, <2>8, <2>9
<1> QED
  BY <1>6, <1>7, <1>8

LEMMA ReadingMovesNothing ==
  ASSUME UNCHANGED <<listing, rows>>
  PROVE  Places' = Places /\ (Demotes' <=> Demotes) /\ \A e : StreamOk(e)' <=> StreamOk(e)
  BY DEF Places, Matching, SortKey, NewestFirst, Summary, BestStages, Demotes, StreamOk

LEMMA ListPageKeeps ==
  ASSUME WalkInv, ListPage
  PROVE  WalkInv'
<1> USE DEF WalkInv
<1>1. PICK s \in Sorted(Places) :
        /\ order' = s
        /\ seen' = seen \union { Shown(e) : e \in { x \in SkipAndLimit(s) : StreamOk(x) } }
        /\ slid' = slid \union
             { e \in ToSet(s) : \E a \in Ahead(order, e) \ Ahead(s, e) :
                 Demotes \/ (a \in DOMAIN Places /\ Places[a] = Places[e]) }
        /\ page' = page + 1
        /\ UNCHANGED <<listing, limit, tiers, rows, now, steady, writes>>
  BY DEF ListPage
<1>2. Places' = Places /\ (Demotes' <=> Demotes) /\ \A e : StreamOk(e)' <=> StreamOk(e)
  BY <1>1, ReadingMovesNothing
<1>3. PICK n \in Nat : DOMAIN s = 1 .. n /\ Len(s) = n
  BY PlacesFinite, ArrangementFacts DEF Sorted
<1>4. /\ \A i, j \in DOMAIN s : i # j => s[i] # s[j]
      /\ \A e \in DOMAIN Places : \E i \in DOMAIN s : s[i] = e
  BY PlacesFinite, ArrangementFacts DEF Sorted
<1>5. RowsOK' /\ CountersOK'
  BY <1>1 DEF RowsOK, RowOK, CountersOK
<1>6. OrderOK'
  BY <1>1, <1>2, <1>3, <1>4 DEF OrderOK
<1>7. StaysAhead'
  <2>1. \A i \in DOMAIN s : s[i] \in DOMAIN Places
    BY PlacesFinite, ArrangementFacts DEF Sorted
  <2>2. \A i, j \in DOMAIN s : i < j => ~ Precedes(Places[s[j]], Places[s[i]])
    BY DEF Sorted
  <2> QED
    BY <1>1, <1>2, <2>1, <2>2 DEF StaysAhead
<1>8. PagesShown'
  <2> SUFFICES ASSUME NEW q \in DOMAIN s, q <= (page + 1) * limit, s[q] \in steady, s[q] \notin slid',
                      StreamOk(s[q])
               PROVE  \E x \in seen' : x.entry = s[q]
    BY <1>1, <1>2 DEF PagesShown
  <2>1. CASE q > page * limit
    <3>1. s[q] \in SkipAndLimit(s)
      <4>1. q \in (page * limit + 1) .. ((page + 1) * limit)
        BY <1>3, <2>1, PageBounds
      <4> QED
        BY <4>1 DEF SkipAndLimit
    <3>2. Shown(s[q]) \in seen'
      BY <1>1, <3>1
    <3> QED
      BY <3>2 DEF Shown
  <2>2. CASE q <= page * limit
    <3>1. page > 0
      BY <1>3, <2>2 DEF CountersOK
    <3>2. PICK p \in DOMAIN order : order[p] = s[q]
      BY <3>1 DEF OrderOK
    <3>3. s[q] \notin slid /\ seen \subseteq seen'
      BY <1>1
    <3>4. CASE p <= page * limit
      BY <3>2, <3>3, <3>4 DEF PagesShown
    <3>5. CASE p > page * limit
      <4>1. p \in Nat /\ q < p
        BY <1>3, <2>2, <3>5, PageBounds DEF OrderOK
      <4>2. s[q] \in slid'
        BY <1>1, <3>2, <4>1, OvertakenSlides DEF ToSet
      <4> QED
        BY <4>2
    <3>6. p \in Int
      BY DEF OrderOK
    <3> QED
      BY <3>4, <3>5, <3>6, PageBounds
  <2> QED
    BY <1>3, <2>1, <2>2, PageBounds
<1> QED
  BY <1>5, <1>6, <1>7, <1>8

LEMMA TierStep ==
  ASSUME WalkInv, TierInv, [WalkNext]_walkVars
  PROVE  TierInv'
<1>1. UNCHANGED <<listing, tiers>>
  BY DEF WalkNext, ListPage, Upsert, walkVars
<1>2. TiersSorted'
  BY <1>1 DEF TierInv, TiersSorted
<1>3. \A far : TierFor(far)' = TierFor(far)
  BY <1>1 DEF TierFor
<1>4. ASSUME NEW x \in seen' PROVE x \in seen \/ (x.far \in Nat /\ (x.far # NoFar => x.tier = TierFor(x.far)))
  <2>1. CASE ListPage
    <3>1. PICK s \in Sorted(Places) :
            seen' = seen \union { Shown(e) : e \in { y \in SkipAndLimit(s) : StreamOk(y) } }
      BY <2>1 DEF ListPage
    <3> SUFFICES ASSUME NEW e \in SkipAndLimit(s), x = Shown(e)
                 PROVE  x.far \in Nat /\ (x.far # NoFar => x.tier = TierFor(x.far))
      BY <1>4, <3>1
    <3>2. CASE listing.sort = "far"
      <4>1. e \in DOMAIN Places
        BY PlacesFinite, ArrangementFacts DEF WalkInv, Sorted, SkipAndLimit
      <4>2. e \in DOMAIN rows
        BY <3>2, <4>1 DEF Places, Matching
      <4> QED
        BY <3>2, <4>2 DEF Shown, WalkInv, RowsOK, RowOK
    <3>3. CASE listing.sort # "far"
      BY <3>3 DEF Shown, NoFar
    <3> QED
      BY <3>2, <3>3
  <2>2. CASE ~ ListPage
    BY <1>4, <2>2 DEF WalkNext, Upsert, walkVars
  <2> QED
    BY <2>1, <2>2
<1> QED
  BY <1>2, <1>3, <1>4 DEF TierInv

LEMMA WalkStep ==
  ASSUME WalkInv, [WalkNext]_walkVars
  PROVE  WalkInv'
<1>1. CASE ListPage
  BY <1>1, ListPageKeeps
<1>2. CASE \E i \in Id : Upsert(i)
  BY <1>2, UpsertKeeps
<1>3. CASE UNCHANGED walkVars
  <2>1. UNCHANGED <<listing, limit, rows, now, page, order, seen, steady, slid, writes>>
    BY <1>3 DEF walkVars
  <2>2. Places' = Places /\ (Demotes' <=> Demotes) /\ \A e : StreamOk(e)' <=> StreamOk(e)
    BY <2>1, ReadingMovesNothing
  <2> QED
    BY <2>1, <2>2 DEF WalkInv, RowsOK, RowOK, CountersOK, OrderOK, StaysAhead, PagesShown
<1> QED
  BY <1>1, <1>2, <1>3 DEF WalkNext

LEMMA WalkInvHolds == WalkSpec => [](WalkInv /\ TierInv)
<1>1. WalkInit => WalkInv /\ TierInv
  BY WalkInitOK
<1>2. WalkInv /\ TierInv /\ [WalkNext]_walkVars => (WalkInv /\ TierInv)'
  BY WalkStep, TierStep
<1> QED
  BY <1>1, <1>2, PTL DEF WalkSpec

LEMMA WalkedIsShown ==
  ASSUME WalkInv
  PROVE  WalkMissesNothing
<1> SUFFICES ASSUME WalkDone, NEW e \in steady \ slid, StreamOk(e)
             PROVE  \E x \in seen : x.entry = e
  BY DEF WalkMissesNothing
<1>1. PICK n \in DOMAIN order : order[n] = e
  BY DEF WalkDone, WalkInv, OrderOK
<1>2. n <= page * limit
  BY PageBounds DEF WalkDone, WalkInv, OrderOK
<1> QED
  BY <1>1, <1>2 DEF WalkInv, PagesShown

\* A non-empty set of positions has a first.
LEMMA FirstOf ==
  ASSUME NEW S \in SUBSET Nat, NEW n \in S
  PROVE  \E m \in S : \A k \in S : m <= k
<1>1. IsWellFoundedOn(OpToRel(<, Nat), Nat)
  BY NatLessThanWellFounded
<1>2. PICK m \in S : \A k \in S : ~ (<<k, m>> \in OpToRel(<, Nat))
  BY <1>1, WFMin
<1>3. \A k \in S : ~ (k < m)
  BY <1>2 DEF OpToRel
<1> QED
  BY <1>3

LEMMA TierOfTheSorted ==
  ASSUME TierInv
  PROVE  TierIsTheStrictest
<1> SUFFICES ASSUME NEW x \in seen, NEW n \in DOMAIN tiers, x.far # NoFar, x.far <= tiers[n].max
             PROVE  \E m \in DOMAIN tiers : /\ x.tier = {tiers[m].name}
                                            /\ x.far <= tiers[m].max
                                            /\ tiers[m].max <= tiers[n].max
  BY DEF TierIsTheStrictest
<1>1. PICK C : C = { k \in DOMAIN tiers : x.far # NoFar /\ x.far <= tiers[k].max }
  OBVIOUS
<1>2. C \in SUBSET Nat /\ n \in C
  BY <1>1 DEF TierInv, TiersSorted
<1>3. PICK m \in C : \A k \in C : m <= k
  BY <1>2, FirstOf
<1>4. { k \in C : \A l \in C : k <= l } = {m}
  <2>1. \A k \in C : k \in Nat
    BY <1>2
  <2>2. \A k \in C : (\A l \in C : k <= l) <=> k = m
    BY <1>3, <2>1
  <2> QED
    BY <2>2
<1>5. x.tier = {tiers[m].name}
  BY <1>1, <1>4 DEF TierInv, TierFor
<1>6. m \in DOMAIN tiers /\ x.far <= tiers[m].max
  BY <1>1
<1>7. tiers[m].max <= tiers[n].max
  BY <1>2, <1>3, <1>6 DEF TierInv, TiersSorted
<1> QED
  BY <1>5, <1>6, <1>7

\* A client that pages to the end of a list is shown everything that kept its place meanwhile,
\* but for ties and for the lists in which a row can fall behind: whatever is written between its
\* pages, for any rows, limits and listings (src/api.rs, the list handlers).
THEOREM WalkMissesNothingHolds == WalkSpec => []WalkMissesNothing
  BY WalkInvHolds, WalkedIsShown, PTL

\* A cross-match is shown with the strictest tier its FAR clears, for any tiers and in whatever
\* order they were sent (src/archive.rs, sort_tiers and tier_for).
THEOREM TierIsTheStrictestHolds == WalkSpec => []TierIsTheStrictest
  BY WalkInvHolds, TierOfTheSorted, PTL

=============================================================================
