------------------------------ MODULE PublicAlert ------------------------------
(***************************************************************************)
(* Public alerts: POST superevents/{id}/alerts of gw-api (create_alert in  *)
(* src/api.rs, build_alert in src/alert.rs), with what it reads, what the  *)
(* tasks that write it do at the same time (create_superevent in gw-api,   *)
(* archive_superevent_from in gw-clusterer, create_annotation), the alert  *)
(* topic and the audit rows.                                               *)
(*                                                                         *)
(* An alert is put together from four reads, the last of them through the  *)
(* sky map storage.  Then it is published, then its audit row is written.  *)
(***************************************************************************)
EXTENDS SkymapStorage, FiniteSets

CONSTANTS
  Operator,        \* the tasks of gw-api that make alerts and serve sky maps
  Writer,          \* the tasks that write superevents
  Writes,          \* writer -> the superevents it is given to write, in order
  Levels,          \* the contours stored with a map, <<50, 90>> in the code
  MaxAttempts,     \* bound: calls of create_alert
  MaxAnnotations   \* bound: annotations

\* A write: who makes it, the superevent's id, its preferred event, the map it
\* carries (or NoBlob), and whether it brings that map to the storage.
ASSUME WritesAssumption ==
  \A w \in Writer : \A n \in DOMAIN Writes[w] :
    LET write == Writes[w][n] IN
    /\ write.by \in {"gw-api", "gw-clusterer"}
    /\ write.new \in BOOLEAN /\ (write.new => write.map # NoBlob)

ASSUME ClientAssumption == Client = Operator \cup Writer /\ Operator \cap Writer = {}

ASSUME LevelsAssumption == Levels \in Seq(Nat)

ASSUME AlertBoundAssumption ==
  MaxAttempts \in Nat /\ MaxAnnotations \in Nat

VARIABLES
  events,       \* the graceids of the archived events
  superevents,  \* id -> SupereventDoc
  annotations,  \* AnnotationDocs, in the order they were inserted
  progress,     \* writer -> the write it is at, and its step of it
  requests,     \* operator task -> its call of create_alert
  topic,        \* the alerts on the alert topic, each by its attempt
  audit,        \* the AlertDocs, with the attempt for the alert
  unrecorded,   \* the attempts that ended without an audit row
  attempts      \* how often create_alert was called

archiveVars == <<events, superevents, annotations>>
alertVars   == <<requests, topic, audit, unrecorded, attempts>>
vars == <<storageVars, archiveVars, progress, alertVars>>

NoRequest == [at |-> "none"]

Ids == UNION {{Writes[w][n].id : n \in DOMAIN Writes[w]} : w \in Writer}

AlertInit ==
  /\ StorageInit
  /\ events = {} /\ superevents = <<>> /\ annotations = <<>>
  /\ progress = [w \in Writer |-> <<1, 1>>]
  /\ requests = [c \in Operator |-> NoRequest]
  /\ topic = {} /\ audit = {} /\ unrecorded = {}
  /\ attempts = 0

-------------------------------------------------------------------------------
(* The writers.  create_superevent (ingest_superevent) stops at its first error;
   gw-clusterer logs the error and goes on. *)

Step == <<"event", "doc", "map">> \o [n \in DOMAIN Levels |-> "contour"]

HasWork(w) == progress[w][1] <= Len(Writes[w])
Current(w) == Writes[w][progress[w][1]]
IsAt(w, steps) == HasWork(w) /\ Step[progress[w][2]] \in steps

Moves(w, position) == progress' = [progress EXCEPT ![w] = position]
NextWrite(w) == <<progress[w][1] + 1, 1>>
NextStep(w)  == IF progress[w][2] = Len(Step) THEN NextWrite(w)
                ELSE <<progress[w][1], progress[w][2] + 1>>
AfterError(w) == IF Current(w).by = "gw-api" THEN NextWrite(w) ELSE NextStep(w)

RecordEvent(w) ==
  /\ IsAt(w, {"event"})
  /\ \/ events' = events \cup {Current(w).preferred} /\ Moves(w, NextStep(w)) /\ Works
     \/ events' = events /\ Moves(w, AfterError(w)) /\ Fails
  /\ UNCHANGED <<deployment, objects, cache, calls, superevents, annotations, alertVars>>

\* The summary of a sky map only says that there is one; which one is what the
\* model compares with the storage.
SupereventDoc(write) == [preferred |-> write.preferred, skymap_summary |-> write.map]

UpsertSuperevent(w) ==
  /\ IsAt(w, {"doc"})
  /\ \/ /\ superevents' = [s \in DOMAIN superevents \cup {Current(w).id} |->
                             IF s = Current(w).id THEN SupereventDoc(Current(w))
                             ELSE superevents[s]]
        /\ Moves(w, NextStep(w)) /\ Works
     \/ superevents' = superevents /\ Moves(w, AfterError(w)) /\ Fails
  /\ UNCHANGED <<deployment, objects, cache, calls, events, annotations, alertVars>>

BlobKey(w) ==
  IF IsAt(w, {"map"}) THEN SkymapKey(Current(w).id)
  ELSE ContourKey(Current(w).id, Levels[progress[w][2] - 3])

\* A write that brings no map ends with its document; else the map and its
\* contours follow, a call of the storage each.
StoreBlob(w) ==
  /\ IsAt(w, {"map", "contour"}) /\ calls[w] = NoCall
  /\ IF Current(w).new
     THEN /\ calls' = [calls EXCEPT ![w] = Call("upsert", w, BlobKey(w), Current(w).map)]
          /\ UNCHANGED progress
     ELSE Moves(w, NextWrite(w)) /\ UNCHANGED calls
  /\ UNCHANGED <<deployment, objects, cache, losses, archiveVars, alertVars>>

\* An error of a contour is only logged, by both.
BlobStored(w) ==
  /\ calls[w].at = "answered"
  /\ Moves(w, IF calls[w].answer = "error" /\ IsAt(w, {"map"}) THEN AfterError(w)
              ELSE NextStep(w))
  /\ calls' = [calls EXCEPT ![w] = NoCall]
  /\ UNCHANGED <<deployment, objects, cache, losses, archiveVars, alertVars>>

-------------------------------------------------------------------------------
(* The readers: get_superevent_skymap and get_superevent_contour *)

Download(c) ==
  /\ requests[c] = NoRequest /\ calls[c] = NoCall
  /\ \E id \in Ids :
       \E key \in {SkymapKey(id)} \cup {ContourKey(id, l) : l \in ToSet(Levels)} :
         calls' = [calls EXCEPT ![c] = Call("get", c, key, NoBlob)]
  /\ UNCHANGED <<deployment, objects, cache, losses, archiveVars, progress, alertVars>>

Downloaded(c) ==
  /\ requests[c] = NoRequest /\ calls[c].at = "answered"
  /\ calls' = [calls EXCEPT ![c] = NoCall]
  /\ UNCHANGED <<deployment, objects, cache, losses, archiveVars, progress, alertVars>>

-------------------------------------------------------------------------------
(* Annotations *)

\* create_annotation: the superevent must be there; annotations only accumulate,
\* each with a created_at later than the last.
CreateAnnotation ==
  /\ Len(annotations) < MaxAnnotations
  /\ \E id \in DOMAIN superevents, kind \in {"p_astro", "manual_note"} :
       annotations' = Append(annotations, [superevent_id |-> id, kind |-> kind])
  /\ UNCHANGED <<storageVars, events, superevents, progress, alertVars>>

\* latest_payload_for(annotations, "p_astro"): the number of the annotation, or 0.
Classification(id) ==
  Max({0} \cup {n \in DOMAIN annotations :
                 annotations[n] = [superevent_id |-> id, kind |-> "p_astro"]})

-------------------------------------------------------------------------------
(* create_alert *)

\* The archive and the storage agree on a superevent, and nothing is at work to
\* change that.
Settled(id) ==
  /\ \A w \in Writer : HasWork(w) => progress[w][2] = 1
  /\ id \in DOMAIN superevents =>
       superevents[id].skymap_summary \in {NoBlob, Stored(SkymapKey(id))}
  /\ Coherent(id)

\* The operator presses Publish, or asks for a dry run.
PressPublish(c) ==
  /\ requests[c] = NoRequest /\ calls[c] = NoCall /\ attempts < MaxAttempts
  /\ attempts' = attempts + 1
  /\ \E id \in Ids, dry_run \in BOOLEAN :
       requests' = [requests EXCEPT ![c] =
         [ at |-> "superevent", id |-> id, dry_run |-> dry_run, attempt |-> attempts + 1,
           since |-> IF Settled(id) THEN progress ELSE <<>> ]]
  /\ UNCHANGED <<storageVars, archiveVars, progress, topic, audit, unrecorded>>

Respond(c) == requests' = [requests EXCEPT ![c] = NoRequest]

\* A request goes on with what it has just read.
Learns(c, news) ==
  requests' = [requests EXCEPT ![c] =
    [k \in DOMAIN requests[c] \cup DOMAIN news |->
       IF k \in DOMAIN news THEN news[k] ELSE requests[c][k]]]

\* An answer 404, 409, 500 or 503 before anything was built or sent.
GivesUp(c) == Respond(c) /\ UNCHANGED <<topic, audit, unrecorded, attempts>>

ReadSuperevent(c) ==
  /\ requests[c].at = "superevent"
  /\ LET id == requests[c].id IN
     \/ /\ id \in DOMAIN superevents /\ Works
        /\ Learns(c, [at |-> "annotations", doc |-> superevents[id]])
        /\ UNCHANGED <<topic, audit, unrecorded, attempts>>
     \/ id \notin DOMAIN superevents /\ GivesUp(c) /\ Works
     \/ GivesUp(c) /\ Fails
  /\ UNCHANGED <<deployment, objects, cache, calls, archiveVars, progress>>

ReadAnnotations(c) ==
  /\ requests[c].at = "annotations"
  /\ \/ /\ Works
        /\ Learns(c, [at |-> "event", classification |-> Classification(requests[c].id)])
        /\ UNCHANGED <<topic, audit, unrecorded, attempts>>
     \/ GivesUp(c) /\ Fails
  /\ UNCHANGED <<deployment, objects, cache, calls, archiveVars, progress>>

\* Variant: the storage is asked whatever the document says.
AlwaysWantsMap(doc) == TRUE

\* Whether create_alert asks the storage for a map: the document says there is one.
WantsMap(doc) == doc.skymap_summary # NoBlob

ReadEvent(c) ==
  /\ requests[c].at = "event"
  /\ LET r == requests[c] IN
     \/ /\ r.doc.preferred \in events /\ Works
        /\ Learns(c, [at |-> IF WantsMap(r.doc) THEN "map" ELSE "publish", map |-> NoBlob])
        /\ calls' = IF WantsMap(r.doc)
                    THEN [calls EXCEPT ![c] = Call("get", c, SkymapKey(r.id), NoBlob)]
                    ELSE calls
        /\ UNCHANGED <<topic, audit, unrecorded, attempts>>
     \/ r.doc.preferred \notin events /\ GivesUp(c) /\ Works /\ UNCHANGED calls
     \/ GivesUp(c) /\ Fails /\ UNCHANGED calls
  /\ UNCHANGED <<deployment, objects, cache, archiveVars, progress>>

\* A map that is not found leaves the alert without one; any other error ends it.
TakeMap(c) ==
  /\ requests[c].at = "map" /\ calls[c].at = "answered"
  /\ IF calls[c].answer = "error" THEN GivesUp(c)
     ELSE /\ Learns(c, [at |-> "publish", map |-> calls[c].blob])
          /\ UNCHANGED <<topic, audit, unrecorded, attempts>>
  /\ calls' = [calls EXCEPT ![c] = NoCall]
  /\ UNCHANGED <<deployment, objects, cache, losses, archiveVars, progress>>

\* build_alert.  `described' and `settled' are no part of it: they say what document
\* it was made of, and that no writer came between the reads.
build_alert(r) ==
  [ attempt |-> r.attempt, event |-> r.doc.preferred, classification |-> r.classification,
    skymap |-> r.map, described |-> r.doc.skymap_summary, settled |-> r.since = progress ]

\* What is left of a request once its alert was built: dry, sent or refused.
Built(c, outcome) ==
  [at |-> "insert", outcome |-> outcome, alert |-> build_alert(requests[c])]

\* The audit row: body and published.
AlertDoc(alert, published) == [attempt |-> alert.attempt, published |-> published]

\* Nothing is sent in a dry run; without a publisher the answer is 503.
Leaves(c, outcome) == requests' = [requests EXCEPT ![c] = Built(c, outcome)]

\* AlertPublisher::publish: a refusal may come although the broker has the alert.
Publish(c) ==
  /\ requests[c].at = "publish"
  /\ LET sent == topic \cup {requests[c].attempt}
         dry  == requests[c].dry_run
     IN \/ dry /\ Leaves(c, "dry") /\ UNCHANGED topic /\ Works
        \/ /\ ~dry /\ deployment.publisher /\ Leaves(c, "sent")
           /\ topic' = sent /\ Works
        \/ /\ ~dry /\ deployment.publisher /\ Leaves(c, "refused")
           /\ topic' \in {topic, sent} /\ Fails
        \/ ~dry /\ ~deployment.publisher /\ Respond(c) /\ UNCHANGED topic /\ Works
  /\ UNCHANGED <<deployment, objects, cache, calls, archiveVars, progress,
                 audit, unrecorded, attempts>>

\* Variant: the row says published of every alert that was meant to be.
PublishedUnlessDry(outcome) == outcome # "dry"

\* Whether the row says that the alert was published.
Published(outcome) == outcome = "sent"

\* insert_alert, and the answer.
InsertAlert(c) ==
  /\ requests[c].at = "insert"
  /\ LET r == requests[c] IN
     \/ /\ audit' = audit \cup {AlertDoc(r.alert, Published(r.outcome))}
        /\ UNCHANGED unrecorded /\ Works
     \/ unrecorded' = unrecorded \cup {r.alert.attempt} /\ UNCHANGED audit /\ Fails
  /\ Respond(c)
  /\ UNCHANGED <<deployment, objects, cache, calls, archiveVars, progress, topic, attempts>>

-------------------------------------------------------------------------------
(* A restart of gw-api ends whatever its tasks were doing. *)

OfApi(w) == HasWork(w) /\ Current(w).by = "gw-api"

Crash ==
  /\ Fails
  /\ unrecorded' = unrecorded \cup
       {requests[c].alert.attempt : c \in {o \in Operator : requests[o].at = "insert"}}
  /\ requests' = [c \in Operator |-> NoRequest]
  /\ calls' = [c \in Client |-> IF c \in Writer /\ ~OfApi(c) THEN calls[c] ELSE NoCall]
  /\ progress' = [w \in Writer |-> IF OfApi(w) THEN NextWrite(w) ELSE progress[w]]
  /\ UNCHANGED <<deployment, objects, cache, archiveVars, topic, audit, attempts>>

-------------------------------------------------------------------------------

Storage(c) == StorageStep(c) /\ UNCHANGED <<archiveVars, progress, alertVars>>
Expires(id) == Expire(id) /\ UNCHANGED <<archiveVars, progress, alertVars>>

Write(w) == RecordEvent(w) \/ UpsertSuperevent(w) \/ StoreBlob(w) \/ BlobStored(w)

CreateAlert(c) ==
  \/ ReadSuperevent(c) \/ ReadAnnotations(c) \/ ReadEvent(c) \/ TakeMap(c)
  \/ Publish(c) \/ InsertAlert(c)

Next ==
  \/ \E c \in Client : Storage(c)
  \/ \E id \in Ids : Expires(id)
  \/ \E w \in Writer : Write(w)
  \/ CreateAnnotation
  \/ \E c \in Operator : PressPublish(c) \/ CreateAlert(c) \/ Download(c) \/ Downloaded(c)
  \/ Crash

Spec == AlertInit /\ [][Next]_vars

\* A task that has begun goes on; Redis drops what has expired.
Fairness ==
  /\ \A c \in Client : WF_vars(Storage(c))
  /\ \A w \in Writer : WF_vars(Write(w))
  /\ \A c \in Operator : WF_vars(CreateAlert(c)) /\ WF_vars(Downloaded(c))
  /\ \A id \in Ids : WF_vars(Expires(id))

FairSpec == Spec /\ Fairness

-------------------------------------------------------------------------------
(* Properties *)

\* The audit rows tell what happened to each alert: one that is published says so
\* only of an alert on the topic, so never of a dry run, and an alert on the topic
\* has its row, unless the row is about to be written, or its insert failed or
\* gw-api restarted between the publish and the row (src/api.rs: create_alert).
AuditIsTruthful ==
  /\ \A row \in audit : row.published => row.attempt \in topic
  /\ \A a \in topic :
       \/ \E row \in audit : row.attempt = a
       \/ \E c \in Operator : requests[c].at = "insert" /\ requests[c].alert.attempt = a
       \/ a \in unrecorded

\* The four reads of create_alert are no snapshot, but nothing less than a writer
\* comes between them: an alert made while the archive, the storage and the cache
\* were settled carries the very map its superevent is described with, and none
\* if it has none, though the storage may still hold an older one.
AlertCarriesItsMap ==
  \A c \in Operator :
    (requests[c].at = "insert" /\ requests[c].alert.settled)
      => requests[c].alert.skymap = requests[c].alert.described

\* However a read, a put, a restart and an uncached writer interleave, the cache
\* does not keep an old map: when the writes are over, it comes to agree with the
\* store and stays so (SETEX in SkymapCache::set).
EventuallyFresh == <>[](\A id \in Ids : Coherent(id))
===============================================================================
