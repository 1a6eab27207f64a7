------------------------------- MODULE Clusterer -------------------------------
(***************************************************************************)
(* gw-clusterer (src/bin/gw_clusterer.rs) with what it talks to: the       *)
(* GraceDB topics it consumes (src/kafka.rs), the topic it publishes       *)
(* superevent updates on (src/publisher.rs), the localize request and      *)
(* result topics (src/localizer.rs) with the bayestar-service behind them, *)
(* Redis (src/state.rs), MongoDB (src/archive.rs) and the sky map storage. *)
(*                                                                         *)
(* An instance is one thread: it handles one G event at a time, through    *)
(* the steps of Pipeline::process_event, and between any two of them it    *)
(* may crash.  A step ends where the program makes an outside effect       *)
(* another process can see; the effect may fail, as the code allows it to. *)
(* All instances write to one Redis prefix and one database: that is what  *)
(* several containers with the same command line do.                       *)
(***************************************************************************)
EXTENDS Clustering

CONSTANTS
  Instance,      \* the running gw-clusterer containers
  Assigned,      \* instance -> the events on the partitions it is assigned
  MinSnr,        \* --localize-min-snr
  MaxFar,        \* --localize-max-far-hz
  FreshGroup,    \* every start gets a process id, so a result group, of its own
  MaxStarts,     \* bound: starts of one instance
  MaxFailures,   \* bound: outside effects and localizations that fail
  MaxRewinds     \* bound: restarts of the bayestar-service

ASSUME AssignedAssumption == Assigned \in [Instance -> SUBSET Event]

ASSUME GateAssumption == MinSnr \in Int /\ MaxFar \in Int

ASSUME GroupAssumption == FreshGroup \in BOOLEAN

ASSUME BoundAssumption ==
  MaxStarts \in Nat /\ MaxFailures \in Nat /\ MaxRewinds \in Nat

VARIABLES
  pc,         \* instance -> where its thread is
  creator,    \* instance -> Pipeline.creator
  inbox,      \* instance -> the events it has not polled since it started
  update,     \* instance -> the SupereventUpdate being emitted and archived
  taken,      \* instance -> `pending`: results taken off the channel
  seen,       \* instance -> its position in the result topic
  stopping,   \* instance -> it is in drain_until_quiet
  starts,     \* instance -> how often it started (bounds the model)
  announced,  \* the updates published on the superevents topic
  redis,      \* the open hash: superevent id -> Superevent
  archive,    \* MongoDB: events, superevents, localize_{requests,skips,results}
  storage,    \* sky map storage: superevent id -> the FITS, and its contours
  requests,   \* the localize-request topic: superevent id, its key, -> the events
  served,     \* the bayestar-service's position: superevent id -> requests consumed
  results,    \* the localize-result topic
  failures,   \* how many effects have failed (bounds the model)
  rewinds     \* how often the bayestar-service restarted (bounds the model)

local    == <<creator, inbox, update, taken, seen, stopping, starts>>
external == <<announced, redis, archive, storage>>
topics   == <<requests, served, results>>
vars     == <<pc, local, external, topics, failures, rewinds>>

NoUpdate == [action |-> "none"]

EmptyArchive ==
  [events |-> {}, superevents |-> <<>>, requests |-> {}, skips |-> {}, results |-> <<>>]

Init ==
  /\ pc = [i \in Instance |-> "down"]
  /\ creator = [i \in Instance |-> EmptyCreator]
  /\ inbox = [i \in Instance |-> {}]
  /\ update = [i \in Instance |-> NoUpdate]
  /\ taken = [i \in Instance |-> <<>>]
  /\ seen = [i \in Instance |-> 0]
  /\ stopping = [i \in Instance |-> FALSE]
  /\ starts = [i \in Instance |-> 0]
  /\ announced = {} /\ redis = <<>> /\ archive = EmptyArchive /\ storage = <<>>
  /\ requests = <<>> /\ served = <<>> /\ results = <<>>
  /\ failures = 0 /\ rewinds = 0

-------------------------------------------------------------------------------
(* Helpers *)

Goto(i, label) == pc' = [pc EXCEPT ![i] = label]

\* An outside effect: done, or failed.
Effect(done, undone) ==
  \/ done /\ UNCHANGED failures
  \/ undone /\ failures < MaxFailures /\ failures' = failures + 1

\* The superevent of the creator with this id, as archive_superevent_from finds
\* it: an update's own copy is the creator's, which nothing else changes.
Held(i, id) ==
  LET keys == {t \in DOMAIN creator[i].superevents : creator[i].superevents[t].id = id}
  IN  creator[i].superevents[CHOOSE t \in keys : \A u \in keys : t <= u]

\* SupereventDoc::from_superevent.  The summary of a sky map has its size, and
\* no center: that is patched in afterwards.
SupereventDoc(s) ==
  [ t_0 |-> s.t_0, preferred |-> s.preferred_event, g_events |-> s.g_events,
    summary |-> IF s.skymap = NoSkymap THEN {} ELSE {"size"} ]

\* What is published for an update.
Announcement(i) ==
  IF update[i].action = "skipped" THEN update[i]
  ELSE [ action |-> update[i].action, id |-> update[i].id,
         superevent |-> Held(i, update[i].id) ]

\* localize_request_for: a Created or PreferredUpdated asks for a localization
\* of its event; request_id is made of these two fields.
Requested(u) == u.action \in {"created", "preferred_updated"}
LocalizeRequest(u) == [superevent_id |-> u.id, event |-> u.event]

\* The records of one key in a topic, in order; none for a key never used.
Queued(id) == IF id \in DOMAIN requests THEN requests[id] ELSE <<>>
Consumed(id) == IF id \in DOMAIN served THEN served[id] ELSE 0

\* The threshold gate of process_event.
BelowThreshold(e) == e.snr < MinSnr \/ e.far > MaxFar

\* apply_localize_result attaches: the result is ok and attach_skymap knows the
\* superevent.  Only superevent_id is looked at, not request_id.
Attaches(i, r) == r.ok /\ KeysOf(creator[i], r.superevent_id) # {}

\* Some open superevent has no sky map (outstanding_skymaps > 0).
Outstanding(i) ==
  \E t \in DOMAIN creator[i].superevents : creator[i].superevents[t].skymap = NoSkymap

-------------------------------------------------------------------------------
(* Start, stop and crash *)

\* Variant: the windows are not restored.
StartEmpty(i) ==
  /\ pc[i] = "down" /\ starts[i] < MaxStarts
  /\ Goto(i, "idle")
  /\ inbox' = [inbox EXCEPT ![i] = Assigned[i]]
  /\ \E n \in IF FreshGroup THEN {0} ELSE 0 .. Len(results) : seen' = [seen EXCEPT ![i] = n]
  /\ starts' = [starts EXCEPT ![i] = @ + 1]
  /\ UNCHANGED <<creator, update, taken, stopping, external, topics, failures, rewinds>>

\* Variant: a restart begins with the events published after it.
StartLatest(i) ==
  /\ pc[i] = "down" /\ starts[i] < MaxStarts
  /\ Goto(i, "idle")
  /\ creator' = [creator EXCEPT ![i] = LoadFromRedis(redis)]
  /\ inbox' = [inbox EXCEPT ![i] = IF starts[i] = 0 THEN Assigned[i] ELSE {}]
  /\ \E n \in IF FreshGroup THEN {0} ELSE 0 .. Len(results) : seen' = [seen EXCEPT ![i] = n]
  /\ starts' = [starts EXCEPT ![i] = @ + 1]
  /\ UNCHANGED <<update, taken, stopping, external, topics, failures, rewinds>>

\* main: the open windows come back from Redis -- none of them if the index
\* cannot be read (unwrap_or_default).  The event consumer never
\* stores an offset, so it starts at the earliest event.  The result consumer's
\* group is named after the process id: a new one starts at the earliest
\* result; one used before (process 1 of a restarted container) where
\* auto-commit left it, however far the steps made with the results got.
Start(i) ==
  /\ pc[i] = "down" /\ starts[i] < MaxStarts
  /\ Goto(i, "idle")
  /\ Effect(creator' = [creator EXCEPT ![i] = LoadFromRedis(redis)],
            creator' = [creator EXCEPT ![i] = EmptyCreator])
  /\ inbox' = [inbox EXCEPT ![i] = Assigned[i]]
  /\ \E n \in IF FreshGroup THEN {0} ELSE 0 .. Len(results) : seen' = [seen EXCEPT ![i] = n]
  /\ starts' = [starts EXCEPT ![i] = @ + 1]
  /\ UNCHANGED <<update, taken, stopping, external, topics, rewinds>>

\* What is lost with the process.
Lose(i) ==
  /\ Goto(i, "down")
  /\ creator' = [creator EXCEPT ![i] = EmptyCreator]
  /\ inbox' = [inbox EXCEPT ![i] = {}]
  /\ update' = [update EXCEPT ![i] = NoUpdate]
  /\ taken' = [taken EXCEPT ![i] = <<>>]
  /\ stopping' = [stopping EXCEPT ![i] = FALSE]
  /\ UNCHANGED <<seen, starts, external, topics, failures, rewinds>>

\* A crash, in a model where the instance may start once more.
Crash(i) ==
  /\ pc[i] # "down" /\ starts[i] < MaxStarts
  /\ Lose(i)

\* Ctrl-C, or --max-events: the loop ends after the current poll.
Stop(i) ==
  /\ pc[i] = "idle"
  /\ Goto(i, "quiet")
  /\ stopping' = [stopping EXCEPT ![i] = TRUE]
  /\ UNCHANGED <<creator, inbox, update, taken, seen, starts>>
  /\ UNCHANGED <<external, topics, failures, rewinds>>

-------------------------------------------------------------------------------
(* process_event *)

\* archive_event (best effort) and SupereventCreator::process.  Events come in
\* the order of their partition; here each is on a partition of its own, so
\* they come in any order.
HandleEvent(i, e) ==
  /\ pc[i] = "idle" /\ e \in inbox[i]
  /\ Goto(i, "emit")
  /\ inbox' = [inbox EXCEPT ![i] = @ \ {e}]
  /\ Effect(archive' = [archive EXCEPT !.events = @ \cup {e}], UNCHANGED archive)
  /\ creator' = [creator EXCEPT ![i] = Process(@, e)]
  /\ update' = [update EXCEPT ![i] = Update(creator[i], e)]
  /\ UNCHANGED <<taken, seen, stopping, starts, announced, redis, storage, topics, rewinds>>

\* Variant: the state is saved ahead of the archive.
EmitSaving(i) ==
  /\ pc[i] = "emit"
  /\ Goto(i, "archive")
  /\ Effect(announced' = announced \cup {Announcement(i)}, UNCHANGED announced)
  /\ redis' = SaveToRedis(creator[i])
  /\ UNCHANGED <<local, archive, storage, topics, rewinds>>

\* emit: a failed publish is logged and forgotten.
Emit(i) ==
  /\ pc[i] = "emit"
  /\ Goto(i, "archive")
  /\ Effect(announced' = announced \cup {Announcement(i)}, UNCHANGED announced)
  /\ UNCHANGED <<local, redis, archive, storage, topics, rewinds>>

\* Variant: an event that is skipped is not worth a write.
ArchiveUnlessSkipped(i) ==
  LET doc == SupereventDoc(Held(i, update[i].id))
  IN  /\ pc[i] = "archive"
      /\ Goto(i, IF update[i].action = "skymap_attached" THEN "center" ELSE "localize")
      /\ Effect(IF update[i].action = "skipped" THEN UNCHANGED archive
                ELSE archive' = [archive EXCEPT !.superevents = Insert(@, update[i].id, doc)],
                UNCHANGED archive)
      /\ UNCHANGED <<local, announced, redis, storage, topics, rewinds>>

\* archive_superevent_from: the document is replaced as a whole.
ArchiveSuperevent(i) ==
  LET doc == SupereventDoc(Held(i, update[i].id))
  IN  /\ pc[i] = "archive"
      /\ Goto(i, IF update[i].action = "skymap_attached" THEN "center" ELSE "localize")
      /\ Effect(archive' = [archive EXCEPT !.superevents = Insert(@, update[i].id, doc)],
                UNCHANGED archive)
      /\ UNCHANGED <<local, announced, redis, storage, topics, rewinds>>

\* localize_request_for, and for an event that passes the gate
\* submit_localize_request: a failed submit is logged and forgotten.
Localize(i) ==
  /\ pc[i] = "localize"
  /\ IF Requested(update[i]) /\ ~ BelowThreshold(update[i].event)
       THEN Effect(requests' = Insert(requests, update[i].id,
                                      Append(Queued(update[i].id), update[i].event)),
                   UNCHANGED requests)
       ELSE UNCHANGED <<requests, failures>>
  /\ Goto(i, IF Requested(update[i]) THEN "record" ELSE "persist")
  /\ UNCHANGED <<local, external, served, results, rewinds>>

\* archive_localize_skip below the threshold, archive_localize_request above.
RecordRequest(i) ==
  LET req == {LocalizeRequest(update[i])}
  IN  /\ pc[i] = "record"
      /\ Goto(i, "persist")
      /\ Effect(archive' = IF BelowThreshold(update[i].event)
                             THEN [archive EXCEPT !.skips = @ \cup req]
                             ELSE [archive EXCEPT !.requests = @ \cup req],
                UNCHANGED archive)
      /\ UNCHANGED <<local, announced, redis, storage, topics, rewinds>>

\* Variant: an event that is skipped changes nothing that needs saving.
PersistUnlessSkipped(i) ==
  /\ pc[i] = "persist"
  /\ Effect((IF update[i].action = "skipped" THEN UNCHANGED redis
             ELSE redis' = SaveToRedis(creator[i])) /\ Goto(i, "drain"),
            UNCHANGED redis /\ Goto(i, "idle"))
  /\ update' = [update EXCEPT ![i] = NoUpdate]
  /\ UNCHANGED <<creator, inbox, taken, seen, stopping, starts>>
  /\ UNCHANGED <<announced, archive, storage, topics, rewinds>>

\* persist_state: a failure ends process_event; the handler logs it, and the
\* results stay on the channel.
Persist(i) ==
  /\ pc[i] = "persist"
  /\ Effect(redis' = SaveToRedis(creator[i]) /\ Goto(i, "drain"),
            UNCHANGED redis /\ Goto(i, "idle"))
  /\ update' = [update EXCEPT ![i] = NoUpdate]
  /\ UNCHANGED <<creator, inbox, taken, seen, stopping, starts>>
  /\ UNCHANGED <<announced, archive, storage, topics, rewinds>>

-------------------------------------------------------------------------------
(* drain_localize_results and drain_until_quiet *)

\* drain_localize_results takes what the result thread has put on the channel,
\* which may be any part of what the topic holds.
Drain(i) ==
  /\ pc[i] = "drain"
  /\ \E n \in seen[i] .. Len(results) :
       /\ taken' = [taken EXCEPT ![i] = SubSeq(results, seen[i] + 1, n)]
       /\ Goto(i, IF n = seen[i] THEN "idle" ELSE "result")
       /\ seen' = [seen EXCEPT ![i] = n]
  /\ UNCHANGED <<creator, inbox, update, stopping, starts>>
  /\ UNCHANGED <<external, topics, failures, rewinds>>

\* drain_until_quiet, the deadline not reached: one result is received while a
\* superevent has no sky map.
ReceiveResult(i) ==
  /\ pc[i] = "quiet" /\ Outstanding(i) /\ seen[i] < Len(results)
  /\ Goto(i, "result")
  /\ taken' = [taken EXCEPT ![i] = <<results[seen[i] + 1]>>]
  /\ seen' = [seen EXCEPT ![i] = @ + 1]
  /\ UNCHANGED <<creator, inbox, update, stopping, starts>>
  /\ UNCHANGED <<external, topics, failures, rewinds>>

\* archive_localize_result and apply_localize_result on the next result taken.
ApplyResult(i) ==
  LET r == Head(taken[i])
  IN  /\ pc[i] = "result" /\ taken[i] # <<>>
      /\ taken' = [taken EXCEPT ![i] = Tail(@)]
      /\ Effect(archive' = [archive EXCEPT !.results =
                              Insert(@, [superevent_id |-> r.superevent_id, event |-> r.event],
                                     r.ok)],
                UNCHANGED archive)
      /\ IF Attaches(i, r)
           THEN /\ creator' = [creator EXCEPT ![i] = AttachSkymap(@, r.superevent_id, r.event)]
                /\ update' = [update EXCEPT ![i] =
                                [action |-> "skymap_attached", id |-> r.superevent_id]]
                /\ Goto(i, "emit")
           ELSE UNCHANGED <<creator, update, pc>>
      /\ UNCHANGED <<inbox, seen, stopping, starts>>
      /\ UNCHANGED <<announced, redis, storage, topics, rewinds>>

\* The center of the sky map is patched into the document, if there is one.
PatchCenter(i) ==
  LET id == update[i].id
  IN  /\ pc[i] = "center"
      /\ Goto(i, "blob")
      /\ Effect(IF id \in DOMAIN archive.superevents
                  THEN archive' = [archive EXCEPT !.superevents[id].summary =
                                     @ \cup {"center"}]
                  ELSE UNCHANGED archive,
                UNCHANGED archive)
      /\ UNCHANGED <<local, announced, redis, storage, topics, rewinds>>

\* SkymapStorage: upsert of the FITS, then upsert_contour of the contours made
\* from the same bytes.  What follows, the rescan of the cross-matches, is
\* CrossMatch's.
Stored(id) ==
  IF id \in DOMAIN storage THEN storage[id]
  ELSE [fits |-> NoSkymap, contours |-> NoSkymap]

StoreFits(i) ==
  LET id == update[i].id
  IN  /\ pc[i] = "blob"
      /\ Goto(i, "contours")
      /\ Effect(storage' = Insert(storage, id,
                                  [Stored(id) EXCEPT !.fits = Held(i, id).skymap]),
                UNCHANGED storage)
      /\ UNCHANGED <<local, announced, redis, archive, topics, rewinds>>

StoreContours(i) ==
  LET id == update[i].id
  IN  /\ pc[i] = "contours"
      /\ Goto(i, "result")
      /\ Effect(storage' = Insert(storage, id,
                                  [Stored(id) EXCEPT !.contours = Held(i, id).skymap]),
                UNCHANGED storage)
      /\ update' = [update EXCEPT ![i] = NoUpdate]
      /\ UNCHANGED <<creator, inbox, taken, seen, stopping, starts>>
      /\ UNCHANGED <<announced, redis, archive, topics, rewinds>>

\* Every result taken is applied: persist_state.  An error ends the handler, or
\* the program when it is stopping.
PersistMaps(i) ==
  /\ pc[i] = "result" /\ taken[i] = <<>>
  /\ \/ /\ redis' = SaveToRedis(creator[i])
        /\ Goto(i, IF stopping[i] THEN "quiet" ELSE "idle")
        /\ UNCHANGED <<local, failures>>
     \/ /\ failures < MaxFailures /\ failures' = failures + 1
        /\ UNCHANGED redis
        /\ IF stopping[i]
             THEN /\ Goto(i, "down")
                  /\ creator' = [creator EXCEPT ![i] = EmptyCreator]
                  /\ inbox' = [inbox EXCEPT ![i] = {}]
                  /\ stopping' = [stopping EXCEPT ![i] = FALSE]
                  /\ UNCHANGED <<update, taken, seen, starts>>
             ELSE Goto(i, "idle") /\ UNCHANGED local
  /\ UNCHANGED <<announced, archive, storage, topics, rewinds>>

\* drain_until_quiet returns because every superevent has a sky map.
QuietExit(i) == pc[i] = "quiet" /\ ~ Outstanding(i) /\ Lose(i)

\* drain_until_quiet returns because its deadline has passed.
DeadlineExit(i) == pc[i] = "quiet" /\ Outstanding(i) /\ Lose(i)

-------------------------------------------------------------------------------
(* The bayestar-service (bayestar-service/src/bayestar_service/main.py) *)

\* Variant: requests have no key, so that replicas share those of a superevent.
ServeUnkeyed(id) ==
  LET answer(n, ok) == results' = Append(results, [ superevent_id |-> id, ok |-> ok,
                                                    event |-> requests[id][n] ])
  IN  /\ id \in DOMAIN requests /\ Consumed(id) < Len(requests[id])
      /\ served' = Insert(served, id, Consumed(id) + 1)
      /\ \E n \in DOMAIN requests[id] : Effect(answer(n, TRUE), answer(n, FALSE))
      /\ UNCHANGED <<pc, local, external, requests, rewinds>>

\* One turn of the loop: the next request of a partition is answered, ok or
\* with an error.  Requests with one key stay in order; those of different
\* superevents may be on different partitions, served by different replicas.
Serve(id) ==
  LET answer(ok) == results' = Append(results, [ superevent_id |-> id, ok |-> ok,
                                                 event |-> requests[id][Consumed(id) + 1] ])
  IN  /\ id \in DOMAIN requests /\ Consumed(id) < Len(requests[id])
      /\ served' = Insert(served, id, Consumed(id) + 1)
      /\ Effect(answer(TRUE), answer(FALSE))
      /\ UNCHANGED <<pc, local, external, requests, rewinds>>

\* A replica stops and another goes on from what auto-commit had committed:
\* requests already answered may be answered again, and the one being worked
\* on may count as consumed though it was never answered.
ServiceRestart(id) ==
  /\ rewinds < MaxRewinds /\ rewinds' = rewinds + 1
  /\ \E n \in 0 .. Consumed(id) + 1 :
       /\ n <= Len(Queued(id)) /\ n # Consumed(id)
       /\ served' = Insert(served, id, n)
  /\ UNCHANGED <<pc, local, external, requests, results, failures>>

-------------------------------------------------------------------------------
\* What the thread of an instance does of its own accord.
Run(i) ==
  \/ \E e \in Event : HandleEvent(i, e)
  \/ Emit(i) \/ ArchiveSuperevent(i) \/ Localize(i) \/ RecordRequest(i) \/ Persist(i)
  \/ Drain(i) \/ ReceiveResult(i) \/ ApplyResult(i)
  \/ PatchCenter(i) \/ StoreFits(i) \/ StoreContours(i) \/ PersistMaps(i)
  \/ QuietExit(i) \/ DeadlineExit(i)

Next ==
  \/ \E i \in Instance : Start(i) \/ Crash(i) \/ Stop(i) \/ Run(i)
  \/ \E id \in DOMAIN requests : Serve(id) \/ ServiceRestart(id)

Spec == Init /\ [][Next]_vars

\* The thread keeps running, a container that is down is started again
\* (restart: always), the bayestar-service keeps serving.  Nobody has to press
\* Ctrl-C, nothing has to crash.
Fairness ==
  /\ \A i \in Instance : WF_vars(Run(i)) /\ WF_vars(Start(i))
  /\ WF_vars(\E id \in DOMAIN requests : Serve(id))

FairSpec == Spec /\ Fairness

-------------------------------------------------------------------------------
\* A sky map a superevent has was made from one of its own G events: no result
\* lands on a superevent it was not computed for, in memory or in Redis.
MapIsAMembers ==
  LET own(s) == s.skymap \in Range(s.g_events) \cup {NoSkymap}
  IN  /\ \A i \in Instance : \A t \in DOMAIN creator[i].superevents :
           own(creator[i].superevents[t])
      /\ \A id \in DOMAIN redis : own(redis[id])

\* Between two events everything is saved, as long as Redis never failed: a
\* crash while the instance waits loses nothing.
SavedWhenIdle ==
  \A i \in Instance :
    pc[i] \in {"idle", "quiet"} /\ failures = 0 => redis = SaveToRedis(creator[i])

\* Redis never gets ahead of the history: of every window it holds, MongoDB has
\* a document with that t_0 and at least those G events, and of every sky map
\* the storage has the FITS.  The order of the writes is what makes this true
\* at every moment, also after a crash between any two of them.
ArchiveCoversRedis ==
  failures = 0 =>
    \A id \in DOMAIN redis :
      /\ id \in DOMAIN archive.superevents
      /\ archive.superevents[id].t_0 = redis[id].t_0
      /\ Range(redis[id].g_events) \subseteq Range(archive.superevents[id].g_events)
      /\ redis[id].skymap # NoSkymap => Stored(id).fits # NoSkymap

\* Between two events, MongoDB shows each open superevent as it is: preferred
\* event, G events, and a sky map summary exactly when there is a map, whose
\* FITS and contours are then the stored ones.
ArchiveAgrees ==
  failures = 0 =>
    \A i \in Instance : pc[i] \in {"idle", "quiet"} =>
      \A t \in DOMAIN creator[i].superevents :
        LET s == creator[i].superevents[t]
        IN  /\ s.id \in DOMAIN archive.superevents
            /\ archive.superevents[s.id].preferred = s.preferred_event
            /\ archive.superevents[s.id].g_events = s.g_events
            /\ (s.skymap # NoSkymap) <=> ("size" \in archive.superevents[s.id].summary)
            /\ Stored(s.id) = [fits |-> s.skymap, contours |-> s.skymap]

\* A window in Redis stays there, keeps its t_0 and loses no G event, whatever
\* crashes and restarts come: nothing the clusterer once saved is forgotten.
WindowsSurvive ==
  [][ \A id \in DOMAIN redis :
        /\ id \in DOMAIN redis'
        /\ redis'[id].t_0 = redis[id].t_0
        /\ Range(redis[id].g_events) \subseteq Range(redis'[id].g_events) ]_vars

\* An id that is saved belongs to its window for good: what is published under
\* it is about that window, by whichever process, after whatever crashes.  An id
\* given before a crash and not saved is free again, and is given to another
\* window; this is where that ends.
SavedIdIsTaken ==
  [][ \A i \in Instance :
        Emit(i) /\ failures = 0 /\ update[i].id \in DOMAIN redis =>
          LET t_0 == redis[update[i].id].t_0
              a   == Announcement(i)
          IN  IF a.action = "skipped" THEN Distance(a.event.end_time, t_0) <= Half
              ELSE a.superevent.t_0 = t_0 ]_vars

\* Once a superevent has the sky map of its preferred event it keeps it until a
\* louder event comes: no late result of an earlier request replaces it.  That
\* rests on the service answering the requests of a superevent in order, once.
FreshMapStays ==
  [][ rewinds' = 0 =>
      \A i \in Instance :
        \A t \in DOMAIN creator[i].superevents \cap DOMAIN creator'[i].superevents :
          LET s == creator[i].superevents[t]
              r == creator'[i].superevents[t]
          IN  s.skymap = s.preferred_event /\ r.preferred_event = s.preferred_event =>
                r.skymap = s.skymap ]_vars

\* What Redis holds, seen as a timeline.
persisted == {redis[id].t_0 : id \in DOMAIN redis}

window(t) == redis[CHOOSE id \in DOMAIN redis : redis[id].t_0 = t]

Saved == INSTANCE SupereventTimeline
           WITH members   <- [t \in persisted |-> Range(window(t).g_events)],
                preferred <- [t \in persisted |-> window(t).preferred_event]

\* The persisted state behaves as the abstract timeline: handling an event
\* takes many steps, any of which a crash may cut short, yet each save moves
\* the timeline by one event that opens or joins the right window, or not at
\* all.
SavedTimeline == Saved!Spec

\* An event the broker has for an instance is recorded in a saved superevent
\* for good in the end, whenever the instance crashed on it, unless the instance
\* stays down: what was not saved is delivered again.
EventuallyRecorded ==
  \A i \in Instance : \A e \in Assigned[i] :
    \/ <>[](\E id \in DOMAIN redis : e \in Range(redis[id].g_events))
    \/ <>[](pc[i] = "down")

-------------------------------------------------------------------------------
(* What the repository says of the program, and the code does not do. *)

\* src/localizer.rs: a result is correlated with its superevent by
\* superevent_id / request_id -- so a map announced as attached is the one asked
\* for the preferred event it is announced with.
AttachedMapIsCurrent ==
  \A a \in announced :
    a.action = "skymap_attached" => a.superevent.skymap = a.superevent.preferred_event

===============================================================================
