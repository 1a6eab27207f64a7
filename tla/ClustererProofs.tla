---------------------------- MODULE ClustererProofs ----------------------------
(***************************************************************************)
(* The invariants and action properties of Clusterer, for every set of     *)
(* events, every gate and every number of calls.  What the instances write *)
(* is well formed however many of them there are; the rest is proved for   *)
(* one clusterer, which is how it is deployed, and where an id can be      *)
(* given twice otherwise, for one that starts once.                        *)
(***************************************************************************)
EXTENDS Clusterer, ClusteringProofs

\* One container runs the clusterer.
OneClusterer == \A i, j \in Instance : i = j

Label ==
  { "down", "idle", "emit", "archive", "localize", "record", "persist", "drain",
    "result", "center", "blob", "contours", "quiet" }

LocalizeResult == [superevent_id : Nat, ok : BOOLEAN, event : Event]

Doc == {"t_0", "preferred", "g_events", "summary"}

-------------------------------------------------------------------------------
(* What holds however many instances there are. *)

\* The variables have the domains and ranges the program gives them.
Shape ==
  /\ pc \in [Instance -> Label]
  /\ DOMAIN creator = Instance /\ DOMAIN update = Instance
  /\ inbox \in [Instance -> SUBSET Event]
  /\ taken \in [Instance -> Seq(LocalizeResult)]
  /\ seen \in [Instance -> Nat] /\ starts \in [Instance -> Nat]
  /\ DOMAIN stopping = Instance
  /\ failures \in Nat /\ rewinds \in Nat
  /\ results \in Seq(LocalizeResult)
  /\ DOMAIN requests \subseteq Nat
  /\ requests \in [DOMAIN requests -> Seq(Event)]
  /\ served \in [DOMAIN served -> Nat]
  /\ DOMAIN archive = {"events", "superevents", "requests", "skips", "results"}
  /\ \A id \in DOMAIN archive.superevents : DOMAIN archive.superevents[id] = Doc
  /\ \A id \in DOMAIN storage : DOMAIN storage[id] = {"fits", "contours"}

\* The creator of every instance is well formed, and so is what Redis holds.
Windows ==
  /\ \A i \in Instance : GoodCreator(creator[i])
  /\ \E c : GoodCreator(c) /\ redis = SaveToRedis(c)

\* The superevent with this id is open in instance i at t.
OpenAt(i, id, t) ==
  t \in DOMAIN creator[i].superevents /\ creator[i].times[t] = id

\* Where an instance handles an event, and where a sky map it has attached.
OnEvent(i) ==
  \/ pc[i] \in {"emit", "archive"} /\ update[i].action # "skymap_attached"
  \/ pc[i] \in {"localize", "record", "persist"}
OnMap(i) ==
  \/ pc[i] \in {"emit", "archive"} /\ update[i].action = "skymap_attached"
  \/ pc[i] \in {"center", "blob", "contours"}

\* The update being handled is about an open superevent, and of one it created
\* or promoted its event is the preferred one.
UpdateOK(i) ==
  /\ OnEvent(i) =>
       /\ update[i].action \in {"created", "preferred_updated", "skipped"}
       /\ update[i].event \in Event
       /\ \E t \in DOMAIN creator[i].superevents :
            /\ OpenAt(i, update[i].id, t)
            /\ Requested(update[i]) =>
                 creator[i].superevents[t].preferred_event = update[i].event
  /\ OnMap(i) =>
       /\ update[i].action = "skymap_attached"
       /\ \E t \in DOMAIN creator[i].superevents : OpenAt(i, update[i].id, t)

\* What an instance has taken of the result topic and not applied yet is the
\* last it has seen of it, and is nothing outside the loop over the results.
TakenOK(i) ==
  /\ Len(taken[i]) <= seen[i] /\ seen[i] <= Len(results)
  /\ \A k \in 1 .. Len(taken[i]) :
       taken[i][k] = results[(seen[i] - Len(taken[i])) + k]
  /\ pc[i] # "result" /\ ~ OnMap(i) => taken[i] = <<>>

Updates == \A i \in Instance : UpdateOK(i)
Taken == \A i \in Instance : TakenOK(i)

Base == Shape /\ Windows /\ Updates /\ Taken

-------------------------------------------------------------------------------
(* One clusterer: Redis follows the creator. *)

\* d has the windows of c, whatever sky maps.
SameWindows(c, d) ==
  /\ d.times = c.times
  /\ DOMAIN d.superevents = DOMAIN c.superevents
  /\ \A t \in DOMAIN c.superevents :
       /\ d.superevents[t].g_events = c.superevents[t].g_events
       /\ d.superevents[t].preferred_event = c.superevents[t].preferred_event

\* As long as nothing failed, Redis holds the creator as it is between events,
\* lacks the one event being handled, or lacks sky maps being handled.
FollowsAt(i) ==
  /\ pc[i] \in {"idle", "quiet", "drain"} => redis = SaveToRedis(creator[i])
  /\ OnEvent(i) =>
       \E c : /\ GoodCreator(c) /\ redis = SaveToRedis(c)
              /\ creator[i] = Process(c, update[i].event)
              /\ update[i] = Update(c, update[i].event)
  /\ pc[i] = "result" \/ OnMap(i) =>
       \E c : /\ GoodCreator(c) /\ redis = SaveToRedis(c)
              /\ SameWindows(c, creator[i])

Follows == failures = 0 => \A i \in Instance : FollowsAt(i)

\* Among these documents is one of this superevent with at least its G events.
DocCovers(docs, s) ==
  /\ s.id \in DOMAIN docs
  /\ docs[s.id].t_0 = s.t_0
  /\ Range(s.g_events) \subseteq Range(docs[s.id].g_events)

\* If it has a sky map, there is a FITS of it in this storage.
FitsCovers(stored, s) ==
  s.skymap # NoSkymap => s.id \in DOMAIN stored /\ stored[s.id].fits # NoSkymap

\* MongoDB and the storage cover every open superevent, but for what is being
\* written of the one being handled; and one being handled for its sky map has it.
CoveredAt(i) ==
  /\ \A t \in DOMAIN creator[i].superevents :
       LET s == creator[i].superevents[t]
           current == creator[i].times[t] = update[i].id
       IN  /\ ~ (OnEvent(i) /\ pc[i] \in {"emit", "archive"} /\ current) =>
                DocCovers(archive.superevents, s)
           /\ ~ (OnMap(i) /\ pc[i] # "contours" /\ current) => FitsCovers(storage, s)
  /\ OnMap(i) =>
       \A t \in DOMAIN creator[i].superevents :
         OpenAt(i, update[i].id, t) => creator[i].superevents[t].skymap # NoSkymap

RedisCovered ==
  \A id \in DOMAIN redis : /\ DocCovers(archive.superevents, redis[id])
                           /\ FitsCovers(storage, redis[id])

Covered == failures = 0 => RedisCovered /\ \A i \in Instance : CoveredAt(i)

-------------------------------------------------------------------------------
(* One clusterer that starts once: what is written elsewhere is about what it *)
(* has open.                                                                  *)

StartsOnce == OneClusterer /\ MaxStarts <= 1

\* Nothing has happened before the first start.
PristineAt(i) ==
  /\ pc[i] # "down" => starts[i] # 0
  /\ starts[i] = 0 =>
       /\ DOMAIN redis = {} /\ DOMAIN storage = {} /\ announced = {}
       /\ DOMAIN requests = {} /\ results = <<>>

Pristine == \A i \in Instance : PristineAt(i)

\* In creator c, or that of instance i, the event is recorded under this id.
RecordedIn(c, id, e) ==
  \E t \in DOMAIN c.superevents : c.times[t] = id /\ e \in Range(c.superevents[t].g_events)
Recorded(i, id, e) == RecordedIn(creator[i], id, e)

OwnMap(s) == s.skymap \in Range(s.g_events) \cup {NoSkymap}

\* What is asked of the bayestar-service, and what it answers, is about a G
\* event of the superevent it is filed under.
AskedAt(i) ==
  /\ pc[i] # "down" =>
       /\ \A id \in DOMAIN requests : \A n \in DOMAIN requests[id] :
            Recorded(i, id, requests[id][n])
       /\ \A n \in DOMAIN results :
            Recorded(i, results[n].superevent_id, results[n].event)
  /\ \A t \in DOMAIN creator[i].superevents : OwnMap(creator[i].superevents[t])

Asked ==
  /\ \A i \in Instance : AskedAt(i)
  /\ \A id \in DOMAIN redis : OwnMap(redis[id])

\* The storage holds sky maps of open superevents only, a FITS and contours each.
FiledAt(i) ==
  pc[i] # "down" =>
    \A id \in DOMAIN storage : \E t \in DOMAIN creator[i].superevents : OpenAt(i, id, t)

Filed ==
  /\ \A i \in Instance : FiledAt(i)
  /\ \A id \in DOMAIN storage :
       storage[id] = [fits |-> storage[id].fits, contours |-> storage[id].contours]

\* Among these documents this superevent is shown as it is.
DocAgrees(docs, s) ==
  /\ s.id \in DOMAIN docs
  /\ docs[s.id].preferred = s.preferred_event
  /\ docs[s.id].g_events = s.g_events
  /\ (s.skymap # NoSkymap) <=> ("size" \in docs[s.id].summary)

\* What this storage has under an id.
FitsOf(stored, id) == IF id \in DOMAIN stored THEN stored[id].fits ELSE NoSkymap
ContoursOf(stored, id) == IF id \in DOMAIN stored THEN stored[id].contours ELSE NoSkymap

\* Documents, FITS and contours agree with the open superevents, but for what
\* is being written of the one being handled.
AgreesAt(i) ==
  \A t \in DOMAIN creator[i].superevents :
    LET s == creator[i].superevents[t]
        current == creator[i].times[t] = update[i].id
    IN  /\ ~ (pc[i] \in {"emit", "archive"} /\ current) => DocAgrees(archive.superevents, s)
        /\ ~ (OnMap(i) /\ pc[i] # "contours" /\ current) => FitsOf(storage, s.id) = s.skymap
        /\ ~ (OnMap(i) /\ current) => ContoursOf(storage, s.id) = s.skymap

Agrees == failures = 0 => \A i \in Instance : pc[i] # "down" => AgreesAt(i)

\* The first result in the topic that instance i has not applied yet.
Unapplied(i) == seen[i] - Len(taken[i]) + 1

\* What a map has under a key.
At(map, key, none) == IF key \in DOMAIN map THEN map[key] ELSE none

\* Of the superevent of this id, with preferred event p: after p, nothing else is
\* answered in rs or left to be answered in q, of which k have been; and when the
\* sky map it has is that of p, nothing else is to come from result n0 on.
InOrder(rs, q, k, id, p) ==
  /\ \A n, m \in DOMAIN rs :
       n < m /\ rs[n].superevent_id = id /\ rs[m].superevent_id = id /\ rs[n].event = p =>
         rs[m].event = p
  /\ \A n \in DOMAIN rs : \A m \in DOMAIN q :
       rs[n].superevent_id = id /\ rs[n].event = p /\ m > k => q[m] = p
  /\ \A m, l \in DOMAIN q : m < l /\ q[m] = p => q[l] = p

Settled(rs, q, k, n0, id, p) ==
  /\ \A n \in DOMAIN rs : n >= n0 /\ rs[n].superevent_id = id => rs[n].event = p
  /\ \A m \in DOMAIN q : m > k => q[m] = p

OnCourse(rs, q, k, n0, id, p, map) ==
  InOrder(rs, q, k, id, p) /\ (map = p => Settled(rs, q, k, n0, id, p))

\* Each event is handled once, and as long as the bayestar-service has not
\* restarted, results come in the order of the requests.
OrderedAt(i) ==
  \A t \in DOMAIN creator[i].superevents :
    LET s == creator[i].superevents[t]
        id == creator[i].times[t]
    IN  /\ Range(s.g_events) \cap inbox[i] = {}
        /\ rewinds = 0 => OnCourse(results, At(requests, id, <<>>), At(served, id, 0),
                                   Unapplied(i), id, s.preferred_event, s.skymap)

Ordered == \A i \in Instance : OrderedAt(i)

-------------------------------------------------------------------------------
(* Lemmas about one superevent and one creator. *)

\* The superevent found under an id is the one that is open with it.
LEMMA HeldIsOpen ==
  ASSUME NEW i \in Instance, GoodCreator(creator[i]), NEW id, NEW t, OpenAt(i, id, t)
  PROVE  /\ Held(i, id) = creator[i].superevents[t]
         /\ id \in Nat /\ t \in Int
         /\ creator[i].superevents[t] \in Superevent
         /\ creator[i].superevents[t].id = id /\ creator[i].superevents[t].t_0 = t
<1> DEFINE D == DOMAIN creator[i].superevents
           keys == {u \in D : creator[i].superevents[u].id = id}
<1>1. /\ D \subseteq Int /\ creator[i].superevents \in [D -> Superevent]
      /\ \A u \in D : /\ creator[i].superevents[u].id = creator[i].times[u]
                      /\ creator[i].superevents[u].t_0 = u
                      /\ creator[i].times[u] \in Nat
      /\ \A u, v \in D : creator[i].times[u] = creator[i].times[v] => u = v
      /\ t \in D /\ creator[i].times[t] = id
  BY DEF GoodCreator, GoodSuperevent, OpenAt
<1>2. keys = {t}
  BY <1>1
<1>3. (CHOOSE u \in keys : \A v \in keys : u <= v) = t
  BY <1>1, <1>2
<1>4. Held(i, id) = creator[i].superevents[t]
  BY <1>3 DEF Held
<1>. QED
  BY <1>1, <1>4

-------------------------------------------------------------------------------
(* What holds however many instances there are. *)

\* An update that is being handled is of a type that can be written down.
LEMMA UpdateTypes ==
  ASSUME Base, NEW i \in Instance
  PROVE  /\ OnEvent(i) => update[i].event \in Event /\ update[i].id \in Nat
         /\ OnMap(i) => update[i].id \in Nat
<1>1. GoodCreator(creator[i])
  BY DEF Base, Windows
<1>. QED
  BY <1>1, HeldIsOpen DEF Base, Updates, UpdateOK

-------------------------------------------------------------------------------
(* What a step changes, instance by instance. *)

\* The step leaves instance j alone.
Untouched(j) ==
  /\ pc'[j] = pc[j] /\ creator'[j] = creator[j] /\ inbox'[j] = inbox[j]
  /\ update'[j] = update[j] /\ taken'[j] = taken[j] /\ seen'[j] = seen[j]
  /\ starts'[j] = starts[j]

\* Instance i moves to a label, whatever else; the others do nothing.
Moves(i, label) ==
  /\ Shape' /\ pc'[i] = label
  /\ \A j \in Instance \ {i} : Untouched(j)

\* Of an effect that may fail: if nothing has failed so far, it was done.
Done(done) == failures' = 0 => failures = 0 /\ done

\* Start: the creator comes back from Redis, or empty.
LEMMA StartStep ==
  ASSUME Base, NEW i \in Instance, Start(i)
  PROVE  /\ Moves(i, "idle") /\ pc[i] = "down"
         /\ creator'[i] = LoadFromRedis(redis) \/ creator'[i] = EmptyCreator
         /\ Done(creator'[i] = LoadFromRedis(redis))
         /\ inbox'[i] = Assigned[i] /\ update'[i] = update[i] /\ taken'[i] = taken[i]
         /\ seen'[i] <= Len(results)
         /\ starts[i] < MaxStarts /\ starts'[i] = starts[i] + 1
         /\ UNCHANGED <<external, topics, rewinds>>
<1>0. Shape
  BY DEF Base
<1>1. /\ failures' \in Nat
      /\ \/ creator' = [creator EXCEPT ![i] = LoadFromRedis(redis)]
         \/ creator' = [creator EXCEPT ![i] = EmptyCreator]
      /\ Done(creator' = [creator EXCEPT ![i] = LoadFromRedis(redis)])
  BY <1>0 DEF Start, Effect, Done, Shape
<1>2. /\ pc' = [pc EXCEPT ![i] = "idle"] /\ pc[i] = "down"
      /\ inbox' = [inbox EXCEPT ![i] = Assigned[i]]
      /\ starts' = [starts EXCEPT ![i] = @ + 1] /\ starts[i] < MaxStarts
      /\ UNCHANGED <<update, taken, stopping, external, topics, rewinds>>
  BY DEF Start, Goto
<1>3. PICK n \in 0 .. Len(results) : seen' = [seen EXCEPT ![i] = n]
  <2>1. \E n \in IF FreshGroup THEN {0} ELSE 0 .. Len(results) :
          seen' = [seen EXCEPT ![i] = n]
    BY DEF Start
  <2>2. Len(results) \in Nat /\ 0 \in 0 .. Len(results)
    BY <1>0 DEF Shape
  <2>3. (IF FreshGroup THEN {0} ELSE 0 .. Len(results)) \subseteq 0 .. Len(results)
    BY <2>2
  <2>. QED
    BY <2>1, <2>2, <2>3
<1>4. n \in Nat /\ n <= Len(results)
  BY <1>0, <1>3 DEF Shape
<1>5. /\ pc' \in [Instance -> Label] /\ DOMAIN creator' = Instance
      /\ seen' \in [Instance -> Nat] /\ starts' \in [Instance -> Nat]
      /\ inbox' \in [Instance -> SUBSET Event]
  <2>1. pc' \in [Instance -> Label] /\ DOMAIN creator' = Instance
    BY <1>0, <1>1, <1>2 DEF Shape, Label
  <2>2. seen' \in [Instance -> Nat] /\ starts' \in [Instance -> Nat]
    BY <1>0, <1>2, <1>3, <1>4 DEF Shape
  <2>3. inbox' \in [Instance -> SUBSET Event]
    BY <1>0, <1>2, AssignedAssumption DEF Shape
  <2>. QED
    BY <2>1, <2>2, <2>3
<1>6. Shape'
  BY <1>0, <1>1, <1>2, <1>5 DEF Shape, external, topics
<1>7. \A j \in Instance \ {i} : Untouched(j)
  BY <1>0, <1>1, <1>2, <1>3 DEF Shape, Untouched
<1>. QED
  BY <1>0, <1>1, <1>2, <1>3, <1>4, <1>6, <1>7 DEF Moves, Done, Shape

\* A process that ends loses what it had in memory.
LEMMA LoseStep ==
  ASSUME Base, NEW i \in Instance, Lose(i)
  PROVE  /\ Moves(i, "down")
         /\ creator'[i] = EmptyCreator /\ inbox'[i] = {} /\ update'[i] = NoUpdate
         /\ taken'[i] = <<>> /\ seen'[i] = seen[i] /\ starts'[i] = starts[i]
         /\ UNCHANGED <<external, topics, failures, rewinds>>
<1>0. Shape
  BY DEF Base
<1>1. /\ pc' = [pc EXCEPT ![i] = "down"]
      /\ creator' = [creator EXCEPT ![i] = EmptyCreator]
      /\ inbox' = [inbox EXCEPT ![i] = {}] /\ update' = [update EXCEPT ![i] = NoUpdate]
      /\ taken' = [taken EXCEPT ![i] = <<>>] /\ DOMAIN stopping' = Instance
      /\ UNCHANGED <<seen, starts, external, topics, failures, rewinds>>
  BY <1>0 DEF Lose, Goto, Shape
<1>2. /\ pc' \in [Instance -> Label]
      /\ inbox' \in [Instance -> SUBSET Event]
      /\ taken' \in [Instance -> Seq(LocalizeResult)]
      /\ DOMAIN creator' = Instance /\ DOMAIN update' = Instance
  BY <1>0, <1>1 DEF Shape, Label
<1>3. Shape'
  BY <1>0, <1>1, <1>2 DEF Shape, external, topics
<1>4. \A j \in Instance \ {i} : Untouched(j)
  BY <1>0, <1>1 DEF Shape, Untouched
<1>. QED
  BY <1>0, <1>1, <1>3, <1>4 DEF Moves, Shape

\* Ctrl-C.
LEMMA StopStep ==
  ASSUME Base, NEW i \in Instance, Stop(i)
  PROVE  /\ Moves(i, "quiet") /\ pc[i] = "idle"
         /\ UNCHANGED <<creator, inbox, update, taken, seen, starts>>
         /\ UNCHANGED <<external, topics, failures, rewinds>>
<1>0. Shape
  BY DEF Base
<1>1. /\ pc' = [pc EXCEPT ![i] = "quiet"] /\ pc[i] = "idle" /\ DOMAIN stopping' = Instance
      /\ UNCHANGED <<creator, inbox, update, taken, seen, starts>>
      /\ UNCHANGED <<external, topics, failures, rewinds>>
  BY <1>0 DEF Stop, Goto, Shape
<1>2. pc' \in [Instance -> Label]
  BY <1>0, <1>1 DEF Shape, Label
<1>3. Shape'
  BY <1>0, <1>1, <1>2 DEF Shape, external, topics
<1>. QED
  BY <1>0, <1>1, <1>3 DEF Moves, Shape, Untouched

\* HandleEvent.
LEMMA HandleStep ==
  ASSUME Base, NEW i \in Instance, NEW e \in Event, HandleEvent(i, e)
  PROVE  /\ Moves(i, "emit") /\ pc[i] = "idle" /\ e \in inbox[i]
         /\ inbox'[i] = inbox[i] \ {e}
         /\ creator'[i] = Process(creator[i], e)
         /\ update'[i] = Update(creator[i], e)
         /\ taken'[i] = taken[i] /\ seen'[i] = seen[i] /\ starts'[i] = starts[i]
         /\ archive'.superevents = archive.superevents
         /\ failures' = 0 => failures = 0
         /\ UNCHANGED <<announced, redis, storage, topics, rewinds>>
<1>0. Shape
  BY DEF Base
<1>1. /\ failures' \in {failures, failures + 1}
      /\ archive' = archive \/ archive' = [archive EXCEPT !.events = @ \cup {e}]
  BY DEF HandleEvent, Effect
<1>2. DOMAIN archive' = DOMAIN archive /\ archive'.superevents = archive.superevents
  BY <1>0, <1>1 DEF Shape
<1>3. failures' \in Nat /\ (failures' = 0 => failures = 0)
  BY <1>0, <1>1 DEF Shape
<1>4. /\ pc' = [pc EXCEPT ![i] = "emit"] /\ pc[i] = "idle" /\ e \in inbox[i]
      /\ inbox' = [inbox EXCEPT ![i] = @ \ {e}]
      /\ creator' = [creator EXCEPT ![i] = Process(@, e)]
      /\ update' = [update EXCEPT ![i] = Update(creator[i], e)]
      /\ UNCHANGED <<taken, seen, stopping, starts, announced, redis, storage, topics, rewinds>>
  BY DEF HandleEvent, Goto
<1>5. /\ pc' \in [Instance -> Label]
      /\ inbox' \in [Instance -> SUBSET Event]
      /\ DOMAIN creator' = Instance /\ DOMAIN update' = Instance
  BY <1>0, <1>4 DEF Shape, Label
<1>6. Shape'
  BY <1>0, <1>2, <1>3, <1>4, <1>5 DEF Shape, topics
<1>7. \A j \in Instance \ {i} : Untouched(j)
  BY <1>0, <1>4 DEF Shape, Untouched
<1>. QED
  BY <1>0, <1>2, <1>3, <1>4, <1>6, <1>7 DEF Moves, Shape

\* Emit.
LEMMA EmitStep ==
  ASSUME Base, NEW i \in Instance, Emit(i)
  PROVE  /\ Moves(i, "archive") /\ pc[i] = "emit"
         /\ announced' = announced \/ announced' = announced \cup {Announcement(i)}
         /\ failures' = 0 => failures = 0
         /\ UNCHANGED <<local, redis, archive, storage, topics, rewinds>>
<1>0. Shape
  BY DEF Base
<1>1. /\ failures' \in {failures, failures + 1}
      /\ announced' = announced \/ announced' = announced \cup {Announcement(i)}
  BY DEF Emit, Effect
<1>2. failures' \in Nat /\ (failures' = 0 => failures = 0)
  BY <1>0, <1>1 DEF Shape
<1>3. /\ pc' = [pc EXCEPT ![i] = "archive"] /\ pc[i] = "emit"
      /\ UNCHANGED <<local, redis, archive, storage, topics, rewinds>>
  BY DEF Emit, Goto
<1>4. pc' \in [Instance -> Label]
  BY <1>0, <1>3 DEF Shape, Label
<1>5. Shape'
  BY <1>0, <1>2, <1>3, <1>4 DEF Shape, local, topics
<1>6. \A j \in Instance \ {i} : Untouched(j)
  BY <1>0, <1>3 DEF Shape, Untouched, local
<1>. QED
  BY <1>0, <1>1, <1>2, <1>3, <1>5, <1>6 DEF Moves, Shape

\* ArchiveSuperevent: the document is that of the open superevent.
LEMMA ArchiveStep ==
  ASSUME Base, NEW i \in Instance, ArchiveSuperevent(i)
  PROVE  LET id == update[i].id
             docs == Insert(archive.superevents, id, SupereventDoc(Held(i, id)))
         IN  /\ Moves(i, IF update[i].action = "skymap_attached" THEN "center" ELSE "localize")
             /\ pc[i] = "archive"
             /\ archive'.superevents \in {archive.superevents, docs}
             /\ Done(archive'.superevents = docs)
             /\ UNCHANGED <<local, announced, redis, storage, topics, rewinds>>
<1> DEFINE id == update[i].id
           doc == SupereventDoc(Held(i, id))
           docs == Insert(archive.superevents, id, doc)
           next == IF update[i].action = "skymap_attached" THEN "center" ELSE "localize"
<1>0. Shape
  BY DEF Base
<1>1. DOMAIN doc = Doc
  BY DEF SupereventDoc, Doc
<1>2. /\ failures' \in {failures, failures + 1}
      /\ archive' = archive \/ archive' = [archive EXCEPT !.superevents = docs]
      /\ failures' = failures => archive' = [archive EXCEPT !.superevents = docs]
  BY <1>0 DEF ArchiveSuperevent, Effect, Shape
<1>3. failures' \in Nat /\ (failures' = 0 => failures = 0 /\ failures' = failures)
  BY <1>0, <1>2 DEF Shape
<1>4. /\ pc' = [pc EXCEPT ![i] = next] /\ pc[i] = "archive"
      /\ UNCHANGED <<local, announced, redis, storage, topics, rewinds>>
  BY DEF ArchiveSuperevent, Goto
<1>. HIDE DEF doc
<1>5. \A k \in DOMAIN docs : DOMAIN docs[k] = Doc
  BY <1>0, <1>1 DEF Insert, Shape
<1>. HIDE DEF docs
<1>6. /\ DOMAIN archive' = DOMAIN archive
      /\ archive'.superevents \in {archive.superevents, docs}
      /\ failures' = 0 => failures = 0 /\ archive'.superevents = docs
  BY <1>0, <1>2, <1>3 DEF Shape
<1>7. pc' \in [Instance -> Label]
  BY <1>0, <1>4 DEF Shape, Label
<1>8. Shape'
  BY <1>0, <1>3, <1>4, <1>5, <1>6, <1>7 DEF Shape, local, topics
<1>9. \A j \in Instance \ {i} : Untouched(j)
  BY <1>0, <1>4 DEF Shape, Untouched, local
<1>. QED
  BY <1>0, <1>4, <1>6, <1>8, <1>9 DEF Moves, Shape, docs, doc, Done

\* Localize: at most one request is added, for the event of the update.
LEMMA LocalizeStep ==
  ASSUME Base, NEW i \in Instance, Localize(i)
  PROVE  LET u == update[i]
         IN  /\ Moves(i, IF Requested(u) THEN "record" ELSE "persist") /\ pc[i] = "localize"
             /\ \/ requests' = requests
                \/ /\ Requested(u)
                   /\ requests' = Insert(requests, u.id, Append(Queued(u.id), u.event))
             /\ failures' = 0 => failures = 0
             /\ UNCHANGED <<local, external, served, results, rewinds>>
<1> DEFINE u == update[i]
           more == Insert(requests, u.id, Append(Queued(u.id), u.event))
<1>0. Shape
  BY DEF Base
<1>1. /\ failures' \in {failures, failures + 1}
      /\ requests' = requests \/ (Requested(u) /\ requests' = more)
  BY DEF Localize, Effect
<1>2. failures' \in Nat /\ (failures' = 0 => failures = 0)
  BY <1>0, <1>1 DEF Shape
<1>3. /\ pc' = [pc EXCEPT ![i] = IF Requested(u) THEN "record" ELSE "persist"]
      /\ pc[i] = "localize"
      /\ UNCHANGED <<local, external, served, results, rewinds>>
  BY DEF Localize, Goto
<1>4. u.event \in Event /\ u.id \in Nat
  BY <1>3, UpdateTypes DEF OnEvent
<1>5. DOMAIN more \subseteq Nat /\ more \in [DOMAIN more -> Seq(Event)]
  BY <1>0, <1>4 DEF Insert, Queued, Shape
<1>. HIDE DEF more
<1>6. DOMAIN requests' \subseteq Nat /\ requests' \in [DOMAIN requests' -> Seq(Event)]
  BY <1>0, <1>1, <1>5 DEF Shape
<1>7. pc' \in [Instance -> Label]
  BY <1>0, <1>3 DEF Shape, Label
<1>8. Shape'
  BY <1>0, <1>2, <1>3, <1>6, <1>7 DEF Shape, local, external
<1>9. \A j \in Instance \ {i} : Untouched(j)
  BY <1>0, <1>3 DEF Shape, Untouched, local
<1>. QED
  BY <1>0, <1>1, <1>2, <1>3, <1>8, <1>9 DEF Moves, Shape, more

\* RecordRequest: nothing another step reads.
LEMMA RecordStep ==
  ASSUME Base, NEW i \in Instance, RecordRequest(i)
  PROVE  /\ Moves(i, "persist") /\ pc[i] = "record"
         /\ archive'.superevents = archive.superevents
         /\ failures' = 0 => failures = 0
         /\ UNCHANGED <<local, announced, redis, storage, topics, rewinds>>
<1> DEFINE req == {LocalizeRequest(update[i])}
<1>0. Shape
  BY DEF Base
<1>1. /\ failures' \in {failures, failures + 1}
      /\ \/ archive' = archive
         \/ archive' = [archive EXCEPT !.skips = @ \cup req]
         \/ archive' = [archive EXCEPT !.requests = @ \cup req]
  BY DEF RecordRequest, Effect
<1>2. failures' \in Nat /\ (failures' = 0 => failures = 0)
  BY <1>0, <1>1 DEF Shape
<1>3. DOMAIN archive' = DOMAIN archive /\ archive'.superevents = archive.superevents
  BY <1>0, <1>1 DEF Shape
<1>4. /\ pc' = [pc EXCEPT ![i] = "persist"] /\ pc[i] = "record"
      /\ UNCHANGED <<local, announced, redis, storage, topics, rewinds>>
  BY DEF RecordRequest, Goto
<1>5. pc' \in [Instance -> Label]
  BY <1>0, <1>4 DEF Shape, Label
<1>6. Shape'
  BY <1>0, <1>2, <1>3, <1>4, <1>5 DEF Shape, local, topics
<1>7. \A j \in Instance \ {i} : Untouched(j)
  BY <1>0, <1>4 DEF Shape, Untouched, local
<1>. QED
  BY <1>0, <1>2, <1>3, <1>4, <1>6, <1>7 DEF Moves, Shape

\* Persist: Redis holds the creator, or something failed.
LEMMA PersistStep ==
  ASSUME Base, NEW i \in Instance, Persist(i)
  PROVE  /\ pc[i] = "persist"
         /\ \/ Moves(i, "drain") /\ redis' = SaveToRedis(creator[i])
            \/ Moves(i, "idle") /\ redis' = redis
         /\ Done(pc'[i] = "drain" /\ redis' = SaveToRedis(creator[i]))
         /\ update'[i] = NoUpdate
         /\ UNCHANGED <<creator, inbox, taken, seen, starts>>
         /\ UNCHANGED <<announced, archive, storage, topics, rewinds>>
<1>0. Shape
  BY DEF Base
<1>1. /\ failures' \in {failures, failures + 1}
      /\ \/ pc' = [pc EXCEPT ![i] = "drain"] /\ redis' = SaveToRedis(creator[i])
         \/ pc' = [pc EXCEPT ![i] = "idle"] /\ redis' = redis
      /\ failures' = failures =>
           pc' = [pc EXCEPT ![i] = "drain"] /\ redis' = SaveToRedis(creator[i])
  BY <1>0 DEF Persist, Effect, Goto, Shape
<1>2. failures' \in Nat /\ (failures' = 0 => failures = 0 /\ failures' = failures)
  BY <1>0, <1>1 DEF Shape
<1>3. /\ pc[i] = "persist"
      /\ update' = [update EXCEPT ![i] = NoUpdate]
      /\ UNCHANGED <<creator, inbox, taken, seen, stopping, starts>>
      /\ UNCHANGED <<announced, archive, storage, topics, rewinds>>
  BY DEF Persist
<1>4. pc' \in [Instance -> Label] /\ DOMAIN update' = Instance
  BY <1>0, <1>1, <1>3 DEF Shape, Label
<1>5. Shape'
  BY <1>0, <1>2, <1>3, <1>4 DEF Shape, topics
<1>6. \A j \in Instance \ {i} : Untouched(j)
  BY <1>0, <1>1, <1>3 DEF Shape, Untouched
<1>. QED
  BY <1>0, <1>1, <1>2, <1>3, <1>5, <1>6 DEF Moves, Shape, Done

\* Drain and ReceiveResult: the next results of the topic are taken.
LEMMA TakeStep ==
  ASSUME Base, NEW i \in Instance, Drain(i) \/ ReceiveResult(i)
  PROVE  /\ Shape' /\ \A j \in Instance \ {i} : Untouched(j)
         /\ pc[i] \in {"drain", "quiet"} /\ pc'[i] \in {"idle", "result"}
         /\ pc[i] = "quiet" => pc'[i] = "result"
         /\ \E n \in seen[i] .. Len(results) :
              /\ seen'[i] = n /\ Len(taken'[i]) = n - seen[i]
              /\ \A k \in 1 .. n - seen[i] : taken'[i][k] = results[seen[i] + k]
              /\ pc'[i] = "idle" => taken'[i] = <<>>
         /\ UNCHANGED <<creator, inbox, update, starts>>
         /\ UNCHANGED <<external, topics, failures, rewinds>>
<1>0. Shape /\ seen[i] \in Nat /\ Len(results) \in Nat
  BY DEF Base, Shape
<1>1. PICK n \in seen[i] .. Len(results), some \in Seq(LocalizeResult) :
        /\ taken' = [taken EXCEPT ![i] = some]
        /\ seen' = [seen EXCEPT ![i] = n]
        /\ Len(some) = n - seen[i]
        /\ \A k \in 1 .. n - seen[i] : some[k] = results[seen[i] + k]
        /\ \/ /\ pc[i] = "drain"
              /\ pc' = [pc EXCEPT ![i] = IF n = seen[i] THEN "idle" ELSE "result"]
           \/ pc[i] = "quiet" /\ pc' = [pc EXCEPT ![i] = "result"]
  <2>1. CASE Drain(i)
    <3>1. PICK n \in seen[i] .. Len(results) :
            /\ taken' = [taken EXCEPT ![i] = SubSeq(results, seen[i] + 1, n)]
            /\ seen' = [seen EXCEPT ![i] = n]
            /\ pc[i] = "drain"
            /\ pc' = [pc EXCEPT ![i] = IF n = seen[i] THEN "idle" ELSE "result"]
      BY <2>1 DEF Drain, Goto
    <3> DEFINE some == SubSeq(results, seen[i] + 1, n)
    <3>2. \A k \in seen[i] + 1 .. n : results[k] \in LocalizeResult
      BY <1>0 DEF Shape
    <3>3. seen[i] + 1 \in Int /\ n \in Int
      BY <1>0
    <3>4. /\ some \in Seq(LocalizeResult)
          /\ Len(some) = IF seen[i] + 1 <= n THEN n - (seen[i] + 1) + 1 ELSE 0
          /\ \A k \in 1 .. n - (seen[i] + 1) + 1 : some[k] = results[seen[i] + 1 + k - 1]
      BY <3>2, <3>3, SubSeqProperties
    <3>. HIDE DEF some
    <3>5. /\ Len(some) = n - seen[i]
          /\ \A k \in 1 .. n - seen[i] : some[k] = results[seen[i] + k]
      <4>1. n - (seen[i] + 1) + 1 = n - seen[i]
        BY <1>0
      <4>2. \A k \in 1 .. n - seen[i] : some[k] = results[seen[i] + 1 + k - 1]
        BY <3>4, <4>1
      <4>3. \A k \in 1 .. n - seen[i] : seen[i] + 1 + k - 1 = seen[i] + k
        BY <1>0
      <4>4. Len(some) = n - seen[i]
        BY <1>0, <3>4
      <4>. QED
        BY <4>2, <4>3, <4>4
    <3>. QED
      BY <3>1, <3>4, <3>5 DEF some
  <2>2. CASE ReceiveResult(i)
    <3> DEFINE some == <<results[seen[i] + 1]>>
    <3>1. /\ taken' = [taken EXCEPT ![i] = some]
          /\ seen' = [seen EXCEPT ![i] = @ + 1]
          /\ seen[i] < Len(results)
          /\ pc[i] = "quiet" /\ pc' = [pc EXCEPT ![i] = "result"]
      BY <2>2 DEF ReceiveResult, Goto
    <3>2. seen[i] + 1 \in 1 .. Len(results) /\ seen[i] + 1 \in seen[i] .. Len(results)
      BY <1>0, <3>1
    <3>3. some \in Seq(LocalizeResult) /\ Len(some) = 1 /\ some[1] = results[seen[i] + 1]
      BY <1>0, <3>2 DEF Shape
    <3>. HIDE DEF some
    <3>4. /\ Len(some) = (seen[i] + 1) - seen[i]
          /\ \A k \in 1 .. (seen[i] + 1) - seen[i] : some[k] = results[seen[i] + k]
      BY <1>0, <3>3
    <3>5. seen' = [seen EXCEPT ![i] = seen[i] + 1]
      BY <3>1
    <3>. QED
      BY <3>1, <3>2, <3>3, <3>4, <3>5
  <2>. QED
    BY <2>1, <2>2
<1>3. n = seen[i] => some = <<>>
  BY <1>0, <1>1
<1>4. /\ UNCHANGED <<creator, inbox, update, stopping, starts>>
      /\ UNCHANGED <<external, topics, failures, rewinds>>
  BY DEF Drain, ReceiveResult
<1>6. /\ pc[i] \in {"drain", "quiet"} /\ pc'[i] \in {"idle", "result"}
      /\ pc[i] = "quiet" => pc'[i] = "result"
      /\ pc'[i] = "idle" => n = seen[i]
      /\ pc' \in [Instance -> Label]
      /\ \A j \in Instance \ {i} : pc'[j] = pc[j]
  BY <1>0, <1>1 DEF Shape, Label
<1>7. /\ taken'[i] = some /\ seen'[i] = n
      /\ taken' \in [Instance -> Seq(LocalizeResult)] /\ seen' \in [Instance -> Nat]
  BY <1>0, <1>1 DEF Shape
<1>8. Shape'
  BY <1>0, <1>4, <1>6, <1>7 DEF Shape, external, topics
<1>9. \A j \in Instance \ {i} : Untouched(j)
  BY <1>0, <1>1, <1>4, <1>6 DEF Shape, Untouched
<1>. QED
  BY <1>1, <1>3, <1>4, <1>6, <1>7, <1>8, <1>9

\* ApplyResult: the next result taken is attached, or it comes to nothing.
LEMMA ApplyStep ==
  ASSUME Base, NEW i \in Instance, ApplyResult(i)
  PROVE  LET r == taken[i][1]
         IN  /\ Shape' /\ \A j \in Instance \ {i} : Untouched(j)
             /\ pc[i] = "result" /\ taken[i] # <<>>
             /\ r \in LocalizeResult /\ taken'[i] = Tail(taken[i])
             /\ \/ /\ Attaches(i, r) /\ pc'[i] = "emit"
                   /\ creator'[i] = AttachSkymap(creator[i], r.superevent_id, r.event)
                   /\ update'[i] = [action |-> "skymap_attached", id |-> r.superevent_id]
                \/ pc'[i] = "result" /\ UNCHANGED <<creator, update>>
             /\ inbox'[i] = inbox[i] /\ seen'[i] = seen[i] /\ starts'[i] = starts[i]
             /\ archive'.superevents = archive.superevents
             /\ failures' = 0 => failures = 0
             /\ UNCHANGED <<announced, redis, storage, topics, rewinds>>
<1> DEFINE r == taken[i][1]
<1>0. Shape /\ taken[i] \in Seq(LocalizeResult)
  BY DEF Base, Shape
<1>1. pc[i] = "result" /\ taken[i] # <<>> /\ Head(taken[i]) = r
  BY <1>0 DEF ApplyResult
<1>2. r \in LocalizeResult /\ Tail(taken[i]) \in Seq(LocalizeResult)
  BY <1>0, <1>1
<1>3. /\ failures' \in {failures, failures + 1}
      /\ \/ archive' = archive
         \/ \E x : archive' = [archive EXCEPT !.results = x]
  BY <1>1 DEF ApplyResult, Effect
<1>4. DOMAIN archive' = DOMAIN archive /\ archive'.superevents = archive.superevents
  BY <1>0, <1>3 DEF Shape
<1>5. failures' \in Nat /\ (failures' = 0 => failures = 0)
  BY <1>0, <1>3 DEF Shape
<1>6. /\ taken' = [taken EXCEPT ![i] = Tail(@)]
      /\ UNCHANGED <<inbox, seen, stopping, starts>>
      /\ UNCHANGED <<announced, redis, storage, topics, rewinds>>
  BY DEF ApplyResult
<1>7. \/ /\ Attaches(i, r) /\ pc' = [pc EXCEPT ![i] = "emit"]
         /\ creator' = [creator EXCEPT ![i] = AttachSkymap(@, r.superevent_id, r.event)]
         /\ update' = [update EXCEPT ![i] =
                         [action |-> "skymap_attached", id |-> r.superevent_id]]
      \/ UNCHANGED <<creator, update, pc>>
  BY <1>1 DEF ApplyResult, Goto
<1>. HIDE DEF r
<1>8. /\ pc' \in [Instance -> Label] /\ DOMAIN creator' = Instance
      /\ DOMAIN update' = Instance
  BY <1>0, <1>7 DEF Shape, Label
<1>9. taken' \in [Instance -> Seq(LocalizeResult)]
  BY <1>0, <1>2, <1>6 DEF Shape
<1>10. Shape'
  BY <1>0, <1>4, <1>5, <1>6, <1>8, <1>9 DEF Shape, topics
<1>11. \A j \in Instance \ {i} : Untouched(j)
  BY <1>0, <1>6, <1>7 DEF Shape, Untouched
<1>12. \/ /\ Attaches(i, r) /\ pc'[i] = "emit"
          /\ creator'[i] = AttachSkymap(creator[i], r.superevent_id, r.event)
          /\ update'[i] = [action |-> "skymap_attached", id |-> r.superevent_id]
       \/ pc'[i] = "result" /\ UNCHANGED <<creator, update>>
  BY <1>0, <1>1, <1>7 DEF Shape
<1>13. taken'[i] = Tail(taken[i])
  BY <1>0, <1>6 DEF Shape
<1>. QED
  BY <1>1, <1>2, <1>4, <1>5, <1>6, <1>10, <1>11, <1>12, <1>13 DEF r

\* PatchCenter: only the summary of one document changes, to have a center.
LEMMA CenterStep ==
  ASSUME Base, NEW i \in Instance, PatchCenter(i)
  PROVE  LET docs == archive.superevents
             docs2 == archive'.superevents
         IN  /\ Moves(i, "blob") /\ pc[i] = "center"
             /\ DOMAIN docs2 = DOMAIN docs
             /\ \A id \in DOMAIN docs :
                  /\ docs2[id].t_0 = docs[id].t_0
                  /\ docs2[id].g_events = docs[id].g_events
                  /\ docs2[id].preferred = docs[id].preferred
                  /\ ("size" \in docs2[id].summary) <=> ("size" \in docs[id].summary)
             /\ failures' = 0 => failures = 0
             /\ UNCHANGED <<local, announced, redis, storage, topics, rewinds>>
<1> DEFINE id == update[i].id
           docs == archive.superevents
           docs2 == archive'.superevents
<1>0. Shape
  BY DEF Base
<1>1. /\ failures' \in {failures, failures + 1}
      /\ \/ archive' = archive
         \/ /\ id \in DOMAIN docs
            /\ archive' = [archive EXCEPT !.superevents[id].summary = @ \cup {"center"}]
  BY DEF PatchCenter, Effect
<1>2. failures' \in Nat /\ (failures' = 0 => failures = 0)
  BY <1>0, <1>1 DEF Shape
<1>3. DOMAIN archive' = DOMAIN archive
  BY <1>0, <1>1 DEF Shape
<1>4. \/ docs2 = docs
      \/ /\ id \in DOMAIN docs
         /\ docs2 = [docs EXCEPT ![id] = [docs[id] EXCEPT !.summary = @ \cup {"center"}]]
  BY <1>0, <1>1 DEF Shape
<1>5. /\ DOMAIN docs2 = DOMAIN docs
      /\ \A k \in DOMAIN docs : DOMAIN docs[k] = Doc
  BY <1>0, <1>4 DEF Shape
<1>6. \A k \in DOMAIN docs : docs2[k] = docs[k]
                          \/ docs2[k] = [docs[k] EXCEPT !.summary = @ \cup {"center"}]
  BY <1>4
<1>7. \A k \in DOMAIN docs :
        /\ DOMAIN docs2[k] = Doc
        /\ docs2[k].t_0 = docs[k].t_0
        /\ docs2[k].g_events = docs[k].g_events
        /\ docs2[k].preferred = docs[k].preferred
        /\ ("size" \in docs2[k].summary) <=> ("size" \in docs[k].summary)
  <2> SUFFICES ASSUME NEW k \in DOMAIN docs
               PROVE  /\ DOMAIN docs2[k] = Doc
                      /\ docs2[k].t_0 = docs[k].t_0
                      /\ docs2[k].g_events = docs[k].g_events
                      /\ docs2[k].preferred = docs[k].preferred
                      /\ ("size" \in docs2[k].summary) <=> ("size" \in docs[k].summary)
    OBVIOUS
  <2>1. CASE docs2[k] = docs[k]
    BY <1>5, <2>1
  <2>2. CASE docs2[k] = [docs[k] EXCEPT !.summary = @ \cup {"center"}]
    <3>1. DOMAIN docs[k] = {"t_0", "preferred", "g_events", "summary"}
      BY <1>5 DEF Doc
    <3> DEFINE a == docs[k]
               b == docs2[k]
    <3>2. b = [a EXCEPT !.summary = @ \cup {"center"}]
      BY <2>2
    <3>. HIDE DEF a, b
    <3>3. /\ DOMAIN b = Doc /\ b.t_0 = a.t_0 /\ b.g_events = a.g_events
          /\ b.preferred = a.preferred
          /\ b.summary = a.summary \cup {"center"}
      BY <3>1, <3>2 DEF a, Doc
    <3>. QED
      BY <3>3 DEF a, b
  <2>. QED
    BY <1>6, <2>1, <2>2
<1>8. /\ pc' = [pc EXCEPT ![i] = "blob"] /\ pc[i] = "center"
      /\ UNCHANGED <<local, announced, redis, storage, topics, rewinds>>
  BY DEF PatchCenter, Goto
<1>. HIDE DEF docs, docs2
<1>9. \A k \in DOMAIN docs2 : DOMAIN docs2[k] = Doc
  BY <1>5, <1>7
<1>10. pc' \in [Instance -> Label]
  BY <1>0, <1>8 DEF Shape, Label
<1>11. Shape'
  BY <1>0, <1>2, <1>3, <1>8, <1>9, <1>10 DEF Shape, local, topics, docs2
<1>12. \A j \in Instance \ {i} : Untouched(j)
  BY <1>0, <1>8 DEF Shape, Untouched, local
<1>. QED
  BY <1>0, <1>2, <1>5, <1>7, <1>8, <1>11, <1>12 DEF Moves, Shape, docs, docs2

\* StoreFits: the FITS of the open superevent is stored.
LEMMA FitsStep ==
  ASSUME Base, NEW i \in Instance, StoreFits(i)
  PROVE  LET id == update[i].id
             stored == Insert(storage, id, [Stored(id) EXCEPT !.fits = Held(i, id).skymap])
         IN  /\ Moves(i, "contours") /\ pc[i] = "blob"
             /\ storage' \in {storage, stored}
             /\ Done(storage' = stored)
             /\ DOMAIN Stored(id) = {"fits", "contours"}
             /\ UNCHANGED <<local, announced, redis, archive, topics, rewinds>>
<1> DEFINE id == update[i].id
           blob == [Stored(id) EXCEPT !.fits = Held(i, id).skymap]
           stored == Insert(storage, id, blob)
<1>0. Shape
  BY DEF Base
<1>1. /\ failures' \in {failures, failures + 1}
      /\ storage' \in {storage, stored}
      /\ failures' = failures => storage' = stored
  BY <1>0 DEF StoreFits, Effect, Shape
<1>2. failures' \in Nat /\ (failures' = 0 => failures = 0 /\ failures' = failures)
  BY <1>0, <1>1 DEF Shape
<1>3. DOMAIN Stored(id) = {"fits", "contours"} /\ DOMAIN blob = {"fits", "contours"}
  BY <1>0 DEF Shape, Stored
<1>. HIDE DEF blob
<1>4. \A k \in DOMAIN stored : DOMAIN stored[k] = {"fits", "contours"}
  BY <1>0, <1>3 DEF Insert, Shape
<1>. HIDE DEF stored
<1>5. /\ pc' = [pc EXCEPT ![i] = "contours"] /\ pc[i] = "blob"
      /\ UNCHANGED <<local, announced, redis, archive, topics, rewinds>>
  BY DEF StoreFits, Goto
<1>6. pc' \in [Instance -> Label]
  BY <1>0, <1>5 DEF Shape, Label
<1>7. Shape'
  BY <1>0, <1>1, <1>2, <1>4, <1>5, <1>6 DEF Shape, local, topics
<1>8. \A j \in Instance \ {i} : Untouched(j)
  BY <1>0, <1>5 DEF Shape, Untouched, local
<1>. QED
  BY <1>0, <1>1, <1>2, <1>3, <1>5, <1>7, <1>8 DEF Moves, Shape, stored, blob, Done

\* StoreContours: the contours of the open superevent's sky map are stored.
LEMMA ContoursStep ==
  ASSUME Base, NEW i \in Instance, StoreContours(i)
  PROVE  LET id == update[i].id
             stored == Insert(storage, id, [Stored(id) EXCEPT !.contours = Held(i, id).skymap])
         IN  /\ Moves(i, "result") /\ pc[i] = "contours"
             /\ storage' \in {storage, stored}
             /\ Done(storage' = stored)
             /\ DOMAIN Stored(id) = {"fits", "contours"}
             /\ update'[i] = NoUpdate
             /\ UNCHANGED <<creator, inbox, taken, seen, starts>>
             /\ UNCHANGED <<announced, redis, archive, topics, rewinds>>
<1> DEFINE id == update[i].id
           blob == [Stored(id) EXCEPT !.contours = Held(i, id).skymap]
           stored == Insert(storage, id, blob)
<1>0. Shape
  BY DEF Base
<1>1. /\ failures' \in {failures, failures + 1}
      /\ storage' \in {storage, stored}
      /\ failures' = failures => storage' = stored
  BY <1>0 DEF StoreContours, Effect, Shape
<1>2. failures' \in Nat /\ (failures' = 0 => failures = 0 /\ failures' = failures)
  BY <1>0, <1>1 DEF Shape
<1>3. DOMAIN Stored(id) = {"fits", "contours"} /\ DOMAIN blob = {"fits", "contours"}
  BY <1>0 DEF Shape, Stored
<1>. HIDE DEF blob
<1>4. \A k \in DOMAIN stored : DOMAIN stored[k] = {"fits", "contours"}
  BY <1>0, <1>3 DEF Insert, Shape
<1>. HIDE DEF stored
<1>5. /\ pc' = [pc EXCEPT ![i] = "result"] /\ pc[i] = "contours"
      /\ update' = [update EXCEPT ![i] = NoUpdate]
      /\ UNCHANGED <<creator, inbox, taken, seen, stopping, starts>>
      /\ UNCHANGED <<announced, redis, archive, topics, rewinds>>
  BY DEF StoreContours, Goto
<1>6. pc' \in [Instance -> Label] /\ DOMAIN update' = Instance
  BY <1>0, <1>5 DEF Shape, Label
<1>7. Shape'
  BY <1>0, <1>1, <1>2, <1>4, <1>5, <1>6 DEF Shape, topics
<1>8. \A j \in Instance \ {i} : Untouched(j)
  BY <1>0, <1>5 DEF Shape, Untouched
<1>. QED
  BY <1>0, <1>1, <1>2, <1>3, <1>5, <1>7, <1>8 DEF Moves, Shape, stored, blob, Done

\* PersistMaps: Redis holds the creator, or something failed.
LEMMA PersistMapsStep ==
  ASSUME Base, NEW i \in Instance, PersistMaps(i)
  PROVE  /\ Shape' /\ \A j \in Instance \ {i} : Untouched(j)
         /\ pc[i] = "result" /\ taken[i] = <<>> /\ taken' = taken /\ seen' = seen
         /\ pc'[i] \in {"idle", "quiet", "down"} /\ starts' = starts /\ update' = update
         /\ redis' \in {redis, SaveToRedis(creator[i])}
         /\ Done(redis' = SaveToRedis(creator[i]) /\ pc'[i] # "down")
         /\ \/ UNCHANGED local
            \/ pc'[i] = "down" /\ creator'[i] = EmptyCreator /\ inbox'[i] = {}
         /\ pc'[i] = "down" => creator'[i] = EmptyCreator /\ inbox'[i] = {} /\ redis' = redis
         /\ UNCHANGED <<announced, archive, storage, topics, rewinds>>
<1>0. Shape
  BY DEF Base
<1>1. /\ pc[i] = "result" /\ taken[i] = <<>>
      /\ UNCHANGED <<announced, archive, storage, topics, rewinds>>
  BY DEF PersistMaps
<1>2. \/ /\ redis' = SaveToRedis(creator[i]) /\ failures' = failures
         /\ pc' = [pc EXCEPT ![i] = "quiet"] \/ pc' = [pc EXCEPT ![i] = "idle"]
         /\ UNCHANGED local
      \/ /\ redis' = redis /\ failures' = failures + 1
         /\ pc' = [pc EXCEPT ![i] = "idle"] /\ UNCHANGED local
      \/ /\ redis' = redis /\ failures' = failures + 1
         /\ pc' = [pc EXCEPT ![i] = "down"]
         /\ creator' = [creator EXCEPT ![i] = EmptyCreator]
         /\ inbox' = [inbox EXCEPT ![i] = {}]
         /\ stopping' = [stopping EXCEPT ![i] = FALSE]
         /\ UNCHANGED <<update, taken, seen, starts>>
  BY DEF PersistMaps, Goto
<1>3. /\ pc' \in [Instance -> Label] /\ DOMAIN creator' = Instance
      /\ DOMAIN stopping' = Instance /\ inbox' \in [Instance -> SUBSET Event]
      /\ UNCHANGED <<update, taken, seen, starts>>
  BY <1>0, <1>2 DEF Shape, Label, local
<1>4. failures' \in Nat
  BY <1>0, <1>2 DEF Shape
<1>5. Shape'
  BY <1>0, <1>1, <1>3, <1>4 DEF Shape, topics
<1>6. \A j \in Instance \ {i} : Untouched(j)
  BY <1>0, <1>2 DEF Shape, Untouched, local
<1>7. Done(redis' = SaveToRedis(creator[i]) /\ pc'[i] # "down")
  BY <1>0, <1>2 DEF Shape, Done
<1>8. /\ pc'[i] \in {"idle", "quiet", "down"}
      /\ redis' \in {redis, SaveToRedis(creator[i])}
      /\ \/ UNCHANGED local
         \/ pc'[i] = "down" /\ creator'[i] = EmptyCreator /\ inbox'[i] = {}
      /\ pc'[i] = "down" => creator'[i] = EmptyCreator /\ inbox'[i] = {} /\ redis' = redis
  BY <1>0, <1>2 DEF Shape
<1>. QED
  BY <1>1, <1>3, <1>5, <1>6, <1>7, <1>8

\* Serve: one more result, of the next request of that key.
LEMMA ServeStep ==
  ASSUME Base, NEW id \in DOMAIN requests, Serve(id)
  PROVE  /\ Shape' /\ Consumed(id) \in Nat /\ Consumed(id) < Len(requests[id])
         /\ served' = Insert(served, id, Consumed(id) + 1)
         /\ \E ok \in BOOLEAN :
              results' = Append(results, [ superevent_id |-> id, ok |-> ok,
                                           event |-> requests[id][Consumed(id) + 1] ])
         /\ failures' = 0 => failures = 0
         /\ UNCHANGED <<pc, local, external, requests, rewinds>>
<1> DEFINE answer(ok) == [ superevent_id |-> id, ok |-> ok,
                           event |-> requests[id][Consumed(id) + 1] ]
<1>0. Shape
  BY DEF Base
<1>1. /\ Consumed(id) < Len(requests[id])
      /\ served' = Insert(served, id, Consumed(id) + 1)
      /\ UNCHANGED <<pc, local, external, requests, rewinds>>
  BY DEF Serve
<1>2. PICK ok \in BOOLEAN : results' = Append(results, answer(ok))
  BY DEF Serve, Effect
<1>3. failures' \in {failures, failures + 1}
  BY DEF Serve, Effect
<1>4. failures' \in Nat /\ (failures' = 0 => failures = 0)
  BY <1>0, <1>3 DEF Shape
<1>5. Consumed(id) \in Nat
  BY <1>0 DEF Consumed, Shape
<1>6. requests[id][Consumed(id) + 1] \in Event /\ id \in Nat
  <2>1. requests[id] \in Seq(Event) /\ id \in Nat
    BY <1>0 DEF Shape
  <2>2. Consumed(id) + 1 \in 1 .. Len(requests[id])
    BY <1>1, <1>5, <2>1
  <2>. QED
    BY <2>1, <2>2
<1>7. answer(ok) \in LocalizeResult
  BY <1>6 DEF LocalizeResult
<1>. HIDE DEF answer
<1>8. results' \in Seq(LocalizeResult)
  BY <1>0, <1>2, <1>7 DEF Shape
<1>9. served' \in [DOMAIN served' -> Nat]
  BY <1>0, <1>1, <1>5 DEF Shape, Insert
<1>10. Shape'
  BY <1>0, <1>1, <1>4, <1>8, <1>9 DEF Shape, local, external
<1>. QED
  BY <1>1, <1>2, <1>4, <1>5, <1>10 DEF answer

\* ServiceRestart: a position changes, and it counts as a rewind.
LEMMA RestartStep ==
  ASSUME Base, NEW id \in DOMAIN requests, ServiceRestart(id)
  PROVE  /\ Shape' /\ rewinds' # 0
         /\ UNCHANGED <<pc, local, external, requests, results, failures>>
<1>0. Shape
  BY DEF Base
<1>1. /\ rewinds' = rewinds + 1
      /\ UNCHANGED <<pc, local, external, requests, results, failures>>
      /\ \E n \in 0 .. Consumed(id) + 1 : served' = Insert(served, id, n)
  BY DEF ServiceRestart
<1>2. served' \in [DOMAIN served' -> Nat]
  BY <1>0, <1>1 DEF Shape, Insert
<1>3. rewinds' \in Nat /\ rewinds' # 0
  BY <1>0, <1>1 DEF Shape
<1>4. Shape'
  BY <1>0, <1>1, <1>2, <1>3 DEF Shape, local, external
<1>. QED
  BY <1>1, <1>3, <1>4

-------------------------------------------------------------------------------
(* The invariant that holds however many instances there are. *)

\* A step of instance i has to establish what concerns i only.
LEMMA BaseFromOne ==
  ASSUME Base, NEW i \in Instance, Shape', \A j \in Instance \ {i} : Untouched(j),
         GoodCreator(creator'[i]), results' = results,
         redis' \in {redis, SaveToRedis(creator[i])},
         UpdateOK(i)', TakenOK(i)'
  PROVE  Base'
<1>1. \A j \in Instance : GoodCreator(creator'[j])
  BY DEF Base, Windows, Untouched
<1>2. \E c : GoodCreator(c) /\ redis' = SaveToRedis(c)
  BY DEF Base, Windows
<1>3. ASSUME NEW j \in Instance \ {i} PROVE UpdateOK(j)'
  <2>1. UpdateOK(j) /\ Untouched(j)
    BY DEF Base, Updates
  <2>. QED
    BY <2>1 DEF UpdateOK, Untouched, OnEvent, OnMap, OpenAt
<1>4. ASSUME NEW j \in Instance \ {i} PROVE TakenOK(j)'
  <2>1. TakenOK(j) /\ Untouched(j)
    BY DEF Base, Taken
  <2>. QED
    BY <2>1 DEF TakenOK, Untouched, OnMap
<1>. QED
  BY <1>1, <1>2, <1>3, <1>4 DEF Base, Windows, Updates, Taken

\* What Redis holds rebuilds a well-formed creator.
LEMMA RestoredIsGood ==
  ASSUME Base
  PROVE  GoodCreator(LoadFromRedis(redis))
BY LoadAfterSave DEF Base, Windows

\* An outside effect leaves the update and the results taken as they are.
LEMMA EffectKeeps ==
  ASSUME Base, NEW i \in Instance, UNCHANGED <<local, results>>,
         OnEvent(i)' => OnEvent(i), OnMap(i)' <=> OnMap(i),
         pc[i] # "result"
  PROVE  UpdateOK(i)' /\ TakenOK(i)'
<1>1. UpdateOK(i) /\ TakenOK(i)
  BY DEF Base, Updates, Taken
<1>2. UpdateOK(i)'
  BY <1>1 DEF UpdateOK, OpenAt, local
<1>3. TakenOK(i)'
  BY <1>1 DEF TakenOK, local
<1>. QED
  BY <1>2, <1>3

\* The invariant, step by step.
LEMMA BaseKept == Base /\ [Next]_vars => Base'
<1> SUFFICES ASSUME Base, [Next]_vars PROVE Base'
  OBVIOUS
<1>0. /\ \A i \in Instance : /\ GoodCreator(creator[i]) /\ UpdateOK(i) /\ TakenOK(i)
                            /\ seen[i] \in Nat
      /\ Shape /\ Len(results) \in Nat
  BY DEF Base, Windows, Updates, Taken, Shape
<1>1. ASSUME NEW i \in Instance, Start(i) PROVE Base'
  <2>1. UpdateOK(i)'
    BY <1>1, StartStep DEF Moves, UpdateOK, OnEvent, OnMap
  <2>2. TakenOK(i)'
    <3>1. taken[i] = <<>>
      BY <1>0, <1>1, StartStep DEF TakenOK, OnMap
    <3>2. /\ taken'[i] = <<>> /\ seen'[i] <= Len(results) /\ results' = results
          /\ seen'[i] \in Nat
      BY <1>1, <3>1, StartStep DEF topics, Moves, Shape
    <3>. QED
      BY <3>2 DEF TakenOK
  <2>3. GoodCreator(creator'[i])
    BY <1>1, StartStep, RestoredIsGood, EmptyIsGood
  <2>. QED
    BY <1>1, <2>1, <2>2, <2>3, StartStep, BaseFromOne DEF Moves, external, topics
<1>2. ASSUME NEW i \in Instance, Lose(i) PROVE Base'
  <2>1. UpdateOK(i)' /\ TakenOK(i)'
    BY <1>0, <1>2, LoseStep DEF Moves, UpdateOK, TakenOK, OnEvent, OnMap, topics
  <2>. QED
    BY <1>2, <2>1, LoseStep, BaseFromOne, EmptyIsGood DEF Moves, external, topics
<1>3. ASSUME NEW i \in Instance, Stop(i) PROVE Base'
  <2>1. UpdateOK(i)' /\ TakenOK(i)'
    BY <1>0, <1>3, StopStep DEF Moves, UpdateOK, TakenOK, OnEvent, OnMap, topics
  <2>. QED
    BY <1>0, <1>3, <2>1, StopStep, BaseFromOne DEF Moves, external, topics
<1>4. ASSUME NEW i \in Instance, NEW e \in Event, HandleEvent(i, e) PROVE Base'
  <2> DEFINE c == creator[i]
             u == Update(c, e)
             d == Process(c, e)
  <2>1. PICK h \in DOMAIN d.superevents :
          /\ d.times[h] = u.id /\ u.event = e
          /\ u.action \in {"created", "preferred_updated", "skipped"}
          /\ u.action # "skipped" => d.superevents[h].preferred_event = e
    BY <1>0, ProcessStep
  <2>. HIDE DEF u, d
  <2>2. creator'[i] = d /\ update'[i] = u /\ pc'[i] = "emit"
    BY <1>4, HandleStep DEF Moves, u, d
  <2>3. UpdateOK(i)'
    BY <2>1, <2>2 DEF UpdateOK, OnEvent, OnMap, OpenAt, Requested
  <2>4. TakenOK(i)'
    BY <1>0, <1>4, HandleStep DEF Moves, TakenOK, OnMap, topics
  <2>5. GoodCreator(creator'[i])
    BY <1>0, <2>2, ProcessKeepsGood DEF d
  <2>. QED
    BY <1>4, <2>3, <2>4, <2>5, HandleStep, BaseFromOne DEF Moves, topics
<1>5. ASSUME NEW i \in Instance, Emit(i) PROVE Base'
  <2>1. UpdateOK(i)' /\ TakenOK(i)'
    BY <1>5, EmitStep, EffectKeeps DEF Moves, OnEvent, OnMap, local, topics
  <2>. QED
    BY <1>0, <1>5, <2>1, EmitStep, BaseFromOne DEF Moves, local, topics
<1>6. ASSUME NEW i \in Instance, ArchiveSuperevent(i) PROVE Base'
  <2>1. UpdateOK(i)' /\ TakenOK(i)'
    BY <1>6, ArchiveStep, EffectKeeps DEF Moves, OnEvent, OnMap, local, topics
  <2>. QED
    BY <1>0, <1>6, <2>1, ArchiveStep, BaseFromOne DEF Moves, local, topics
<1>7. ASSUME NEW i \in Instance, Localize(i) PROVE Base'
  <2>1. UpdateOK(i)' /\ TakenOK(i)'
    BY <1>7, LocalizeStep, EffectKeeps DEF Moves, OnEvent, OnMap, local, topics
  <2>. QED
    BY <1>0, <1>7, <2>1, LocalizeStep, BaseFromOne DEF Moves, local, external
<1>8. ASSUME NEW i \in Instance, RecordRequest(i) PROVE Base'
  <2>1. UpdateOK(i)' /\ TakenOK(i)'
    BY <1>8, RecordStep, EffectKeeps DEF Moves, OnEvent, OnMap, local, topics
  <2>. QED
    BY <1>0, <1>8, <2>1, RecordStep, BaseFromOne DEF Moves, local, topics
<1>9. ASSUME NEW i \in Instance, Persist(i) PROVE Base'
  <2>1. UpdateOK(i)' /\ TakenOK(i)'
    BY <1>0, <1>9, PersistStep DEF Moves, UpdateOK, TakenOK, OnEvent, OnMap, topics
  <2>. QED
    BY <1>0, <1>9, <2>1, PersistStep, BaseFromOne DEF Moves, topics
<1>10. ASSUME NEW i \in Instance, Drain(i) \/ ReceiveResult(i) PROVE Base'
  <2>1. UpdateOK(i)'
    BY <1>10, TakeStep DEF UpdateOK, OnEvent, OnMap
  <2>2. TakenOK(i)'
    <3>1. PICK n \in seen[i] .. Len(results) :
            /\ seen'[i] = n /\ Len(taken'[i]) = n - seen[i]
            /\ \A k \in 1 .. n - seen[i] : taken'[i][k] = results[seen[i] + k]
            /\ pc'[i] = "idle" => taken'[i] = <<>>
      BY <1>10, TakeStep
    <3>2. pc'[i] \in {"idle", "result"} /\ results' = results
      BY <1>10, TakeStep DEF topics
    <3>3. n - Len(taken'[i]) = seen[i] /\ Len(taken'[i]) <= n /\ n <= Len(results)
      BY <1>0, <3>1
    <3>. QED
      BY <3>1, <3>2, <3>3 DEF TakenOK
  <2>. QED
    BY <1>0, <1>10, <2>1, <2>2, TakeStep, BaseFromOne DEF external, topics
<1>11. ASSUME NEW i \in Instance, ApplyResult(i) PROVE Base'
  <2> DEFINE r == taken[i][1]
  <2>1. /\ Shape' /\ \A j \in Instance \ {i} : Untouched(j)
        /\ pc[i] = "result" /\ taken[i] # <<>>
        /\ r \in LocalizeResult /\ taken'[i] = Tail(taken[i])
        /\ \/ /\ Attaches(i, r) /\ pc'[i] = "emit"
              /\ creator'[i] = AttachSkymap(creator[i], r.superevent_id, r.event)
              /\ update'[i] = [action |-> "skymap_attached", id |-> r.superevent_id]
           \/ pc'[i] = "result" /\ UNCHANGED <<creator, update>>
        /\ seen'[i] = seen[i] /\ results' = results /\ redis' = redis
    BY <1>11, ApplyStep DEF topics
  <2>. HIDE DEF r
  <2>2. /\ GoodCreator(creator'[i])
        /\ Attaches(i, r) /\ pc'[i] = "emit" =>
             \E t \in DOMAIN creator'[i].superevents : creator'[i].times[t] = r.superevent_id
    <3>1. CASE pc'[i] = "result" /\ UNCHANGED <<creator, update>>
      BY <1>0, <3>1
    <3>2. CASE /\ Attaches(i, r) /\ pc'[i] = "emit"
               /\ creator'[i] = AttachSkymap(creator[i], r.superevent_id, r.event)
      <4>1. r.event \in Event
        BY <2>1 DEF LocalizeResult
      <4>2. PICK t \in DOMAIN creator[i].times : creator[i].times[t] = r.superevent_id
        BY <3>2 DEF Attaches, KeysOf
      <4>3. DOMAIN creator[i].times = DOMAIN creator[i].superevents
        BY <1>0 DEF GoodCreator
      <4>4. GoodCreator(creator[i])
        BY <1>0
      <4>5. GoodCreator(creator'[i])
        BY <3>2, <4>1, <4>4, AttachKeepsGood
      <4>6. /\ DOMAIN creator'[i].superevents = DOMAIN creator[i].superevents
            /\ creator'[i].times = creator[i].times
        <5> DEFINE d == AttachSkymap(creator[i], r.superevent_id, r.event)
        <5>1. /\ DOMAIN d.superevents = DOMAIN creator[i].superevents
              /\ d.times = creator[i].times
          BY <4>1, <4>4, AttachStep
        <5>. QED
          BY <3>2, <5>1
      <4>. QED
        BY <4>2, <4>3, <4>5, <4>6
    <3>. QED
      BY <2>1, <3>1, <3>2
  <2>3. UpdateOK(i)'
    BY <2>1, <2>2 DEF UpdateOK, OnEvent, OnMap, OpenAt
  <2>4. TakenOK(i)'
    <3>1. taken[i] \in Seq(LocalizeResult) /\ taken[i] # <<>>
      BY <1>0, <2>1 DEF Shape
    <3>2. /\ Len(taken'[i]) = Len(taken[i]) - 1 /\ Len(taken[i]) \in Nat
          /\ \A k \in 1 .. Len(taken'[i]) : taken'[i][k] = taken[i][k + 1]
      BY <2>1, <3>1, HeadTailProperties
    <3>3. /\ Len(taken[i]) <= seen[i] /\ seen[i] <= Len(results)
          /\ \A k \in 1 .. Len(taken[i]) :
               taken[i][k] = results[(seen[i] - Len(taken[i])) + k]
      BY <1>0 DEF TakenOK
    <3>4. \A k \in 1 .. Len(taken'[i]) :
            taken'[i][k] = results[(seen[i] - Len(taken'[i])) + k]
      <4> SUFFICES ASSUME NEW k \in 1 .. Len(taken'[i])
                   PROVE  taken'[i][k] = results[(seen[i] - Len(taken'[i])) + k]
        OBVIOUS
      <4>1. k + 1 \in 1 .. Len(taken[i])
        BY <3>2
      <4>2. (seen[i] - Len(taken[i])) + (k + 1) = (seen[i] - Len(taken'[i])) + k
        <5>1. seen[i] \in Int /\ Len(taken[i]) \in Int /\ k \in Int
          BY <1>0, <3>2
        <5>2. \A a, b, m \in Int : (a - b) + (m + 1) = (a - (b - 1)) + m
          OBVIOUS
        <5>3. (seen[i] - Len(taken[i])) + (k + 1) = (seen[i] - (Len(taken[i]) - 1)) + k
          BY <5>1, <5>2
        <5>. QED
          BY <3>2, <5>3
      <4>. QED
        BY <3>2, <3>3, <4>1, <4>2
    <3>5. pc'[i] # "result" => OnMap(i)'
      BY <2>1 DEF OnMap
    <3>6. Len(taken'[i]) <= seen[i]
      BY <1>0, <3>2, <3>3
    <3>. QED
      BY <2>1, <3>3, <3>4, <3>5, <3>6 DEF TakenOK
  <2>. QED
    BY <2>1, <2>2, <2>3, <2>4, BaseFromOne
<1>12. ASSUME NEW i \in Instance, PatchCenter(i) PROVE Base'
  <2>1. UpdateOK(i)' /\ TakenOK(i)'
    BY <1>12, CenterStep, EffectKeeps DEF Moves, OnEvent, OnMap, local, topics
  <2>. QED
    BY <1>0, <1>12, <2>1, CenterStep, BaseFromOne DEF Moves, local, topics
<1>13. ASSUME NEW i \in Instance, StoreFits(i) PROVE Base'
  <2>1. UpdateOK(i)' /\ TakenOK(i)'
    BY <1>13, FitsStep, EffectKeeps DEF Moves, OnEvent, OnMap, local, topics
  <2>. QED
    BY <1>0, <1>13, <2>1, FitsStep, BaseFromOne DEF Moves, local, topics
<1>14. ASSUME NEW i \in Instance, StoreContours(i) PROVE Base'
  <2>1. UpdateOK(i)'
    BY <1>14, ContoursStep DEF Moves, UpdateOK, OnEvent, OnMap
  <2>2. TakenOK(i)'
    <3>1. TakenOK(i) /\ UNCHANGED <<taken, seen, results>> /\ pc'[i] = "result"
      BY <1>0, <1>14, ContoursStep DEF Moves, topics
    <3>. QED
      BY <3>1 DEF TakenOK
  <2>. QED
    BY <1>0, <1>14, <2>1, <2>2, ContoursStep, BaseFromOne DEF Moves, topics
<1>15. ASSUME NEW i \in Instance, PersistMaps(i) PROVE Base'
  <2>1. UpdateOK(i)' /\ TakenOK(i)'
    BY <1>0, <1>15, PersistMapsStep DEF UpdateOK, TakenOK, OnEvent, OnMap, topics
  <2>2. GoodCreator(creator'[i])
    BY <1>0, <1>15, PersistMapsStep, EmptyIsGood DEF local
  <2>. QED
    BY <1>15, <2>1, <2>2, PersistMapsStep, BaseFromOne DEF topics
<1>16. ASSUME NEW id \in DOMAIN requests, Serve(id) PROVE Base'
  <2>1. PICK r : results' = Append(results, r)
    BY <1>16, ServeStep
  <2>2. /\ Shape' /\ results \in Seq(LocalizeResult)
        /\ UNCHANGED <<pc, local, external, requests, rewinds>>
    BY <1>0, <1>16, ServeStep DEF Shape
  <2>3. /\ Len(results') = Len(results) + 1
        /\ \A n \in 1 .. Len(results) : results'[n] = results[n]
    BY <2>1, <2>2
  <2>4. Updates' /\ Windows'
    BY <2>2 DEF Base, Updates, UpdateOK, Windows, OnEvent, OnMap, OpenAt, local, external
  <2>5. ASSUME NEW i \in Instance PROVE TakenOK(i)'
    <3>1. /\ Len(taken[i]) <= seen[i] /\ seen[i] <= Len(results)
          /\ \A k \in 1 .. Len(taken[i]) :
               taken[i][k] = results[(seen[i] - Len(taken[i])) + k]
          /\ Len(taken[i]) \in Nat
      BY <1>0 DEF TakenOK, Shape
    <3>2. \A k \in 1 .. Len(taken[i]) :
            (seen[i] - Len(taken[i])) + k \in 1 .. Len(results)
      BY <1>0, <3>1
    <3>3. seen[i] <= Len(results')
      BY <1>0, <2>3, <3>1
    <3>4. taken' = taken /\ seen' = seen /\ (OnMap(i)' <=> OnMap(i)) /\ pc' = pc
      BY <2>2 DEF local, OnMap
    <3>. QED
      BY <1>0, <2>3, <3>1, <3>2, <3>3, <3>4 DEF TakenOK
  <2>. QED
    BY <2>2, <2>4, <2>5 DEF Base, Taken
<1>17. ASSUME NEW id \in DOMAIN requests, ServiceRestart(id) PROVE Base'
  BY <1>17, RestartStep
  DEF Base, Updates, UpdateOK, Windows, Taken, TakenOK, OnEvent, OnMap, OpenAt, local, external
<1>18. CASE UNCHANGED vars
  <2>1. Shape'
    BY <1>0, <1>18 DEF vars, local, external, topics, Shape
  <2>. QED
    BY <1>18, <2>1
    DEF Base, Updates, UpdateOK, Windows, Taken, TakenOK, OnEvent, OnMap, OpenAt, vars,
        local, external, topics
<1>. QED
  BY <1>1, <1>2, <1>3, <1>4, <1>5, <1>6, <1>7, <1>8, <1>9, <1>10, <1>11, <1>12, <1>13,
     <1>14, <1>15, <1>16, <1>17, <1>18
  DEF Next, Run, Crash, QuietExit, DeadlineExit

\* The program starts well formed.
LEMMA BaseStarts == Init => Base
<1> SUFFICES ASSUME Init PROVE Base
  OBVIOUS
<1>1. Shape
  BY DEF Init, Shape, Label, EmptyArchive
<1>2. Windows
  <2>1. SaveToRedis(EmptyCreator) = <<>>
    BY DEF SaveToRedis, EmptyCreator
  <2>. QED
    BY <2>1, EmptyIsGood DEF Init, Windows
<1>3. Updates /\ Taken
  BY DEF Init, Updates, UpdateOK, Taken, TakenOK, OnEvent, OnMap
<1>. QED
  BY <1>1, <1>2, <1>3 DEF Base

\* However many clusterers run, crash and restart, and whatever fails: every
\* creator in memory is well formed, what Redis holds is a creator some of them
\* had, and an update is published and archived only of a superevent that is
\* open.
THEOREM ClustererInvariant == Spec => []Base
BY BaseStarts, BaseKept, PTL DEF Spec

-------------------------------------------------------------------------------
(* One clusterer: Redis follows the creator. *)

\* What the store keeps depends on the superevents alone, so that a creator just
\* restored is what Redis holds.
LEMMA RestoredIsSaved ==
  ASSUME Base
  PROVE  SaveToRedis(LoadFromRedis(redis)) = redis
<1>1. PICK c : GoodCreator(c) /\ redis = SaveToRedis(c)
  BY DEF Base, Windows
<1>2. LoadFromRedis(SaveToRedis(c)).superevents = c.superevents
  BY <1>1, LoadAfterSave
<1> DEFINE d == LoadFromRedis(SaveToRedis(c))
<1>. HIDE DEF d
<1>3. d.superevents = c.superevents => SaveToRedis(d) = SaveToRedis(c)
  BY DEF SaveToRedis
<1>. QED
  BY <1>1, <1>2, <1>3 DEF d

\* Another sky map changes no window.
LEMMA AttachSameWindows ==
  ASSUME NEW c, NEW d, GoodCreator(d), SameWindows(c, d), NEW id, NEW fits \in Event
  PROVE  SameWindows(c, AttachSkymap(d, id, fits))
<1> DEFINE x == AttachSkymap(d, id, fits)
<1>1. /\ x.times = d.times /\ DOMAIN x.superevents = DOMAIN d.superevents
      /\ \A t \in DOMAIN d.superevents :
           /\ x.superevents[t].g_events = d.superevents[t].g_events
           /\ x.superevents[t].preferred_event = d.superevents[t].preferred_event
  BY AttachStep
<1>. HIDE DEF x
<1>2. SameWindows(c, x)
  BY <1>1 DEF SameWindows
<1>. QED
  BY <1>2 DEF x

\* What an instance's step has to show for Redis to follow still.
LEMMA FollowsFromOne ==
  ASSUME OneClusterer, Follows, NEW i \in Instance,
         failures' = 0 => failures = 0,
         failures' = 0 /\ FollowsAt(i) => FollowsAt(i)'
  PROVE  Follows'
BY DEF OneClusterer, Follows

\* Redis follows the creator, step by step.
LEMMA FollowsKept ==
  ASSUME OneClusterer, Base, Follows, [Next]_vars
  PROVE  Follows'
<1>0. \A i \in Instance : GoodCreator(creator[i])
  BY DEF Base, Windows
<1>1. ASSUME NEW i \in Instance, Start(i) PROVE Follows'
  <2>1. failures' = 0 => failures = 0 /\ creator'[i] = LoadFromRedis(redis)
    BY <1>1, StartStep DEF Done
  <2>2. redis' = redis /\ pc'[i] = "idle"
    BY <1>1, StartStep DEF external, Moves
  <2>3. failures' = 0 => FollowsAt(i)'
    BY <2>1, <2>2, RestoredIsSaved DEF FollowsAt, OnEvent, OnMap
  <2>. QED
    BY <2>1, <2>3, FollowsFromOne
<1>2. ASSUME NEW i \in Instance, Lose(i) PROVE Follows'
  <2>1. pc'[i] = "down" /\ failures' = failures
    BY <1>2, LoseStep DEF Moves
  <2>2. FollowsAt(i)'
    BY <2>1 DEF FollowsAt, OnEvent, OnMap
  <2>. QED
    BY <2>1, <2>2, FollowsFromOne
<1>3. ASSUME NEW i \in Instance, Stop(i) PROVE Follows'
  <2>1. /\ pc[i] = "idle" /\ pc'[i] = "quiet" /\ failures' = failures
        /\ redis' = redis /\ creator' = creator
    BY <1>3, StopStep DEF Moves, external
  <2>2. FollowsAt(i) => FollowsAt(i)'
    BY <2>1 DEF FollowsAt, OnEvent, OnMap
  <2>. QED
    BY <2>1, <2>2, FollowsFromOne
<1>4. ASSUME NEW i \in Instance, NEW e \in Event, HandleEvent(i, e) PROVE Follows'
  <2>1. /\ pc[i] = "idle" /\ pc'[i] = "emit" /\ redis' = redis
        /\ failures' = 0 => failures = 0
        /\ creator'[i] = Process(creator[i], e) /\ update'[i] = Update(creator[i], e)
    BY <1>4, HandleStep DEF Moves
  <2>2. /\ Update(creator[i], e).event = e
        /\ Update(creator[i], e).action # "skymap_attached"
    BY DEF Update
  <2>3. FollowsAt(i) => FollowsAt(i)'
    BY <1>0, <2>1, <2>2 DEF FollowsAt, OnEvent, OnMap
  <2>. QED
    BY <2>1, <2>3, FollowsFromOne
<1>5. ASSUME NEW i \in Instance,
             Emit(i) \/ ArchiveSuperevent(i) \/ Localize(i) \/ RecordRequest(i)
             \/ PatchCenter(i) \/ StoreFits(i)
      PROVE  Follows'
  <2>1. /\ UNCHANGED <<creator, update, redis>>
        /\ failures' = 0 => failures = 0
        /\ OnEvent(i)' => OnEvent(i)
        /\ OnMap(i)' => OnMap(i)
        /\ pc'[i] \notin {"idle", "quiet", "drain", "result"}
    <3>1. CASE Emit(i)
      BY <3>1, EmitStep DEF Moves, OnEvent, OnMap, local
    <3>2. CASE ArchiveSuperevent(i)
      BY <3>2, ArchiveStep DEF Moves, OnEvent, OnMap, local, Done
    <3>3. CASE Localize(i)
      BY <3>3, LocalizeStep DEF Moves, OnEvent, OnMap, local, external
    <3>4. CASE RecordRequest(i)
      BY <3>4, RecordStep DEF Moves, OnEvent, OnMap, local
    <3>5. CASE PatchCenter(i)
      BY <3>5, CenterStep DEF Moves, OnEvent, OnMap, local
    <3>6. CASE StoreFits(i)
      BY <3>6, FitsStep DEF Moves, OnEvent, OnMap, local, Done
    <3>. QED
      BY <1>5, <3>1, <3>2, <3>3, <3>4, <3>5, <3>6
  <2>2. FollowsAt(i) => FollowsAt(i)'
    BY <2>1 DEF FollowsAt
  <2>. QED
    BY <2>1, <2>2, FollowsFromOne
<1>6. ASSUME NEW i \in Instance, Persist(i) PROVE Follows'
  <2>1. /\ failures' = 0 => failures = 0 /\ pc'[i] = "drain" /\ redis' = SaveToRedis(creator[i])
        /\ creator' = creator
    BY <1>6, PersistStep DEF Done
  <2>2. failures' = 0 => FollowsAt(i)'
    BY <2>1 DEF FollowsAt, OnEvent, OnMap
  <2>. QED
    BY <2>1, <2>2, FollowsFromOne
<1>7. ASSUME NEW i \in Instance, Drain(i) \/ ReceiveResult(i) PROVE Follows'
  <2>1. /\ pc[i] \in {"drain", "quiet"} /\ pc'[i] \in {"idle", "result"}
        /\ creator' = creator /\ redis' = redis /\ failures' = failures
    BY <1>7, TakeStep DEF external
  <2>2. SameWindows(creator[i], creator[i])
    BY DEF SameWindows
  <2>3. FollowsAt(i) => FollowsAt(i)'
    BY <1>0, <2>1, <2>2 DEF FollowsAt, OnEvent, OnMap
  <2>. QED
    BY <2>1, <2>3, FollowsFromOne
<1>8. ASSUME NEW i \in Instance, ApplyResult(i) PROVE Follows'
  <2> DEFINE r == taken[i][1]
  <2>1. /\ pc[i] = "result" /\ redis' = redis
        /\ failures' = 0 => failures = 0
        /\ \/ /\ pc'[i] = "emit" /\ r.event \in Event
              /\ creator'[i] = AttachSkymap(creator[i], r.superevent_id, r.event)
              /\ update'[i] = [action |-> "skymap_attached", id |-> r.superevent_id]
           \/ pc'[i] = "result" /\ UNCHANGED <<creator, update>>
    BY <1>8, ApplyStep DEF LocalizeResult
  <2>. HIDE DEF r
  <2>2. \A c : SameWindows(c, creator[i]) => SameWindows(c, creator'[i])
    BY <1>0, <2>1, AttachSameWindows
  <2>3. pc'[i] = "result" \/ update'[i].action = "skymap_attached"
    BY <2>1
  <2>4. FollowsAt(i) => FollowsAt(i)'
    BY <2>1, <2>2, <2>3 DEF FollowsAt, OnEvent, OnMap
  <2>. QED
    BY <2>1, <2>4, FollowsFromOne
<1>9. ASSUME NEW i \in Instance, StoreContours(i) PROVE Follows'
  <2>1. /\ pc[i] = "contours" /\ pc'[i] = "result" /\ creator' = creator /\ redis' = redis
        /\ failures' = 0 => failures = 0
    BY <1>9, ContoursStep DEF Moves, Done
  <2>2. FollowsAt(i) => FollowsAt(i)'
    BY <2>1 DEF FollowsAt, OnEvent, OnMap
  <2>. QED
    BY <2>1, <2>2, FollowsFromOne
<1>10. ASSUME NEW i \in Instance, PersistMaps(i) PROVE Follows'
  <2>1. /\ failures' = 0 => /\ failures = 0 /\ redis' = SaveToRedis(creator[i])
                           /\ pc'[i] \in {"idle", "quiet"} /\ creator' = creator
    BY <1>10, PersistMapsStep DEF Done, local
  <2>2. failures' = 0 => FollowsAt(i)'
    BY <2>1 DEF FollowsAt, OnEvent, OnMap
  <2>. QED
    BY <2>1, <2>2, FollowsFromOne
<1>11. ASSUME NEW id \in DOMAIN requests, Serve(id) \/ ServiceRestart(id) PROVE Follows'
  <2>1. /\ UNCHANGED <<pc, creator, update, redis>>
        /\ failures' = 0 => failures = 0
    BY <1>11, ServeStep, RestartStep DEF local, external
  <2>. QED
    BY <2>1 DEF Follows, FollowsAt, OnEvent, OnMap
<1>12. CASE UNCHANGED vars
  BY <1>12 DEF Follows, FollowsAt, OnEvent, OnMap, vars, local, external
<1>. QED
  BY <1>1, <1>2, <1>3, <1>4, <1>5, <1>6, <1>7, <1>8, <1>9, <1>10, <1>11, <1>12
  DEF Next, Run, Crash, QuietExit, DeadlineExit

\* Nothing is ahead of Redis at the start.
LEMMA FollowsStarts == Init => Follows
BY DEF Init, Follows, FollowsAt, OnEvent, OnMap

\* Between events nothing is unsaved: a crash of the one clusterer while it waits
\* loses nothing, as long as no write has failed.
THEOREM NothingUnsaved ==
  ASSUME OneClusterer
  PROVE  Spec => []SavedWhenIdle
<1>1. Base /\ Follows /\ [Next]_vars => Follows'
  BY FollowsKept
<1>2. Follows => SavedWhenIdle
  BY DEF Follows, FollowsAt, SavedWhenIdle
<1>. QED
  BY <1>1, <1>2, FollowsStarts, ClustererInvariant, PTL DEF Spec

-------------------------------------------------------------------------------
(* One clusterer and no failure: what Redis holds is the timeline. *)

\* The windows of a creator, as the timeline has them.
Members(c) == [t \in DOMAIN c.superevents |-> Range(c.superevents[t].g_events)]
Preferred(c) == [t \in DOMAIN c.superevents |-> c.superevents[t].preferred_event]

\* Where nothing may fail, nothing fails.
LEMMA NothingFails ==
  ASSUME MaxFailures = 0, Base, [Next]_vars
  PROVE  failures' = failures
<1>1. failures \in Nat /\ ~ (failures < MaxFailures)
  BY DEF Base, Shape
<1>. QED
  BY <1>1
  DEF Next, Run, Start, Crash, Lose, Stop, HandleEvent, Emit, ArchiveSuperevent, Localize,
      RecordRequest, Persist, Drain, ReceiveResult, ApplyResult, PatchCenter, StoreFits,
      StoreContours, PersistMaps, QuietExit, DeadlineExit, Serve, ServiceRestart, Effect, vars

\* A step leaves Redis alone, or moves it by one event, or by sky maps only.
LEMMA RedisStep ==
  ASSUME OneClusterer, MaxFailures = 0, Base, Follows, failures = 0, [Next]_vars
  PROVE  \/ redis' = redis
         \/ \E c, d : /\ GoodCreator(c) /\ redis = SaveToRedis(c)
                      /\ GoodCreator(d) /\ redis' = SaveToRedis(d)
                      /\ SameWindows(c, d) \/ \E e \in Event : d = Process(c, e)
<1>0. /\ \A i \in Instance : FollowsAt(i) /\ GoodCreator(creator[i])
      /\ failures' = 0
  BY NothingFails DEF Follows, Base, Windows
<1>1. ASSUME NEW i \in Instance, Persist(i)
      PROVE  \E c, d : /\ GoodCreator(c) /\ redis = SaveToRedis(c)
                       /\ GoodCreator(d) /\ redis' = SaveToRedis(d)
                       /\ \E e \in Event : d = Process(c, e)
  <2>1. pc[i] = "persist" /\ redis' = SaveToRedis(creator[i])
    BY <1>0, <1>1, PersistStep DEF Done
  <2>2. OnEvent(i)
    BY <2>1 DEF OnEvent
  <2>3. PICK c : /\ GoodCreator(c) /\ redis = SaveToRedis(c)
                 /\ creator[i] = Process(c, update[i].event)
    BY <1>0, <2>2 DEF FollowsAt
  <2>4. update[i].event \in Event
    BY <2>2, UpdateTypes
  <2>. QED
    BY <1>0, <2>1, <2>3, <2>4
<1>2. ASSUME NEW i \in Instance, PersistMaps(i)
      PROVE  \E c, d : /\ GoodCreator(c) /\ redis = SaveToRedis(c)
                       /\ GoodCreator(d) /\ redis' = SaveToRedis(d)
                       /\ SameWindows(c, d)
  <2>1. pc[i] = "result" /\ redis' = SaveToRedis(creator[i])
    BY <1>0, <1>2, PersistMapsStep DEF Done
  <2>2. PICK c : GoodCreator(c) /\ redis = SaveToRedis(c) /\ SameWindows(c, creator[i])
    BY <1>0, <2>1 DEF FollowsAt
  <2>. QED
    BY <1>0, <2>1, <2>2
<1>3. \/ redis' = redis
      \/ \E i \in Instance : Persist(i) \/ PersistMaps(i)
  BY DEF Next, Run, Start, Crash, Lose, Stop, HandleEvent, Emit, ArchiveSuperevent, Localize,
      RecordRequest, Drain, ReceiveResult, ApplyResult, PatchCenter, StoreFits,
      StoreContours, QuietExit, DeadlineExit, Serve, ServiceRestart, vars, external
<1>. QED
  BY <1>1, <1>2, <1>3

\* d has one window more than c, around the event, which no window of c reaches.
OneMore(c, d, e) ==
  LET g == e.end_time
      D == DOMAIN c.superevents
  IN  /\ \A t \in D : Distance(g, t) > Half
      /\ Members(d) = [t \in D \cup {g} |-> IF t = g THEN {e} ELSE Members(c)[t]]
      /\ Preferred(d) = [t \in D \cup {g} |-> IF t = g THEN e ELSE Preferred(c)[t]]

\* In d a closest window of c, the one at h, has the event too, and p is one of
\* its loudest and the preferred one.
OneLarger(c, d, e, h, p) ==
  LET g == e.end_time
      D == DOMAIN c.superevents
      joined == Members(c)[h] \cup {e}
  IN  /\ h \in D /\ Distance(g, h) <= Half
      /\ \A u \in D : Distance(g, h) <= Distance(g, u)
      /\ Members(d) = [Members(c) EXCEPT ![h] = @ \cup {e}]
      /\ p \in joined /\ \A q \in joined : q.snr <= p.snr
      /\ Preferred(d) = [Preferred(c) EXCEPT ![h] = p]

\* What process makes of the windows: the event opens one where none reaches, or
\* joins a closest one, whose preferred event stays one of the loudest.
LEMMA ProcessMoves ==
  ASSUME NEW c, GoodCreator(c), NEW e \in Event
  PROVE  LET d == Process(c, e)
         IN  OneMore(c, d, e) \/ \E h, p : OneLarger(c, d, e, h, p)
<1> DEFINE D == DOMAIN c.superevents
           d == Process(c, e)
           g == e.end_time
<1>1. CASE Opens(c, e)
  <2> DEFINE new == NewSuperevent(c.next_seq, e)
  <2>1. /\ d.superevents = Insert(c.superevents, g, new)
        /\ \A t \in D : Distance(g, t) > Half
    BY <1>1, OpenStep
  <2>2. new.preferred_event = e /\ Range(new.g_events) = {e}
    BY DEF NewSuperevent, Range
  <2>. HIDE DEF new, d
  <2>3. Members(d) = [t \in D \cup {g} |-> IF t = g THEN {e} ELSE Members(c)[t]]
    BY <2>1, <2>2 DEF Members, Insert
  <2>4. Preferred(d) = [t \in D \cup {g} |-> IF t = g THEN e ELSE Preferred(c)[t]]
    BY <2>1, <2>2 DEF Preferred, Insert
  <2>5. OneMore(c, d, e)
    BY <2>1, <2>3, <2>4 DEF OneMore
  <2>. QED
    BY <2>5 DEF d
<1>2. CASE ~ Opens(c, e)
  <2> DEFINE h == HostT0(c, e)
             s == c.superevents[h]
             r == Join(s, e, Promotes(c, e))
  <2>1. /\ d.superevents = [c.superevents EXCEPT ![h] = r]
        /\ h \in D
        /\ Distance(g, h) <= Half
        /\ \A u \in D : Distance(g, h) <= Distance(g, u)
    BY <1>2, JoinStep
  <2>2. s \in Superevent /\ s.g_events \in Seq(Event)
    BY <2>1 DEF GoodCreator, Superevent
  <2>3. r.g_events = Append(s.g_events, e)
    BY <2>2 DEF Join, Superevent
  <2>4. Range(r.g_events) = Range(s.g_events) \cup {e}
    BY <2>2, <2>3, RangeOfAppend
  <2>. HIDE DEF r
  <2>5. d.superevents[h] = r /\ DOMAIN d.superevents = D
    BY <2>1
  <2>6. GoodSuperevent(h, r)
    BY <2>5, <2>1, ProcessKeepsGood DEF GoodCreator
  <2>. HIDE DEF d
  <2>7. Members(d) = [Members(c) EXCEPT ![h] = @ \cup {e}]
    BY <2>1, <2>4 DEF Members
  <2>8. Preferred(d) = [Preferred(c) EXCEPT ![h] = r.preferred_event]
    BY <2>1 DEF Preferred
  <2>9. Range(r.g_events) = Members(c)[h] \cup {e}
    BY <2>1, <2>4 DEF Members
  <2>10. /\ r.preferred_event \in Range(r.g_events)
         /\ \A q \in Range(r.g_events) : q.snr <= r.preferred_event.snr
    BY <2>6 DEF GoodSuperevent, Range
  <2>11. OneLarger(c, d, e, h, r.preferred_event)
    BY <2>1, <2>7, <2>8, <2>9, <2>10 DEF OneLarger
  <2>. QED
    BY <2>11 DEF d
<1>. QED
  BY <1>1, <1>2

\* Redis holding a creator shows its windows, before a step and after it.
LEMMA SavedShows ==
  ASSUME NEW c, GoodCreator(c)
  PROVE  /\ redis = SaveToRedis(c) =>
              /\ [t \in persisted |-> Range(window(t).g_events)] = Members(c)
              /\ [t \in persisted |-> window(t).preferred_event] = Preferred(c)
         /\ redis' = SaveToRedis(c) =>
              /\ [t \in persisted |-> Range(window(t).g_events)]' = Members(c)
              /\ [t \in persisted |-> window(t).preferred_event]' = Preferred(c)
<1> DEFINE D == DOMAIN c.superevents
           stored == SaveToRedis(c)
           at(t) == CHOOSE id \in DOMAIN stored : stored[id].t_0 = t
<1>1. /\ DOMAIN stored = {c.times[t] : t \in D}
      /\ \A t \in D : stored[c.times[t]] = c.superevents[t]
  BY SaveKeepsAll
<1>2. \A t \in D : c.superevents[t].t_0 = t
  BY DEF GoodCreator, GoodSuperevent
<1>. HIDE DEF stored
<1>3. {stored[id].t_0 : id \in DOMAIN stored} = D
  BY <1>1, <1>2
<1>4. \A t \in D : stored[at(t)] = c.superevents[t]
  <2> SUFFICES ASSUME NEW t \in D PROVE stored[at(t)] = c.superevents[t]
    OBVIOUS
  <2>1. \E id \in DOMAIN stored : stored[id].t_0 = t
    BY <1>1, <1>2
  <2>2. at(t) \in DOMAIN stored /\ stored[at(t)].t_0 = t
    BY <2>1
  <2>. HIDE DEF at
  <2>. QED
    BY <1>1, <1>2, <2>2
<1>5. redis = stored => persisted = D /\ \A t \in D : window(t) = c.superevents[t]
  BY <1>3, <1>4 DEF persisted, window
<1>6. redis' = stored => persisted' = D /\ \A t \in D : window(t)' = c.superevents[t]
  BY <1>3, <1>4 DEF persisted, window
<1>. HIDE DEF at
<1>7. redis = stored =>
        /\ [t \in persisted |-> Range(window(t).g_events)] = Members(c)
        /\ [t \in persisted |-> window(t).preferred_event] = Preferred(c)
  BY <1>5 DEF Members, Preferred
<1>8. redis' = stored =>
        /\ [t \in persisted |-> Range(window(t).g_events)]' = Members(c)
        /\ [t \in persisted |-> window(t).preferred_event]' = Preferred(c)
  BY <1>6 DEF Members, Preferred
<1>. QED
  BY <1>7, <1>8 DEF stored


\* The invariant the two results on Redis rest on.
Faultless == Base /\ Follows /\ failures = 0

LEMMA FaultlessKept ==
  ASSUME OneClusterer, MaxFailures = 0
  PROVE  Spec => []Faultless
<1>1. Init => Faultless
  BY BaseStarts, FollowsStarts DEF Faultless, Init
<1>2. Faultless /\ [Next]_vars => Faultless'
  BY BaseKept, FollowsKept, NothingFails DEF Faultless
<1>. QED
  BY <1>1, <1>2, PTL DEF Spec

\* A step of the clusterer is a step of the timeline Redis shows, or none.
LEMMA SavedRefines ==
  ASSUME OneClusterer, MaxFailures = 0, Faultless, [Next]_vars
  PROVE  [Saved!Next]_(Saved!vars)
<1> DEFINE M == [t \in persisted |-> Range(window(t).g_events)]
           P == [t \in persisted |-> window(t).preferred_event]
<1>1. SUFFICES (\E e \in Event : Saved!OpenWindow(e) \/ \E t \in DOMAIN M : Saved!JoinWindow(e, t))
               \/ (M' = M /\ P' = P)
  BY DEF Saved!Next, Saved!vars
<1>2. CASE redis' = redis
  BY <1>2 DEF persisted, window
<1>3. ASSUME NEW c, NEW d, GoodCreator(c), redis = SaveToRedis(c), redis' = SaveToRedis(d),
             GoodCreator(d), SameWindows(c, d)
      PROVE  M' = M /\ P' = P
  <2>1. M = Members(c) /\ P = Preferred(c) /\ M' = Members(d) /\ P' = Preferred(d)
    BY <1>3, SavedShows
  <2>2. Members(d) = Members(c) /\ Preferred(d) = Preferred(c)
    BY <1>3 DEF SameWindows, Members, Preferred
  <2>. QED
    BY <2>1, <2>2
<1>4. ASSUME NEW c, NEW e \in Event, GoodCreator(c), redis = SaveToRedis(c),
             redis' = SaveToRedis(Process(c, e))
      PROVE  Saved!OpenWindow(e) \/ \E t \in DOMAIN M : Saved!JoinWindow(e, t)
  <2> DEFINE d == Process(c, e)
             D == DOMAIN c.superevents
             g == e.end_time
  <2>0. GoodCreator(c)
    BY <1>4
  <2>1. OneMore(c, d, e) \/ \E h, p : OneLarger(c, d, e, h, p)
    BY <1>4, ProcessMoves
  <2>2. GoodCreator(d)
    BY <1>4, ProcessKeepsGood
  <2>. HIDE DEF d
  <2>3. M = Members(c) /\ P = Preferred(c) /\ M' = Members(d) /\ P' = Preferred(d)
    BY <1>4, <2>2, SavedShows DEF d
  <2>4. DOMAIN Members(c) = D /\ D \subseteq Int /\ g \in Int
    BY <1>4, EventAssumption DEF Members, GoodCreator
  <2>5. \A t \in D : Saved!Gap(g, t) = Distance(g, t) /\ Distance(g, t) \in Int
    BY <2>4 DEF Saved!Gap, Distance
  <2>6. /\ Saved!Holding(g) = {t \in DOMAIN M : Saved!Gap(g, t) <= Half}
        /\ Saved!Closest(g) = {t \in Saved!Holding(g) :
             \A u \in Saved!Holding(g) : Saved!Gap(g, t) <= Saved!Gap(g, u)}
    BY DEF Saved!Holding, Saved!Closest
  <2>. HIDE DEF M, P
  <2>7. ASSUME OneMore(c, d, e) PROVE Saved!OpenWindow(e)
    <3>0. /\ \A t \in D : Distance(g, t) > Half
          /\ Members(d) = [t \in D \cup {g} |-> IF t = g THEN {e} ELSE Members(c)[t]]
          /\ Preferred(d) = [t \in D \cup {g} |-> IF t = g THEN e ELSE Preferred(c)[t]]
      BY <2>7 DEF OneMore
    <3>1. Saved!Holding(g) = {}
      BY <2>3, <2>4, <2>5, <2>6, <3>0, HalfAssumption
    <3>2. M' = [t \in DOMAIN M \cup {g} |-> IF t = g THEN {e} ELSE M[t]]
      BY <2>3, <2>4, <3>0
    <3>3. P' = [t \in DOMAIN P \cup {g} |-> IF t = g THEN e ELSE P[t]]
      <4>1. DOMAIN P = D
        BY <2>3 DEF Preferred
      <4>. QED
        BY <2>3, <3>0, <4>1
    <3>4. DOMAIN P = DOMAIN M
      BY DEF M, P
    <3>. QED
      BY <3>1, <3>2, <3>3, <3>4 DEF Saved!OpenWindow, M, P
  <2>8. ASSUME NEW h, NEW p, OneLarger(c, d, e, h, p)
        PROVE  h \in DOMAIN M /\ Saved!JoinWindow(e, h)
    <3>0. /\ h \in D /\ Distance(g, h) <= Half
          /\ \A u \in D : Distance(g, h) <= Distance(g, u)
          /\ Members(d) = [Members(c) EXCEPT ![h] = @ \cup {e}]
          /\ p \in Members(c)[h] \cup {e}
          /\ \A q \in Members(c)[h] \cup {e} : q.snr <= p.snr
          /\ Preferred(d) = [Preferred(c) EXCEPT ![h] = p]
      BY <2>8 DEF OneLarger
    <3>1. h \in Saved!Closest(g)
      BY <2>3, <2>4, <2>5, <2>6, <3>0
    <3>2. M' = [M EXCEPT ![h] = @ \cup {e}]
      BY <2>3, <3>0
    <3>3. P' = [P EXCEPT ![h] = p]
      BY <2>3, <3>0
    <3>4. p \in Saved!Loudest(M[h] \cup {e})
      BY <2>3, <3>0 DEF Saved!Loudest
    <3>5. h \in DOMAIN M
      BY <2>3, <2>4, <3>0
    <3>. QED
      BY <3>1, <3>2, <3>3, <3>4, <3>5 DEF Saved!JoinWindow, M, P
  <2>. QED
    BY <2>1, <2>7, <2>8
<1>. QED
  BY <1>2, <1>3, <1>4, RedisStep DEF Faultless

\* The persisted state of the one clusterer implements the timeline, through every
\* crash, stop and restart, as long as no write fails.
THEOREM SavedStateIsTimeline ==
  ASSUME OneClusterer, MaxFailures = 0
  PROVE  Spec => SavedTimeline
<1>1. Init => Saved!Init
  <2>1. Init => persisted = {}
    BY DEF Init, persisted
  <2>. QED
    BY <2>1 DEF Saved!Init
<1>2. Faultless /\ [Next]_vars => [Saved!Next]_(Saved!vars)
  BY SavedRefines
<1>. QED
  BY <1>1, <1>2, FaultlessKept, PTL DEF Spec, SavedTimeline, Saved!Spec

\* An open window is open after process, with its id and its events.
LEMMA ProcessKeepsWindows ==
  ASSUME NEW c, GoodCreator(c), NEW e \in Event, NEW t \in DOMAIN c.superevents
  PROVE  LET d == Process(c, e)
         IN  /\ t \in DOMAIN d.superevents /\ d.times[t] = c.times[t]
             /\ Range(c.superevents[t].g_events) \subseteq Range(d.superevents[t].g_events)
<1> DEFINE d == Process(c, e)
<1>1. PICK h \in DOMAIN d.superevents :
        /\ \A u \in DOMAIN c.superevents : u \in DOMAIN d.superevents
        /\ \A u \in DOMAIN c.superevents \ {h} : /\ d.superevents[u] = c.superevents[u]
                                                /\ d.times[u] = c.times[u]
        /\ h \in DOMAIN c.superevents =>
             /\ d.times[h] = c.times[h]
             /\ Range(d.superevents[h].g_events) = Range(c.superevents[h].g_events) \cup {e}
  BY ProcessStep
<1>. HIDE DEF d
<1>2. /\ t \in DOMAIN d.superevents /\ d.times[t] = c.times[t]
      /\ Range(c.superevents[t].g_events) \subseteq Range(d.superevents[t].g_events)
  <2>1. CASE t = h
    BY <1>1, <2>1
  <2>2. CASE t # h
    BY <1>1, <2>2
  <2>. QED
    BY <2>1, <2>2
<1>. QED
  BY <1>2 DEF d

\* A window in Redis is still there after a step, with its t_0 and its events.
LEMMA WindowStays ==
  ASSUME OneClusterer, MaxFailures = 0, Faultless, [Next]_vars, NEW id \in DOMAIN redis
  PROVE  /\ id \in DOMAIN redis'
         /\ redis'[id].t_0 = redis[id].t_0
         /\ Range(redis[id].g_events) \subseteq Range(redis'[id].g_events)
<1>1. CASE redis' = redis
  BY <1>1
<1>2. ASSUME NEW c, NEW d, GoodCreator(c), redis = SaveToRedis(c),
             GoodCreator(d), redis' = SaveToRedis(d),
             SameWindows(c, d) \/ \E e \in Event : d = Process(c, e)
      PROVE  /\ id \in DOMAIN redis'
             /\ redis'[id].t_0 = redis[id].t_0
             /\ Range(redis[id].g_events) \subseteq Range(redis'[id].g_events)
  <2>0. GoodCreator(c) /\ GoodCreator(d)
    BY <1>2
  <2>1. PICK t \in DOMAIN c.superevents : id = c.times[t] /\ redis[id] = c.superevents[t]
    BY <1>2, <2>0, SavedAreOpen
  <2>2. /\ t \in DOMAIN d.superevents /\ d.times[t] = c.times[t]
        /\ Range(c.superevents[t].g_events) \subseteq Range(d.superevents[t].g_events)
    <3>1. CASE SameWindows(c, d)
      BY <3>1 DEF SameWindows
    <3>2. ASSUME NEW e \in Event, d = Process(c, e)
          PROVE  /\ t \in DOMAIN d.superevents /\ d.times[t] = c.times[t]
                 /\ Range(c.superevents[t].g_events) \subseteq Range(d.superevents[t].g_events)
      BY <2>0, <3>2, ProcessKeepsWindows
    <3>. QED
      BY <1>2, <3>1, <3>2
  <2>3. redis'[id] = d.superevents[t] /\ id \in DOMAIN redis'
    BY <1>2, <2>1, <2>2, SaveKeepsAll
  <2>4. c.superevents[t].t_0 = t /\ d.superevents[t].t_0 = t
    BY <1>2, <2>2 DEF GoodCreator, GoodSuperevent
  <2>. QED
    BY <2>1, <2>2, <2>3, <2>4
<1>. QED
  BY <1>1, <1>2, RedisStep DEF Faultless

\* Nothing the one clusterer once saved is forgotten, whatever crashes and restarts
\* come, as long as no write fails.
THEOREM SavedWindowsSurvive ==
  ASSUME OneClusterer, MaxFailures = 0
  PROVE  Spec => WindowsSurvive
<1>1. Faultless /\ [Next]_vars =>
        [ \A id \in DOMAIN redis :
            /\ id \in DOMAIN redis'
            /\ redis'[id].t_0 = redis[id].t_0
            /\ Range(redis[id].g_events) \subseteq Range(redis'[id].g_events) ]_vars
  BY WindowStays
<1>. QED
  BY <1>1, FaultlessKept, PTL DEF Spec, WindowsSurvive

\* What the one clusterer publishes under a saved id is about the saved window.
LEMMA PublishesSaved ==
  ASSUME OneClusterer, Base, Follows, NEW i \in Instance, Emit(i), failures = 0,
         update[i].id \in DOMAIN redis
  PROVE  LET t_0 == redis[update[i].id].t_0
             a   == Announcement(i)
         IN  IF a.action = "skipped" THEN Distance(a.event.end_time, t_0) <= Half
             ELSE a.superevent.t_0 = t_0
<1> DEFINE id == update[i].id
<1>1. pc[i] = "emit" /\ FollowsAt(i) /\ UpdateOK(i) /\ GoodCreator(creator[i])
  BY EmitStep DEF Follows, Base, Updates, Windows
<1>2. PICK t \in DOMAIN creator[i].superevents : OpenAt(i, id, t)
  BY <1>1 DEF UpdateOK, OnEvent, OnMap
<1>3. Held(i, id).t_0 = t
  BY <1>1, <1>2, HeldIsOpen
<1>4. ASSUME NEW c, GoodCreator(c), redis = SaveToRedis(c),
             \A u \in DOMAIN c.superevents : /\ u \in DOMAIN creator[i].superevents
                                            /\ creator[i].times[u] = c.times[u]
      PROVE  redis[id].t_0 = t
  <2>1. PICK u \in DOMAIN c.superevents : redis[id].t_0 = u /\ c.times[u] = id
    BY <1>4, SavedAreOpen
  <2>2. creator[i].times[u] = creator[i].times[t] /\ u \in DOMAIN creator[i].times
        /\ t \in DOMAIN creator[i].times
    BY <1>1, <1>2, <1>4, <2>1 DEF OpenAt, GoodCreator
  <2>. QED
    BY <1>1, <2>1, <2>2 DEF GoodCreator
<1>5. CASE OnMap(i)
  <2>1. PICK c : GoodCreator(c) /\ redis = SaveToRedis(c) /\ SameWindows(c, creator[i])
    BY <1>1, <1>5 DEF FollowsAt
  <2>2. redis[id].t_0 = t
    BY <1>4, <2>1 DEF SameWindows
  <2>3. /\ Announcement(i).action # "skipped"
        /\ Announcement(i).superevent = Held(i, id)
    BY <1>1, <1>5 DEF UpdateOK, Announcement
  <2>. QED
    BY <1>3, <2>2, <2>3
<1>6. CASE OnEvent(i)
  <2> DEFINE e == update[i].event
  <2>1. PICK c : /\ GoodCreator(c) /\ redis = SaveToRedis(c)
                 /\ creator[i] = Process(c, e) /\ update[i] = Update(c, e)
    BY <1>1, <1>6 DEF FollowsAt
  <2>2. e \in Event
    BY <1>1, <1>6 DEF UpdateOK
  <2>. HIDE DEF e
  <2>3. redis[id].t_0 = t
    BY <1>4, <2>1, <2>2, ProcessKeepsWindows
  <2>4. CASE update[i].action # "skipped"
    <3>1. /\ Announcement(i).action # "skipped"
          /\ Announcement(i).superevent = Held(i, id)
      BY <2>4 DEF Announcement
    <3>. QED
      BY <1>3, <2>3, <3>1
  <2>5. CASE update[i].action = "skipped"
    <3>1. Announcement(i) = update[i]
      BY <2>5 DEF Announcement
    <3>2. ~ Opens(c, e)
      BY <2>1, <2>5 DEF Update
    <3> DEFINE h == HostT0(c, e)
    <3>3. h \in DOMAIN c.superevents /\ Distance(e.end_time, h) <= Half
      BY <2>1, <2>2, <3>2, JoinStep
    <3>4. id = c.superevents[h].id
      BY <2>1, <3>2 DEF Update
    <3>5. c.superevents[h].id = c.times[h]
      BY <2>1, <3>3 DEF GoodCreator
    <3>. HIDE DEF h
    <3>6. redis[id] = c.superevents[h]
      <4>1. SaveToRedis(c)[c.times[h]] = c.superevents[h]
        BY <2>1, <3>3, SaveKeepsAll
      <4>2. c.times[h] = id
        BY <3>4, <3>5
      <4>3. redis = SaveToRedis(c)
        BY <2>1
      <4>. HIDE DEF id
      <4>. QED
        BY <4>1, <4>2, <4>3
    <3>7. c.superevents[h].t_0 = h
      BY <2>1, <3>3 DEF GoodCreator, GoodSuperevent
    <3>. QED
      BY <2>5, <3>1, <3>3, <3>6, <3>7 DEF e
  <2>. QED
    BY <2>4, <2>5
<1>7. OnMap(i) \/ OnEvent(i)
  BY <1>1 DEF OnMap, OnEvent
<1>. QED
  BY <1>5, <1>6, <1>7

\* With one clusterer an id that is saved is never given again, through any
\* crashes and restarts, as long as no effect has failed.
THEOREM SavedIdsStayTaken ==
  ASSUME OneClusterer
  PROVE  Spec => SavedIdIsTaken
<1>1. Base /\ Follows /\ [Next]_vars => Follows'
  BY FollowsKept
<1>2. Base /\ Follows /\ [Next]_vars =>
        [ \A i \in Instance :
            Emit(i) /\ failures = 0 /\ update[i].id \in DOMAIN redis =>
              LET t_0 == redis[update[i].id].t_0
                  a   == Announcement(i)
              IN  IF a.action = "skipped" THEN Distance(a.event.end_time, t_0) <= Half
                  ELSE a.superevent.t_0 = t_0 ]_vars
  BY PublishesSaved
<1>. QED
  BY <1>1, <1>2, FollowsStarts, ClustererInvariant, PTL DEF Spec, SavedIdIsTaken


-------------------------------------------------------------------------------
(* One clusterer: MongoDB and the storage cover Redis. *)

\* One document is replaced by that of superevent h.
LEMMA DocsInserted ==
  ASSUME NEW docs, NEW id, NEW h, NEW s,
         s.id # id => DocCovers(docs, s),
         s.id = id => s.t_0 = h.t_0 /\ Range(s.g_events) \subseteq Range(h.g_events)
  PROVE  DocCovers(Insert(docs, id, SupereventDoc(h)), s)
<1> DEFINE doc == SupereventDoc(h)
           docs2 == Insert(docs, id, doc)
<1>1. doc.t_0 = h.t_0 /\ doc.g_events = h.g_events
  BY DEF SupereventDoc
<1>. HIDE DEF doc
<1>2. /\ DOMAIN docs2 = DOMAIN docs \cup {id} /\ docs2[id] = doc
      /\ \A k \in DOMAIN docs \ {id} : docs2[k] = docs[k]
  BY DEF Insert
<1>. HIDE DEF docs2
<1>3. DocCovers(docs2, s)
  BY <1>1, <1>2 DEF DocCovers
<1>. QED
  BY <1>3 DEF docs2, doc

\* Documents that differ in neither t_0 nor G events cover the same.
LEMMA DocsPatched ==
  ASSUME NEW docs, NEW docs2, NEW s, DOMAIN docs2 = DOMAIN docs,
         \A k \in DOMAIN docs : /\ docs2[k].t_0 = docs[k].t_0
                                /\ docs2[k].g_events = docs[k].g_events,
         DocCovers(docs, s)
  PROVE  DocCovers(docs2, s)
BY DEF DocCovers

\* The FITS of one superevent, or its contours, are stored.
LEMMA FitsStored ==
  ASSUME NEW id, NEW map, NEW s, DOMAIN Stored(id) = {"fits", "contours"},
         s.id # id => FitsCovers(storage, s), map # NoSkymap
  PROVE  FitsCovers(Insert(storage, id, [Stored(id) EXCEPT !.fits = map]), s)
<1> DEFINE blob == [Stored(id) EXCEPT !.fits = map]
<1>1. blob.fits = map
  OBVIOUS
<1>. HIDE DEF blob
<1>2. FitsCovers(Insert(storage, id, blob), s)
  BY <1>1 DEF FitsCovers, Insert
<1>. QED
  BY <1>2 DEF blob

LEMMA ContoursStored ==
  ASSUME NEW id, NEW map, NEW s, DOMAIN Stored(id) = {"fits", "contours"},
         FitsCovers(storage, s)
  PROVE  FitsCovers(Insert(storage, id, [Stored(id) EXCEPT !.contours = map]), s)
<1> DEFINE blob == [Stored(id) EXCEPT !.contours = map]
<1>1. blob.fits = Stored(id).fits
  OBVIOUS
<1>2. id \in DOMAIN storage => blob.fits = storage[id].fits
  BY <1>1 DEF Stored
<1>. HIDE DEF blob
<1>3. FitsCovers(Insert(storage, id, blob), s)
  BY <1>2 DEF FitsCovers, Insert
<1>. QED
  BY <1>3 DEF blob

\* While the clusterer runs, every window in Redis is open in it, with no event
\* that it has not there.
LEMMA RedisBehind ==
  ASSUME OneClusterer, Base, Follows, failures = 0,
         NEW i \in Instance, pc[i] # "down", NEW id \in DOMAIN redis
  PROVE  \E t \in DOMAIN creator[i].superevents :
           /\ OpenAt(i, id, t)
           /\ redis[id].id = id /\ redis[id].t_0 = t
           /\ Range(redis[id].g_events) \subseteq Range(creator[i].superevents[t].g_events)
<1>1. FollowsAt(i) /\ GoodCreator(creator[i]) /\ pc[i] \in Label
  BY DEF Follows, Base, Windows, Shape
<1>2. PICK c : /\ GoodCreator(c) /\ redis = SaveToRedis(c)
               /\ \A t \in DOMAIN c.superevents :
                    /\ t \in DOMAIN creator[i].superevents
                    /\ creator[i].times[t] = c.times[t]
                    /\ Range(c.superevents[t].g_events) \subseteq
                         Range(creator[i].superevents[t].g_events)
  <2>1. CASE pc[i] \in {"idle", "quiet", "drain"}
    BY <1>1, <2>1 DEF FollowsAt
  <2>2. CASE OnEvent(i)
    <3>1. PICK c : /\ GoodCreator(c) /\ redis = SaveToRedis(c)
                   /\ creator[i] = Process(c, update[i].event)
      BY <1>1, <2>2 DEF FollowsAt
    <3>2. update[i].event \in Event
      BY <2>2, UpdateTypes
    <3> DEFINE d == Process(c, update[i].event)
    <3>3. \A t \in DOMAIN c.superevents :
            /\ t \in DOMAIN d.superevents /\ d.times[t] = c.times[t]
            /\ Range(c.superevents[t].g_events) \subseteq Range(d.superevents[t].g_events)
      BY <3>1, <3>2, ProcessKeepsWindows
    <3>4. creator[i] = d
      BY <3>1
    <3>. HIDE DEF d
    <3>. QED
      BY <3>1, <3>3, <3>4
  <2>3. CASE pc[i] = "result" \/ OnMap(i)
    <3>1. PICK c : GoodCreator(c) /\ redis = SaveToRedis(c) /\ SameWindows(c, creator[i])
      BY <1>1, <2>3 DEF FollowsAt
    <3>. QED
      BY <3>1 DEF SameWindows
  <2>. QED
    BY <1>1, <2>1, <2>2, <2>3 DEF OnEvent, OnMap, Label
<1>3. PICK t \in DOMAIN c.superevents :
        /\ id = c.times[t] /\ redis[id] = c.superevents[t]
        /\ redis[id].id = id /\ redis[id].t_0 = t
  BY <1>2, SavedAreOpen
<1>. QED
  BY <1>2, <1>3 DEF OpenAt


\* A failure is never forgotten.
LEMMA FailuresCount ==
  ASSUME Base, [Next]_vars
  PROVE  failures' = 0 => failures = 0
<1>1. failures \in Nat
  BY DEF Base, Shape
<1>2. failures' = failures \/ failures' = failures + 1
  <2>1. ASSUME NEW i \in Instance, Start(i) \/ Crash(i) \/ Stop(i) \/ Run(i)
        PROVE  failures' = failures \/ failures' = failures + 1
    <3>1. ASSUME Run(i) PROVE failures' = failures \/ failures' = failures + 1
      BY <3>1
      DEF Run, HandleEvent, Emit, ArchiveSuperevent, Localize, RecordRequest, Persist, Drain,
          ReceiveResult, ApplyResult, PatchCenter, StoreFits, StoreContours, PersistMaps,
          QuietExit, DeadlineExit, Lose, Effect
    <3>. QED
      BY <2>1, <3>1 DEF Start, Crash, Stop, Lose, Effect
  <2>. QED
    BY <2>1 DEF Next, Serve, ServiceRestart, Effect, vars
<1>. QED
  BY <1>1, <1>2

\* What Redis holds is covered as soon as every superevent of the creator saved is.
LEMMA CoveredWhenSaved ==
  ASSUME NEW c, GoodCreator(c), NEW docs, NEW stored, NEW saved, saved = SaveToRedis(c)
  PROVE  (\A id \in DOMAIN saved : DocCovers(docs, saved[id]) /\ FitsCovers(stored, saved[id]))
         <=> \A t \in DOMAIN c.superevents : /\ DocCovers(docs, c.superevents[t])
                                            /\ FitsCovers(stored, c.superevents[t])
<1>1. /\ DOMAIN saved = {c.times[t] : t \in DOMAIN c.superevents}
      /\ \A t \in DOMAIN c.superevents : saved[c.times[t]] = c.superevents[t]
  BY SaveKeepsAll
<1> DEFINE ok(s) == DocCovers(docs, s) /\ FitsCovers(stored, s)
<1>. HIDE DEF ok
<1>2. ASSUME NEW id \in DOMAIN saved
      PROVE  \E t \in DOMAIN c.superevents : saved[id] = c.superevents[t]
  BY SavedAreOpen
<1>3. ASSUME NEW t \in DOMAIN c.superevents
      PROVE  \E id \in DOMAIN saved : saved[id] = c.superevents[t]
  <2>1. c.times[t] \in DOMAIN saved
    BY <1>1
  <2>. QED
    BY <1>1, <2>1
<1>4. (\A id \in DOMAIN saved : ok(saved[id])) <=> \A t \in DOMAIN c.superevents : ok(c.superevents[t])
  BY <1>2, <1>3
<1>. QED
  BY <1>4 DEF ok

\* MongoDB and the storage keep ahead of Redis, step by step.
LEMMA CoveredKept ==
  ASSUME OneClusterer, Base, Follows, Covered, [Next]_vars
  PROVE  Covered'
<1> SUFFICES ASSUME failures' = 0 PROVE RedisCovered' /\ \A i \in Instance : CoveredAt(i)'
  BY DEF Covered
<1>0. /\ failures = 0 /\ RedisCovered
      /\ \A i \in Instance : /\ CoveredAt(i) /\ GoodCreator(creator[i]) /\ UpdateOK(i)
                            /\ pc[i] \in Label
  BY FailuresCount DEF Covered, Base, Windows, Updates, Shape
<1>a. ASSUME NEW i \in Instance, CoveredAt(i)' PROVE \A j \in Instance : CoveredAt(j)'
  BY <1>a DEF OneClusterer
<1>b. ASSUME UNCHANGED redis, archive'.superevents = archive.superevents, UNCHANGED storage
      PROVE  RedisCovered'
  BY <1>0, <1>b DEF RedisCovered
<1>c. ASSUME UNCHANGED <<creator, update, storage>>,
             archive'.superevents = archive.superevents, NEW i \in Instance,
             OnEvent(i) /\ pc[i] \in {"emit", "archive"} =>
               (OnEvent(i) /\ pc[i] \in {"emit", "archive"})',
             (OnMap(i) /\ pc[i] # "contours")' <=> (OnMap(i) /\ pc[i] # "contours"),
             OnMap(i)' <=> OnMap(i)
      PROVE  CoveredAt(i)'
  BY <1>0, <1>c DEF CoveredAt, OpenAt
<1>1. ASSUME NEW i \in Instance, Start(i)
      PROVE  RedisCovered' /\ CoveredAt(i)'
  <2>1. /\ creator'[i] = LoadFromRedis(redis) /\ pc'[i] = "idle"
        /\ UNCHANGED <<redis, archive, storage>>
    BY <1>1, StartStep DEF Done, Moves, external
  <2>2. PICK c : GoodCreator(c) /\ redis = SaveToRedis(c)
    BY DEF Base, Windows
  <2>3. creator'[i].superevents = c.superevents
    BY <2>1, <2>2, LoadAfterSave
  <2>4. \A t \in DOMAIN c.superevents : /\ DocCovers(archive.superevents, c.superevents[t])
                                       /\ FitsCovers(storage, c.superevents[t])
    BY <1>0, <2>2, CoveredWhenSaved DEF RedisCovered
  <2>5. CoveredAt(i)'
    BY <2>1, <2>3, <2>4 DEF CoveredAt, OnMap
  <2>. QED
    BY <1>b, <2>1, <2>5
<1>2. ASSUME NEW i \in Instance, Lose(i)
      PROVE  RedisCovered' /\ CoveredAt(i)'
  <2>1. /\ creator'[i] = EmptyCreator /\ pc'[i] = "down"
        /\ UNCHANGED <<redis, archive, storage>>
    BY <1>2, LoseStep DEF Moves, external
  <2>2. DOMAIN EmptyCreator.superevents = {}
    BY DEF EmptyCreator
  <2>3. CoveredAt(i)'
    BY <2>1, <2>2 DEF CoveredAt, OnMap
  <2>. QED
    BY <1>b, <2>1, <2>3
<1>3. ASSUME NEW i \in Instance,
             Stop(i) \/ Emit(i) \/ Localize(i) \/ RecordRequest(i) \/ Drain(i) \/ ReceiveResult(i)
      PROVE  RedisCovered' /\ CoveredAt(i)'
  <2>1. /\ UNCHANGED <<creator, update, storage, redis>>
        /\ archive'.superevents = archive.superevents
    BY <1>3, StopStep, EmitStep, LocalizeStep, RecordStep, TakeStep DEF local, external
  <2>2. \/ pc[i] = "emit" /\ pc'[i] = "archive"
        \/ /\ pc[i] \in {"idle", "quiet", "drain", "localize", "record"}
           /\ pc'[i] \in {"quiet", "idle", "result", "record", "persist"}
    BY <1>3, StopStep, EmitStep, LocalizeStep, RecordStep, TakeStep DEF Moves
  <2>3. CoveredAt(i)'
    BY <1>c, <2>1, <2>2 DEF OnEvent, OnMap
  <2>. QED
    BY <1>b, <2>1, <2>3
<1>4. ASSUME NEW i \in Instance, NEW e \in Event, HandleEvent(i, e)
      PROVE  RedisCovered' /\ CoveredAt(i)'
  <2> DEFINE c == creator[i]
             d == Process(c, e)
             u == Update(c, e)
  <2>0. GoodCreator(c) /\ GoodCreator(d)
    BY <1>0, ProcessKeepsGood
  <2>1. PICK h \in DOMAIN d.superevents :
          /\ \A t \in DOMAIN d.superevents : t \in DOMAIN c.superevents \/ t = h
          /\ \A t \in DOMAIN c.superevents \ {h} : /\ d.superevents[t] = c.superevents[t]
                                                  /\ d.times[t] = c.times[t]
          /\ d.times[h] = u.id
          /\ u.action \in {"created", "preferred_updated", "skipped"}
          /\ h \in DOMAIN c.superevents => /\ d.times[h] = c.times[h]
                                           /\ d.superevents[h].skymap = c.superevents[h].skymap
          /\ h \notin DOMAIN c.superevents => d.superevents[h].skymap = NoSkymap
    BY <2>0, ProcessStep
  <2>. HIDE DEF u, d
  <2>2. /\ creator'[i] = d /\ update'[i] = u /\ pc'[i] = "emit" /\ pc[i] = "idle"
        /\ UNCHANGED <<redis, storage>> /\ archive'.superevents = archive.superevents
    BY <1>4, HandleStep DEF Moves, u, d
  <2>3. \A t \in DOMAIN c.superevents : /\ DocCovers(archive.superevents, c.superevents[t])
                                       /\ FitsCovers(storage, c.superevents[t])
    BY <1>0, <2>2 DEF CoveredAt, OnEvent, OnMap
  <2>4. ASSUME NEW t \in DOMAIN d.superevents
        PROVE  /\ d.times[t] # u.id => DocCovers(archive.superevents, d.superevents[t])
               /\ FitsCovers(storage, d.superevents[t])
    <3>1. CASE t = h
      <4>1. h \in DOMAIN c.superevents => d.superevents[h].id = c.superevents[h].id
        BY <2>0, <2>1 DEF GoodCreator
      <4>. QED
        BY <2>1, <2>3, <3>1, <4>1 DEF FitsCovers
    <3>2. CASE t # h
      BY <2>1, <2>3, <3>2
    <3>. QED
      BY <3>1, <3>2
  <2>5. OnEvent(i)' /\ ~ OnMap(i)'
    BY <2>1, <2>2 DEF OnEvent, OnMap
  <2>6. CoveredAt(i)'
    BY <2>2, <2>4, <2>5 DEF CoveredAt
  <2>. QED
    BY <1>b, <2>2, <2>6
<1>5. ASSUME NEW i \in Instance, ArchiveSuperevent(i)
      PROVE  RedisCovered' /\ CoveredAt(i)'
  <2> DEFINE id == update[i].id
             held == Held(i, id)
             docs == Insert(archive.superevents, id, SupereventDoc(held))
  <2>1. /\ archive'.superevents = docs /\ pc[i] = "archive"
        /\ pc'[i] \in {"center", "localize"}
        /\ UNCHANGED <<creator, update, redis, storage>>
        /\ OnMap(i) <=> OnMap(i)'
    BY <1>5, ArchiveStep DEF Done, Moves, local, OnMap
  <2>2. PICK t0 \in DOMAIN creator[i].superevents : OpenAt(i, id, t0)
    BY <1>0, <2>1 DEF UpdateOK, OnEvent, OnMap
  <2>3. held = creator[i].superevents[t0] /\ held.t_0 = t0 /\ held.id = id
    BY <1>0, <2>2, HeldIsOpen
  <2>4. \A t \in DOMAIN creator[i].superevents :
          /\ creator[i].superevents[t].id = creator[i].times[t]
          /\ creator[i].times[t] = id => t = t0
    BY <1>0, <2>2 DEF GoodCreator, OpenAt
  <2>. HIDE DEF held
  <2>5. ASSUME NEW t \in DOMAIN creator[i].superevents
        PROVE  DocCovers(docs, creator[i].superevents[t])
    <3> DEFINE s == creator[i].superevents[t]
    <3>1. s.id # id => DocCovers(archive.superevents, s)
      BY <1>0, <2>4 DEF CoveredAt
    <3>2. s.id = id => s.t_0 = held.t_0 /\ Range(s.g_events) \subseteq Range(held.g_events)
      BY <2>3, <2>4
    <3>. QED
      BY <3>1, <3>2, DocsInserted
  <2>6. ASSUME NEW k \in DOMAIN redis
        PROVE  DocCovers(docs, redis[k])
    <3> DEFINE s == redis[k]
    <3>1. PICK t \in DOMAIN creator[i].superevents :
            /\ OpenAt(i, k, t) /\ s.id = k /\ s.t_0 = t
            /\ Range(s.g_events) \subseteq Range(creator[i].superevents[t].g_events)
      BY <1>0, <2>1, RedisBehind
    <3>2. s.id # id => DocCovers(archive.superevents, s)
      BY <1>0 DEF RedisCovered
    <3>3. s.id = id => s.t_0 = held.t_0 /\ Range(s.g_events) \subseteq Range(held.g_events)
      BY <2>3, <2>4, <3>1 DEF OpenAt
    <3>. QED
      BY <3>2, <3>3, DocsInserted
  <2>. HIDE DEF docs
  <2>7. RedisCovered'
    BY <1>0, <2>1, <2>6 DEF RedisCovered
  <2>8. CoveredAt(i)'
    BY <1>0, <2>1, <2>5 DEF CoveredAt, OpenAt, OnEvent
  <2>. QED
    BY <2>7, <2>8
<1>6. ASSUME NEW i \in Instance, Persist(i) \/ PersistMaps(i)
      PROVE  RedisCovered' /\ CoveredAt(i)'
  <2>1. /\ redis' = SaveToRedis(creator[i]) /\ creator' = creator
        /\ pc[i] \in {"persist", "result"} /\ pc'[i] \in {"drain", "idle", "quiet"}
        /\ UNCHANGED <<archive, storage>>
    BY <1>6, PersistStep, PersistMapsStep DEF Done, local
  <2>2. \A t \in DOMAIN creator[i].superevents :
          /\ DocCovers(archive.superevents, creator[i].superevents[t])
          /\ FitsCovers(storage, creator[i].superevents[t])
    BY <1>0, <2>1 DEF CoveredAt, OnMap
  <2>3. RedisCovered'
    BY <1>0, <2>1, <2>2, CoveredWhenSaved DEF RedisCovered
  <2>4. CoveredAt(i)'
    BY <2>1, <2>2 DEF CoveredAt, OnMap
  <2>. QED
    BY <2>3, <2>4
<1>7. ASSUME NEW i \in Instance, ApplyResult(i)
      PROVE  RedisCovered' /\ CoveredAt(i)'
  <2> DEFINE r == taken[i][1]
             c == creator[i]
             id == r.superevent_id
  <2>1. /\ pc[i] = "result" /\ UNCHANGED <<redis, storage>>
        /\ archive'.superevents = archive.superevents /\ r.event \in Event
        /\ \/ /\ pc'[i] = "emit" /\ creator'[i] = AttachSkymap(c, id, r.event)
              /\ update'[i] = [action |-> "skymap_attached", id |-> id]
           \/ pc'[i] = "result" /\ UNCHANGED <<creator, update>>
    BY <1>7, ApplyStep DEF LocalizeResult
  <2>2. CASE pc'[i] = "result" /\ UNCHANGED <<creator, update>>
    BY <1>b, <1>c, <2>1, <2>2 DEF OnEvent, OnMap
  <2>3. CASE /\ pc'[i] = "emit" /\ creator'[i] = AttachSkymap(c, id, r.event)
             /\ update'[i] = [action |-> "skymap_attached", id |-> id]
    <3> DEFINE d == AttachSkymap(c, id, r.event)
               D == DOMAIN c.superevents
    <3>0. r.event \in Event /\ GoodCreator(c)
      BY <1>0, <2>1
    <3>1. /\ d.times = c.times /\ DOMAIN d.superevents = D
          /\ \A t \in D :
               /\ d.superevents[t].id = c.superevents[t].id
               /\ d.superevents[t].t_0 = c.superevents[t].t_0
               /\ d.superevents[t].g_events = c.superevents[t].g_events
               /\ c.times[t] = id => d.superevents[t].skymap = r.event
               /\ c.times[t] # id => d.superevents[t] = c.superevents[t]
      BY <3>0, AttachStep
    <3>. HIDE DEF d, r
    <3>2. creator'[i] = d /\ update'[i].action = "skymap_attached" /\ update'[i].id = id
      BY <2>3 DEF d
    <3>3. \A t \in D : DocCovers(archive.superevents, c.superevents[t])
                      /\ FitsCovers(storage, c.superevents[t])
      BY <1>0, <2>1 DEF CoveredAt, OnEvent, OnMap
    <3>4. \A t \in D : DocCovers(archive.superevents, d.superevents[t])
      BY <3>1, <3>3 DEF DocCovers
    <3>5. \A t \in D : c.times[t] # id => FitsCovers(storage, d.superevents[t])
      BY <3>1, <3>3
    <3>6. \A t \in D : c.times[t] = id => d.superevents[t].skymap # NoSkymap
      BY <3>0, <3>1, SkymapAssumption
    <3>7. CoveredAt(i)'
      BY <2>1, <2>3, <3>1, <3>2, <3>4, <3>5, <3>6 DEF CoveredAt, OpenAt, OnMap
    <3>. QED
      BY <1>b, <2>1, <3>7
  <2>. QED
    BY <2>1, <2>2, <2>3
<1>8. ASSUME NEW i \in Instance, PatchCenter(i)
      PROVE  RedisCovered' /\ CoveredAt(i)'
  <2>1. /\ UNCHANGED <<creator, update, redis, storage>>
        /\ pc[i] = "center" /\ pc'[i] = "blob"
    BY <1>8, CenterStep DEF Moves, local
  <2>2. ASSUME NEW s, DocCovers(archive.superevents, s)
        PROVE  DocCovers(archive'.superevents, s)
    BY <1>8, <2>2, CenterStep, DocsPatched
  <2>3. RedisCovered'
    BY <1>0, <2>1, <2>2 DEF RedisCovered
  <2>4. CoveredAt(i)'
    BY <1>0, <2>1, <2>2 DEF CoveredAt, OnEvent, OnMap, OpenAt
  <2>. QED
    BY <2>3, <2>4
<1>9. ASSUME NEW i \in Instance, StoreFits(i)
      PROVE  RedisCovered' /\ CoveredAt(i)'
  <2> DEFINE id == update[i].id
             map == Held(i, id).skymap
  <2>1. /\ storage' = Insert(storage, id, [Stored(id) EXCEPT !.fits = map])
        /\ DOMAIN Stored(id) = {"fits", "contours"}
        /\ pc[i] = "blob" /\ pc'[i] = "contours"
        /\ UNCHANGED <<creator, update, redis, archive>>
    BY <1>9, FitsStep DEF Done, Moves, local
  <2>2. PICK t0 \in DOMAIN creator[i].superevents : OpenAt(i, id, t0)
    BY <1>0, <2>1 DEF UpdateOK, OnMap
  <2>3. Held(i, id) = creator[i].superevents[t0]
    BY <1>0, <2>2, HeldIsOpen
  <2>4. map # NoSkymap
    BY <1>0, <2>1, <2>2, <2>3 DEF CoveredAt, OnMap
  <2>. HIDE DEF map
  <2>5. ASSUME NEW s, s.id # id => FitsCovers(storage, s)
        PROVE  FitsCovers(storage', s)
    BY <2>1, <2>4, <2>5, FitsStored
  <2>6. \A t \in DOMAIN creator[i].superevents :
          creator[i].superevents[t].id = creator[i].times[t]
    BY <1>0 DEF GoodCreator
  <2>7. RedisCovered'
    BY <1>0, <2>1, <2>5 DEF RedisCovered
  <2>8. CoveredAt(i)'
    BY <1>0, <2>1, <2>5, <2>6 DEF CoveredAt, OnEvent, OnMap, OpenAt
  <2>. QED
    BY <2>7, <2>8
<1>10. ASSUME NEW i \in Instance, StoreContours(i)
       PROVE  RedisCovered' /\ CoveredAt(i)'
  <2> DEFINE id == update[i].id
             map == Held(i, id).skymap
  <2>1. /\ storage' = Insert(storage, id, [Stored(id) EXCEPT !.contours = map])
        /\ DOMAIN Stored(id) = {"fits", "contours"}
        /\ pc[i] = "contours" /\ pc'[i] = "result"
        /\ UNCHANGED <<creator, redis, archive>>
    BY <1>10, ContoursStep DEF Done, Moves
  <2>2. ASSUME NEW s, FitsCovers(storage, s) PROVE FitsCovers(storage', s)
    BY <2>1, <2>2, ContoursStored
  <2>3. RedisCovered'
    BY <1>0, <2>1, <2>2 DEF RedisCovered
  <2>4. CoveredAt(i)'
    BY <1>0, <2>1, <2>2 DEF CoveredAt, OnEvent, OnMap
  <2>. QED
    BY <2>3, <2>4
<1>11. ASSUME NEW id \in DOMAIN requests, Serve(id) \/ ServiceRestart(id)
       PROVE  RedisCovered' /\ \A i \in Instance : CoveredAt(i)'
  <2>1. UNCHANGED <<pc, creator, update, redis, archive, storage>>
    BY <1>11, ServeStep, RestartStep DEF local, external
  <2>. QED
    BY <1>0, <2>1 DEF RedisCovered, CoveredAt, OnEvent, OnMap, OpenAt
<1>12. CASE UNCHANGED vars
  BY <1>0, <1>12
  DEF RedisCovered, CoveredAt, OnEvent, OnMap, OpenAt, vars, local, external
<1>. QED
  BY <1>a, <1>1, <1>2, <1>3, <1>4, <1>5, <1>6, <1>7, <1>8, <1>9, <1>10, <1>11, <1>12
  DEF Next, Run, Crash, QuietExit, DeadlineExit

\* Redis never gets ahead of the history: while no write has failed, MongoDB has
\* a document, and the storage the FITS, of everything Redis holds, also after a
\* crash between any two of the writes.
THEOREM ArchiveKeepsAhead ==
  ASSUME OneClusterer
  PROVE  Spec => []ArchiveCoversRedis
<1>1. Init => Covered
  BY DEF Init, Covered, RedisCovered, CoveredAt, OnMap, EmptyCreator
<1>2. Base /\ Follows /\ [Next]_vars => Follows'
  BY FollowsKept
<1>3. Base /\ Follows /\ Covered /\ [Next]_vars => Covered'
  BY CoveredKept
<1>4. Base /\ Covered => ArchiveCoversRedis
  <2>0. Base => \A id \in DOMAIN redis : redis[id].id = id
    <3> SUFFICES ASSUME Base, NEW id \in DOMAIN redis PROVE redis[id].id = id
      OBVIOUS
    <3>1. PICK c : GoodCreator(c) /\ redis = SaveToRedis(c)
      BY DEF Base, Windows
    <3>. QED
      BY <3>1, SavedAreOpen
  <2> SUFFICES ASSUME RedisCovered, NEW id \in DOMAIN redis, redis[id].id = id
               PROVE  /\ id \in DOMAIN archive.superevents
                      /\ archive.superevents[id].t_0 = redis[id].t_0
                      /\ Range(redis[id].g_events) \subseteq Range(archive.superevents[id].g_events)
                      /\ redis[id].skymap # NoSkymap => Stored(id).fits # NoSkymap
    BY <2>0 DEF Covered, ArchiveCoversRedis
  <2>. QED
    BY DEF RedisCovered, DocCovers, FitsCovers, Stored
<1>. QED
  BY <1>1, <1>2, <1>3, <1>4, FollowsStarts, ClustererInvariant, PTL DEF Spec


-------------------------------------------------------------------------------
(* One clusterer that starts once. *)

\* Before its only start nothing is anywhere, so it starts with nothing open.
LEMMA FirstStart ==
  ASSUME StartsOnce, Base, Pristine, NEW i \in Instance, Start(i)
  PROVE  /\ DOMAIN creator'[i].superevents = {}
         /\ DOMAIN redis' = {} /\ DOMAIN storage' = {} /\ announced' = {}
         /\ DOMAIN requests' = {} /\ results' = <<>>
<1>1. starts[i] = 0
  <2>1. starts[i] \in Nat /\ starts[i] < MaxStarts
    BY StartStep DEF Base, Shape
  <2>. QED
    BY <2>1, BoundAssumption DEF StartsOnce
<1>2. /\ DOMAIN redis = {} /\ DOMAIN storage = {} /\ announced = {}
      /\ DOMAIN requests = {} /\ results = <<>>
  BY <1>1 DEF Pristine, PristineAt
<1>3. PICK c : GoodCreator(c) /\ redis = SaveToRedis(c)
  BY DEF Base, Windows
<1>4. DOMAIN c.superevents = {}
  <2>1. DOMAIN SaveToRedis(c) = {c.times[t] : t \in DOMAIN c.superevents}
    BY <1>3, SaveKeepsAll
  <2>. QED
    BY <1>2, <1>3, <2>1
<1>5. LoadFromRedis(redis).superevents = c.superevents
  BY <1>3, LoadAfterSave
<1>6. DOMAIN EmptyCreator.superevents = {}
  BY DEF EmptyCreator
<1>7. DOMAIN creator'[i].superevents = {}
  BY <1>4, <1>5, <1>6, StartStep
<1>8. UNCHANGED <<redis, storage, announced, requests, results>>
  BY StartStep DEF external, topics
<1>. QED
  BY <1>2, <1>7, <1>8

\* Every step of an instance but its start is one of a running instance.
LEMMA RunsWhenUp ==
  ASSUME Base, NEW i \in Instance, Crash(i) \/ Stop(i) \/ Run(i)
  PROVE  pc[i] # "down" /\ starts' = starts
BY DEF Crash, Stop, Run, HandleEvent, Emit, ArchiveSuperevent, Localize, RecordRequest, Persist,
       Drain, ReceiveResult, ApplyResult, PatchCenter, StoreFits, StoreContours, PersistMaps,
       QuietExit, DeadlineExit, Lose, local

LEMMA PristineKept ==
  ASSUME StartsOnce, Base, Pristine, [Next]_vars
  PROVE  Pristine'
<1>1. ASSUME NEW i \in Instance, PristineAt(i)' PROVE Pristine'
  BY <1>1 DEF StartsOnce, OneClusterer, Pristine
<1>2. ASSUME NEW i \in Instance, Start(i) PROVE Pristine'
  <2>1. starts'[i] # 0
    BY <1>2, StartStep DEF Base, Shape
  <2>. QED
    BY <1>1, <2>1 DEF PristineAt
<1>3. ASSUME NEW i \in Instance, Crash(i) \/ Stop(i) \/ Run(i) PROVE Pristine'
  <2>1. starts'[i] # 0
    BY <1>3, RunsWhenUp DEF Pristine, PristineAt
  <2>. QED
    BY <1>1, <2>1 DEF PristineAt
<1>4. ASSUME NEW id \in DOMAIN requests, Serve(id) \/ ServiceRestart(id) PROVE Pristine'
  <2>1. \A i \in Instance : starts[i] # 0
    BY DEF Pristine, PristineAt
  <2>2. starts' = starts
    BY <1>4 DEF Serve, ServiceRestart, local
  <2>. QED
    BY <2>1, <2>2 DEF Pristine, PristineAt
<1>5. CASE UNCHANGED vars
  BY <1>5 DEF Pristine, PristineAt, vars, local, external, topics
<1>. QED
  BY <1>2, <1>3, <1>4, <1>5 DEF Next

\* While an instance runs, its windows stay open, with their ids and events.
Grows(i) ==
  \A t \in DOMAIN creator[i].superevents :
    /\ t \in DOMAIN creator'[i].superevents
    /\ creator'[i].times[t] = creator[i].times[t]
    /\ Range(creator[i].superevents[t].g_events) \subseteq Range(creator'[i].superevents[t].g_events)

LEMMA CreatorGrows ==
  ASSUME OneClusterer, Base, [Next]_vars, NEW i \in Instance, pc[i] # "down", pc'[i] # "down"
  PROVE  Grows(i)
<1>0. GoodCreator(creator[i])
  BY DEF Base, Windows
<1>1. CASE creator'[i] = creator[i]
  BY <1>1 DEF Grows
<1>2. ASSUME NEW e \in Event, HandleEvent(i, e) PROVE Grows(i)
  <2>1. creator'[i] = Process(creator[i], e)
    BY <1>2, HandleStep
  <2>2. ASSUME NEW t \in DOMAIN creator[i].superevents
        PROVE  /\ t \in DOMAIN creator'[i].superevents
               /\ creator'[i].times[t] = creator[i].times[t]
               /\ Range(creator[i].superevents[t].g_events) \subseteq
                    Range(creator'[i].superevents[t].g_events)
    BY <1>0, <2>1, ProcessKeepsWindows
  <2>. QED
    BY <2>2 DEF Grows
<1>3. ASSUME ApplyResult(i) PROVE Grows(i)
  <2> DEFINE r == taken[i][1]
             d == AttachSkymap(creator[i], r.superevent_id, r.event)
  <2>1. r.event \in Event /\ (creator'[i] = d \/ creator' = creator)
    BY <1>3, ApplyStep DEF LocalizeResult
  <2>2. /\ d.times = creator[i].times
        /\ DOMAIN d.superevents = DOMAIN creator[i].superevents
        /\ \A t \in DOMAIN creator[i].superevents :
             d.superevents[t].g_events = creator[i].superevents[t].g_events
    BY <1>0, <2>1, AttachStep
  <2>. HIDE DEF d
  <2>. QED
    BY <2>1, <2>2 DEF Grows
<1>4. \/ creator'[i] = creator[i]
      \/ \E e \in Event : HandleEvent(i, e)
      \/ ApplyResult(i)
  <2>1. ASSUME Start(i) PROVE FALSE
    BY <2>1, StartStep
  <2>2. ASSUME Lose(i) PROVE FALSE
    BY <2>2, LoseStep DEF Moves
  <2>3. ASSUME PersistMaps(i) PROVE creator'[i] = creator[i]
    BY <2>3, PersistMapsStep DEF local
  <2>4. ASSUME Run(i)
        PROVE  \/ creator'[i] = creator[i] \/ Lose(i)
               \/ \E e \in Event : HandleEvent(i, e)
               \/ ApplyResult(i)
    BY <2>3, <2>4
    DEF Run, Emit, ArchiveSuperevent, Localize, RecordRequest, Persist, Drain, ReceiveResult,
        PatchCenter, StoreFits, StoreContours, QuietExit, DeadlineExit, local
  <2>5. ASSUME NEW j \in Instance, Start(j) \/ Crash(j) \/ Stop(j) \/ Run(j)
        PROVE  Start(i) \/ Crash(i) \/ Stop(i) \/ Run(i)
    <3>1. j = i
      BY DEF OneClusterer
    <3>. QED
      BY <2>5, <3>1
  <2>. QED
    BY <2>1, <2>2, <2>4, <2>5
    DEF Next, Crash, Stop, Serve, ServiceRestart, vars, local
<1>. QED
  BY <1>1, <1>2, <1>3, <1>4

\* What is recorded stays recorded, what is open stays open.
LEMMA RecordedStays ==
  ASSUME NEW i \in Instance, Grows(i), NEW id, NEW e, Recorded(i, id, e)
  PROVE  RecordedIn(creator'[i], id, e)
BY DEF Grows, Recorded, RecordedIn

LEMMA OpenStays ==
  ASSUME NEW i \in Instance, Grows(i), NEW id, NEW t, OpenAt(i, id, t)
  PROVE  OpenAt(i, id, t)'
BY DEF Grows, OpenAt


\* What an event asks a localization for is recorded where it is asked for.
LEMMA UpdateRecorded ==
  ASSUME Base, NEW i \in Instance, OnEvent(i), Requested(update[i])
  PROVE  Recorded(i, update[i].id, update[i].event)
<1>1. PICK t \in DOMAIN creator[i].superevents :
        /\ OpenAt(i, update[i].id, t)
        /\ creator[i].superevents[t].preferred_event = update[i].event
  BY DEF Base, Updates, UpdateOK
<1>2. GoodSuperevent(t, creator[i].superevents[t])
  BY DEF Base, Windows, GoodCreator
<1>3. creator[i].superevents[t].preferred_event \in Range(creator[i].superevents[t].g_events)
  BY <1>2 DEF GoodSuperevent, Range
<1>. QED
  BY <1>1, <1>3 DEF Recorded, RecordedIn, OpenAt

\* A step asks for no localization but that of the event being handled, and the
\* bayestar-service answers no request but the next of a key.
LEMMA NewRecords ==
  ASSUME Base, [Next]_vars
  PROVE  /\ \A id \in DOMAIN requests' : \A n \in DOMAIN requests'[id] :
              \/ /\ id \in DOMAIN requests /\ n \in DOMAIN requests[id]
                 /\ requests'[id][n] = requests[id][n]
              \/ \E i \in Instance : /\ OnEvent(i) /\ Requested(update[i])
                                     /\ id = update[i].id /\ requests'[id][n] = update[i].event
         /\ \A n \in DOMAIN results' :
              \/ n \in DOMAIN results /\ results'[n] = results[n]
              \/ \E id \in DOMAIN requests : \E k \in DOMAIN requests[id] :
                   /\ results'[n].superevent_id = id
                   /\ results'[n].event = requests[id][k]
<1>0. requests \in [DOMAIN requests -> Seq(Event)] /\ results \in Seq(LocalizeResult)
  BY DEF Base, Shape
<1>1. ASSUME NEW i \in Instance, Localize(i), requests' # requests,
             NEW id \in DOMAIN requests', NEW n \in DOMAIN requests'[id]
      PROVE  \/ /\ id \in DOMAIN requests /\ n \in DOMAIN requests[id]
                /\ requests'[id][n] = requests[id][n]
             \/ /\ OnEvent(i) /\ Requested(update[i])
                /\ id = update[i].id /\ requests'[id][n] = update[i].event
  <2> DEFINE u == update[i]
             q == Append(Queued(u.id), u.event)
  <2>1. /\ Requested(u) /\ OnEvent(i) /\ u.event \in Event
        /\ requests' = Insert(requests, u.id, q)
    BY <1>1, LocalizeStep, UpdateTypes DEF OnEvent
  <2>2. Queued(u.id) \in Seq(Event)
    BY <1>0 DEF Queued
  <2>3. /\ DOMAIN q = 1 .. Len(Queued(u.id)) + 1
        /\ \A k \in 1 .. Len(Queued(u.id)) : q[k] = Queued(u.id)[k]
        /\ q[Len(Queued(u.id)) + 1] = u.event
        /\ DOMAIN Queued(u.id) = 1 .. Len(Queued(u.id)) /\ Len(Queued(u.id)) \in Nat
    BY <2>1, <2>2
  <2>. HIDE DEF q
  <2>4. CASE id # u.id
    BY <1>1, <2>1, <2>4 DEF Insert
  <2>5. CASE id = u.id
    <3>1. requests'[id] = q
      BY <2>1, <2>5 DEF Insert
    <3>2. n = Len(Queued(id)) + 1 \/ n \in DOMAIN Queued(id)
      BY <1>1, <2>3, <2>5, <3>1
    <3>3. n \in DOMAIN Queued(id) => id \in DOMAIN requests /\ Queued(id) = requests[id]
      BY DEF Queued
    <3>. QED
      BY <2>1, <2>3, <2>5, <3>1, <3>2, <3>3
  <2>. QED
    BY <2>4, <2>5
<1>2. ASSUME NEW id \in DOMAIN requests, Serve(id), NEW n \in DOMAIN results'
      PROVE  \/ n \in DOMAIN results /\ results'[n] = results[n]
             \/ \E k \in DOMAIN requests[id] : /\ results'[n].superevent_id = id
                                               /\ results'[n].event = requests[id][k]
  <2> DEFINE k == Consumed(id) + 1
  <2>1. k \in DOMAIN requests[id]
    BY <1>0, <1>2, ServeStep
  <2>2. PICK ok \in BOOLEAN :
          results' = Append(results, [ superevent_id |-> id, ok |-> ok,
                                       event |-> requests[id][k] ])
    BY <1>2, ServeStep
  <2>3. n \in 1 .. Len(results) + 1 /\ DOMAIN results = 1 .. Len(results)
    BY <1>0, <1>2, <2>2
  <2>4. CASE n \in 1 .. Len(results)
    BY <1>0, <2>2, <2>3, <2>4
  <2>5. CASE n = Len(results) + 1
    <3>1. results'[n] = [superevent_id |-> id, ok |-> ok, event |-> requests[id][k]]
      BY <1>0, <2>2, <2>5
    <3>. QED
      BY <2>1, <3>1
  <2>. QED
    BY <1>0, <2>3, <2>4, <2>5
<1>3. /\ requests' = requests \/ \E i \in Instance : Localize(i)
      /\ results' = results \/ \E id \in DOMAIN requests : Serve(id)
  <2>1. ASSUME NEW i \in Instance, Start(i) \/ Crash(i) \/ Stop(i) \/ Run(i)
        PROVE  (requests' = requests \/ Localize(i)) /\ results' = results
    BY <2>1
    DEF Run, Start, Crash, Stop, Lose, HandleEvent, Emit, ArchiveSuperevent, Localize,
        RecordRequest, Persist, Drain, ReceiveResult, ApplyResult, PatchCenter, StoreFits,
        StoreContours, PersistMaps, QuietExit, DeadlineExit, topics
  <2>. QED
    BY <2>1 DEF Next, Serve, ServiceRestart, vars, topics
<1>. QED
  BY <1>1, <1>2, <1>3

\* Requests, results and sky maps are about G events of their superevent, step by
\* step.
LEMMA AskedKept ==
  ASSUME StartsOnce, Base, Pristine, Asked, [Next]_vars
  PROVE  Asked'
<1>0. /\ OneClusterer
      /\ \A i \in Instance : GoodCreator(creator[i]) /\ AskedAt(i) /\ TakenOK(i)
      /\ \A id \in DOMAIN redis : OwnMap(redis[id])
  BY DEF StartsOnce, Base, Windows, Asked, Taken
<1>1. ASSUME NEW i \in Instance, pc'[i] # "down"
      PROVE  /\ \A id \in DOMAIN requests' : \A n \in DOMAIN requests'[id] :
                  RecordedIn(creator'[i], id, requests'[id][n])
             /\ \A n \in DOMAIN results' :
                  RecordedIn(creator'[i], results'[n].superevent_id, results'[n].event)
  <2>1. CASE Start(i)
    BY <2>1, FirstStart
  <2>2. CASE pc[i] # "down"
    <3>1. Grows(i)
      BY <1>0, <1>1, <2>2, CreatorGrows
    <3>2. \A id \in DOMAIN requests' : \A n \in DOMAIN requests'[id] :
            Recorded(i, id, requests'[id][n])
      BY <1>0, <2>2, NewRecords, UpdateRecorded DEF AskedAt, OneClusterer
    <3>3. \A n \in DOMAIN results' : Recorded(i, results'[n].superevent_id, results'[n].event)
      BY <1>0, <2>2, NewRecords DEF AskedAt
    <3>. QED
      BY <3>1, <3>2, <3>3, RecordedStays
  <2>3. Start(i) \/ pc[i] # "down"
    <3>1. ASSUME NEW j \in Instance, Start(j) \/ Crash(j) \/ Stop(j) \/ Run(j)
          PROVE  Start(i) \/ pc[i] # "down"
      BY <1>0, <3>1, RunsWhenUp DEF OneClusterer
    <3>. QED
      BY <1>1, <3>1 DEF Next, Serve, ServiceRestart, vars
  <2>. QED
    BY <2>1, <2>2, <2>3
<1>2. ASSUME NEW i \in Instance, creator'[i] # creator[i], NEW t \in DOMAIN creator'[i].superevents
      PROVE  OwnMap(creator'[i].superevents[t])
  <2>1. CASE Start(i)
    BY <1>2, <2>1, FirstStart
  <2>2. CASE creator'[i] = EmptyCreator
    BY <1>2, <2>2 DEF EmptyCreator
  <2>3. ASSUME NEW e \in Event, HandleEvent(i, e)
        PROVE  OwnMap(creator'[i].superevents[t])
    <3> DEFINE c == creator[i]
               d == Process(c, e)
    <3>1. PICK h \in DOMAIN d.superevents :
            /\ \A v \in DOMAIN d.superevents : v \in DOMAIN c.superevents \/ v = h
            /\ \A v \in DOMAIN c.superevents \ {h} : d.superevents[v] = c.superevents[v]
            /\ h \in DOMAIN c.superevents =>
                 /\ d.superevents[h].skymap = c.superevents[h].skymap
                 /\ Range(d.superevents[h].g_events) = Range(c.superevents[h].g_events) \cup {e}
            /\ h \notin DOMAIN c.superevents => d.superevents[h].skymap = NoSkymap
      BY <1>0, ProcessStep
    <3>2. creator'[i] = d
      BY <2>3, HandleStep
    <3>. HIDE DEF d
    <3>. QED
      BY <1>0, <1>2, <3>1, <3>2 DEF AskedAt, OwnMap
  <2>4. CASE ApplyResult(i)
    <3> DEFINE c == creator[i]
               r == taken[i][1]
               d == AttachSkymap(c, r.superevent_id, r.event)
    <3>1. /\ r.event \in Event /\ creator'[i] = d
          /\ pc[i] # "down" /\ taken[i] # <<>> /\ taken[i] \in Seq(LocalizeResult)
      BY <1>2, <2>4, ApplyStep DEF LocalizeResult, Base, Shape
    <3>2. /\ DOMAIN d.superevents = DOMAIN c.superevents
          /\ \A v \in DOMAIN c.superevents :
               /\ d.superevents[v].g_events = c.superevents[v].g_events
               /\ c.times[v] = r.superevent_id => d.superevents[v].skymap = r.event
               /\ c.times[v] # r.superevent_id => d.superevents[v] = c.superevents[v]
      BY <1>0, <3>1, AttachStep
    <3>3. \E n \in DOMAIN results : r = results[n]
      <4>1. Len(taken[i]) \in Nat /\ 1 \in 1 .. Len(taken[i])
        BY <3>1
      <4>2. /\ r = results[(seen[i] - Len(taken[i])) + 1]
            /\ Len(taken[i]) <= seen[i] /\ seen[i] <= Len(results)
        BY <1>0, <4>1 DEF TakenOK
      <4>3. (seen[i] - Len(taken[i])) + 1 \in 1 .. Len(results)
        BY <4>1, <4>2 DEF Base, Shape
      <4>. QED
        BY <4>2, <4>3 DEF Base, Shape
    <3>4. Recorded(i, r.superevent_id, r.event)
      BY <1>0, <3>1, <3>3 DEF AskedAt
    <3>. HIDE DEF d, r
    <3>5. PICK v \in DOMAIN c.superevents :
            c.times[v] = r.superevent_id /\ r.event \in Range(c.superevents[v].g_events)
      BY <3>4 DEF Recorded, RecordedIn
    <3>6. c.times[t] = r.superevent_id => t = v
      BY <1>0, <1>2, <3>1, <3>2, <3>5 DEF GoodCreator
    <3>7. OwnMap(d.superevents[t])
      BY <1>0, <1>2, <3>1, <3>2, <3>5, <3>6 DEF AskedAt, OwnMap
    <3>. QED
      BY <3>1, <3>7
  <2>5. \/ Start(i) \/ creator'[i] = EmptyCreator \/ ApplyResult(i)
        \/ \E e \in Event : HandleEvent(i, e)
    <3>1. ASSUME NEW j \in Instance, Start(j) \/ Crash(j) \/ Stop(j) \/ Run(j)
          PROVE  Start(i) \/ Crash(i) \/ Stop(i) \/ Run(i)
      BY <1>0, <3>1 DEF OneClusterer
    <3>2. Start(i) \/ Crash(i) \/ Stop(i) \/ Run(i)
      BY <1>2, <3>1 DEF Next, Serve, ServiceRestart, vars, local
    <3>3. ASSUME PersistMaps(i) PROVE creator'[i] = EmptyCreator
      BY <1>2, <3>3, PersistMapsStep DEF local
    <3>4. ASSUME Lose(i) PROVE creator'[i] = EmptyCreator
      BY <3>4, LoseStep
    <3>. QED
      BY <1>2, <3>2, <3>3, <3>4
      DEF Run, Crash, Stop, Emit, ArchiveSuperevent, Localize, RecordRequest, Persist, Drain,
          ReceiveResult, PatchCenter, StoreFits, StoreContours, QuietExit, DeadlineExit, local
  <2>. QED
    BY <2>1, <2>2, <2>3, <2>4, <2>5
<1>3. ASSUME NEW id \in DOMAIN redis' PROVE OwnMap(redis'[id])
  <2>1. redis' = redis \/ \E i \in Instance : redis' = SaveToRedis(creator[i])
    BY PersistStep, PersistMapsStep
    DEF Next, Run, Start, Crash, Lose, Stop, HandleEvent, Emit, ArchiveSuperevent, Localize,
        RecordRequest, Drain, ReceiveResult, ApplyResult, PatchCenter, StoreFits,
        StoreContours, QuietExit, DeadlineExit, Serve, ServiceRestart, vars, external
  <2>2. ASSUME NEW i \in Instance, redis' = SaveToRedis(creator[i])
        PROVE  OwnMap(redis'[id])
    <3>1. PICK t \in DOMAIN creator[i].superevents : redis'[id] = creator[i].superevents[t]
      BY <1>0, <1>3, <2>2, SavedAreOpen
    <3>. QED
      BY <1>0, <3>1 DEF AskedAt
  <2>. QED
    BY <1>0, <1>3, <2>1, <2>2
<1>4. ASSUME NEW i \in Instance, NEW t \in DOMAIN creator'[i].superevents
      PROVE  OwnMap(creator'[i].superevents[t])
  BY <1>0, <1>2, <1>4 DEF AskedAt
<1>. QED
  BY <1>1, <1>3, <1>4 DEF Asked, AskedAt, OwnMap, Recorded


\* The invariant the results on a clusterer that starts once rest on.
LEMMA PristineAlways ==
  ASSUME StartsOnce
  PROVE  Spec => []Pristine
<1>1. Init => Pristine
  BY DEF Init, Pristine, PristineAt
<1>2. Base /\ Pristine /\ [Next]_vars => Pristine'
  BY PristineKept
<1>. QED
  BY <1>1, <1>2, ClustererInvariant, PTL DEF Spec

LEMMA AskedAlways ==
  ASSUME StartsOnce
  PROVE  Spec => []Asked
<1>1. Init => Asked
  BY DEF Init, Asked, AskedAt, EmptyCreator
<1>2. Base /\ Pristine /\ Asked /\ [Next]_vars => Asked'
  BY AskedKept
<1>. QED
  BY <1>1, <1>2, ClustererInvariant, PristineAlways, PTL DEF Spec

\* No sky map lands on a superevent it was not computed for, in memory or in
\* Redis, whatever fails and however often the bayestar-service restarts, as long
\* as the one clusterer does not start again.
THEOREM MapsStayMembers ==
  ASSUME StartsOnce
  PROVE  Spec => []MapIsAMembers
<1>1. Asked => MapIsAMembers
  BY DEF Asked, AskedAt, OwnMap, MapIsAMembers
<1>. QED
  BY <1>1, AskedAlways, PTL

-------------------------------------------------------------------------------
(* One clusterer that starts once: MongoDB and the storage agree with it. *)

\* What is stored under one id is replaced.
Replaces(stored, id, f, c, new) ==
  /\ \A k : /\ FitsOf(new, k) = IF k = id THEN f ELSE FitsOf(stored, k)
           /\ ContoursOf(new, k) = IF k = id THEN c ELSE ContoursOf(stored, k)
  /\ DOMAIN new = DOMAIN stored \cup {id}
  /\ new[id] = [fits |-> f, contours |-> c]
  /\ \A k \in DOMAIN stored \ {id} : new[k] = stored[k]

LEMMA BlobReplaced ==
  ASSUME NEW id, NEW stored, NEW f, NEW c, NEW blob, NEW new,
         blob = [fits |-> f, contours |-> c], new = Insert(stored, id, blob)
  PROVE  Replaces(stored, id, f, c, new)
<1>1. blob.fits = f /\ blob.contours = c
  OBVIOUS
<1>2. /\ DOMAIN new = DOMAIN stored \cup {id} /\ new[id] = blob
      /\ \A k \in DOMAIN stored \ {id} : new[k] = stored[k]
  BY DEF Insert
<1>3. \A k : /\ FitsOf(new, k) = IF k = id THEN f ELSE FitsOf(stored, k)
            /\ ContoursOf(new, k) = IF k = id THEN c ELSE ContoursOf(stored, k)
  BY <1>1, <1>2 DEF FitsOf, ContoursOf
<1>. QED
  BY <1>2, <1>3 DEF Replaces

LEMMA StoredForm ==
  ASSUME Filed, NEW id
  PROVE  Stored(id) = [fits |-> FitsOf(storage, id), contours |-> ContoursOf(storage, id)]
BY DEF Filed, Stored, FitsOf, ContoursOf

\* What StoreFits and StoreContours leave in the storage.
LEMMA FitsReplaced ==
  ASSUME Filed, NEW id, NEW map,
         storage' = Insert(storage, id, [Stored(id) EXCEPT !.fits = map])
  PROVE  Replaces(storage, id, map, ContoursOf(storage, id), storage')
<1> DEFINE blob == [Stored(id) EXCEPT !.fits = map]
<1>1. blob = [fits |-> map, contours |-> ContoursOf(storage, id)]
  BY StoredForm
<1>2. storage' = Insert(storage, id, blob)
  OBVIOUS
<1>. HIDE DEF blob
<1>. QED
  BY <1>1, <1>2, BlobReplaced

LEMMA ContoursReplaced ==
  ASSUME Filed, NEW id, NEW map,
         storage' = Insert(storage, id, [Stored(id) EXCEPT !.contours = map])
  PROVE  Replaces(storage, id, FitsOf(storage, id), map, storage')
<1> DEFINE blob == [Stored(id) EXCEPT !.contours = map]
<1>1. blob = [fits |-> FitsOf(storage, id), contours |-> map]
  BY StoredForm
<1>2. storage' = Insert(storage, id, blob)
  OBVIOUS
<1>. HIDE DEF blob
<1>. QED
  BY <1>1, <1>2, BlobReplaced

\* What is in the storage is of open superevents, step by step.
LEMMA FiledKept ==
  ASSUME StartsOnce, Base, Pristine, Filed, [Next]_vars
  PROVE  Filed'
<1>0. OneClusterer
  BY DEF StartsOnce
<1>1. \/ storage' = storage
      \/ \E i \in Instance :
           /\ pc[i] # "down" /\ \E t \in DOMAIN creator[i].superevents : OpenAt(i, update[i].id, t)
           /\ DOMAIN storage' = DOMAIN storage \cup {update[i].id}
           /\ \A id \in DOMAIN storage' :
                storage'[id] = [fits |-> storage'[id].fits, contours |-> storage'[id].contours]
  <2>1. ASSUME NEW i \in Instance, StoreFits(i) \/ StoreContours(i), storage' # storage
        PROVE  /\ pc[i] # "down" /\ \E t \in DOMAIN creator[i].superevents : OpenAt(i, update[i].id, t)
               /\ DOMAIN storage' = DOMAIN storage \cup {update[i].id}
               /\ \A id \in DOMAIN storage' :
                    storage'[id] = [fits |-> storage'[id].fits, contours |-> storage'[id].contours]
    <3> DEFINE id == update[i].id
               map == Held(i, id).skymap
    <3>1. /\ pc[i] \in {"blob", "contours"}
          /\ \/ storage' = Insert(storage, id, [Stored(id) EXCEPT !.fits = map])
             \/ storage' = Insert(storage, id, [Stored(id) EXCEPT !.contours = map])
      BY <2>1, FitsStep, ContoursStep
    <3>2. \E t \in DOMAIN creator[i].superevents : OpenAt(i, id, t)
      BY <3>1 DEF Base, Updates, UpdateOK, OnMap
    <3>. HIDE DEF map
    <3>3. \E f, c : Replaces(storage, id, f, c, storage')
      BY <3>1, FitsReplaced, ContoursReplaced
    <3>4. /\ DOMAIN storage' = DOMAIN storage \cup {id}
          /\ \A k \in DOMAIN storage \ {id} : storage'[k] = storage[k]
          /\ \E f, c : storage'[id] = [fits |-> f, contours |-> c]
      BY <3>3 DEF Replaces
    <3>5. storage'[id] = [fits |-> storage'[id].fits, contours |-> storage'[id].contours]
      BY <3>4
    <3>. QED
      BY <3>1, <3>2, <3>4, <3>5 DEF Filed
  <2>2. ASSUME NEW i \in Instance, Start(i) \/ Crash(i) \/ Stop(i) \/ Run(i)
        PROVE  storage' = storage \/ StoreFits(i) \/ StoreContours(i)
    BY <2>2
    DEF Run, Start, Crash, Stop, Lose, HandleEvent, Emit, ArchiveSuperevent, Localize,
        RecordRequest, Persist, Drain, ReceiveResult, ApplyResult, PatchCenter,
        PersistMaps, QuietExit, DeadlineExit, external
  <2>. QED
    BY <2>1, <2>2 DEF Next, Serve, ServiceRestart, vars, external
<1>2. ASSUME NEW i \in Instance, pc'[i] # "down", NEW id \in DOMAIN storage'
      PROVE  \E t \in DOMAIN creator'[i].superevents : OpenAt(i, id, t)'
  <2>1. CASE Start(i)
    BY <1>2, <2>1, FirstStart
  <2>2. CASE pc[i] # "down"
    <3>1. Grows(i)
      BY <1>0, <1>2, <2>2, CreatorGrows
    <3>2. PICK t \in DOMAIN creator[i].superevents : OpenAt(i, id, t)
      BY <1>0, <1>1, <1>2, <2>2 DEF Filed, FiledAt, OneClusterer
    <3>. QED
      BY <3>1, <3>2 DEF Grows, OpenAt
  <2>3. Start(i) \/ pc[i] # "down"
    <3>1. ASSUME NEW j \in Instance, Start(j) \/ Crash(j) \/ Stop(j) \/ Run(j)
          PROVE  Start(i) \/ pc[i] # "down"
      BY <1>0, <3>1, RunsWhenUp DEF OneClusterer
    <3>. QED
      BY <1>2, <3>1 DEF Next, Serve, ServiceRestart, vars
  <2>. QED
    BY <2>1, <2>2, <2>3
<1>3. \A id \in DOMAIN storage' :
        storage'[id] = [fits |-> storage'[id].fits, contours |-> storage'[id].contours]
  BY <1>1 DEF Filed
<1>. QED
  BY <1>2, <1>3 DEF Filed, FiledAt

\* One document is replaced by that of superevent h.
LEMMA DocShown ==
  ASSUME NEW docs, NEW id, NEW h, NEW s,
         s.id # id => DocAgrees(docs, s), s.id = id => s = h
  PROVE  DocAgrees(Insert(docs, id, SupereventDoc(h)), s)
<1> DEFINE doc == SupereventDoc(h)
           docs2 == Insert(docs, id, doc)
<1>1. /\ doc.preferred = h.preferred_event /\ doc.g_events = h.g_events
      /\ (h.skymap # NoSkymap) <=> ("size" \in doc.summary)
  BY DEF SupereventDoc
<1>. HIDE DEF doc
<1>2. /\ DOMAIN docs2 = DOMAIN docs \cup {id} /\ docs2[id] = doc
      /\ \A k \in DOMAIN docs \ {id} : docs2[k] = docs[k]
  BY DEF Insert
<1>. HIDE DEF docs2
<1>3. DocAgrees(docs2, s)
  <2>1. CASE s.id = id
    BY <1>1, <1>2, <2>1 DEF DocAgrees
  <2>2. CASE s.id # id
    BY <1>2, <2>2 DEF DocAgrees
  <2>. QED
    BY <2>1, <2>2
<1>. QED
  BY <1>3 DEF docs2, doc

\* MongoDB and the storage agree with the open superevents, step by step.
LEMMA AgreesKept ==
  ASSUME OneClusterer, Base, Filed, Agrees, [Next]_vars,
         \A i \in Instance : Start(i) => DOMAIN creator'[i].superevents = {}
  PROVE  Agrees'
<1> SUFFICES ASSUME failures' = 0
             PROVE  \A i \in Instance : pc'[i] # "down" => AgreesAt(i)'
  BY DEF Agrees
<1>0. /\ failures = 0
      /\ \A i \in Instance : /\ pc[i] # "down" => AgreesAt(i)
                            /\ GoodCreator(creator[i]) /\ UpdateOK(i) /\ pc[i] \in Label
                            /\ \A t \in DOMAIN creator[i].superevents :
                                 creator[i].superevents[t].id = creator[i].times[t]
  BY FailuresCount DEF Agrees, Base, Windows, Updates, Shape, GoodCreator
<1>a. ASSUME NEW i \in Instance, pc'[i] # "down" => AgreesAt(i)'
      PROVE  \A j \in Instance : pc'[j] # "down" => AgreesAt(j)'
  BY <1>a DEF OneClusterer
<1>b. ASSUME UNCHANGED <<creator, storage>>, archive'.superevents = archive.superevents,
             NEW i \in Instance, pc[i] # "down",
             pc[i] \in {"emit", "archive"} => pc'[i] \in {"emit", "archive"},
             OnMap(i) => (OnMap(i)' /\ (pc[i] # "contours" => pc'[i] # "contours")),
             pc[i] \in {"emit", "archive"} \/ OnMap(i) => update'[i] = update[i]
      PROVE  AgreesAt(i)'
  BY <1>0, <1>b DEF AgreesAt
<1>1. ASSUME NEW i \in Instance, Start(i) PROVE AgreesAt(i)'
  BY <1>1 DEF AgreesAt
<1>2. ASSUME NEW i \in Instance, Lose(i) PROVE pc'[i] = "down"
  BY <1>2, LoseStep DEF Moves
<1>3. ASSUME NEW i \in Instance,
             \/ Stop(i) \/ Emit(i) \/ Localize(i) \/ RecordRequest(i) \/ Drain(i)
             \/ ReceiveResult(i) \/ Persist(i)
      PROVE  AgreesAt(i)'
  <2>1. UNCHANGED <<creator, storage>> /\ archive'.superevents = archive.superevents
    BY <1>3, StopStep, EmitStep, LocalizeStep, RecordStep, TakeStep, PersistStep
    DEF local, external
  <2>2. \/ pc[i] = "emit" /\ pc'[i] = "archive" /\ update'[i] = update[i]
        \/ pc[i] \in {"idle", "quiet", "drain", "localize", "record", "persist"}
    BY <1>3, StopStep, EmitStep, LocalizeStep, RecordStep, TakeStep, PersistStep
    DEF Moves, local
  <2>. QED
    BY <1>b, <2>1, <2>2 DEF OnMap
<1>4. ASSUME NEW i \in Instance, PersistMaps(i) PROVE pc'[i] # "down" => AgreesAt(i)'
  <2>1. pc'[i] # "down" => creator' = creator
    BY <1>4, PersistMapsStep DEF local
  <2>2. /\ pc[i] = "result" /\ storage' = storage
        /\ archive'.superevents = archive.superevents
    BY <1>4, PersistMapsStep
  <2>. QED
    BY <1>b, <2>1, <2>2 DEF OnMap
<1>5. ASSUME NEW i \in Instance, NEW e \in Event, HandleEvent(i, e) PROVE AgreesAt(i)'
  <2> DEFINE c == creator[i]
             d == Process(c, e)
             u == Update(c, e)
  <2>0. GoodCreator(c) /\ GoodCreator(d)
    BY <1>0, ProcessKeepsGood
  <2>1. PICK h \in DOMAIN d.superevents :
          /\ \A t \in DOMAIN d.superevents : t \in DOMAIN c.superevents \/ t = h
          /\ \A t \in DOMAIN c.superevents \ {h} : /\ d.superevents[t] = c.superevents[t]
                                                  /\ d.times[t] = c.times[t]
          /\ d.times[h] = u.id
          /\ u.action \in {"created", "preferred_updated", "skipped"}
          /\ h \in DOMAIN c.superevents => /\ d.times[h] = c.times[h]
                                           /\ d.superevents[h].skymap = c.superevents[h].skymap
          /\ h \notin DOMAIN c.superevents => /\ d.superevents[h].skymap = NoSkymap
                                              /\ u.id = c.next_seq
    BY <2>0, ProcessStep
  <2>. HIDE DEF u, d
  <2>2. /\ creator'[i] = d /\ update'[i] = u /\ pc'[i] = "emit" /\ pc[i] = "idle"
        /\ UNCHANGED storage /\ archive'.superevents = archive.superevents
    BY <1>5, HandleStep DEF Moves, u, d
  <2>3. \A t \in DOMAIN c.superevents :
          /\ DocAgrees(archive.superevents, c.superevents[t])
          /\ FitsOf(storage, c.superevents[t].id) = c.superevents[t].skymap
          /\ ContoursOf(storage, c.superevents[t].id) = c.superevents[t].skymap
    BY <1>0, <2>2 DEF AgreesAt, OnMap
  <2>4. c.next_seq \notin DOMAIN storage
    <3>1. \A t \in DOMAIN c.superevents : c.times[t] < c.next_seq /\ c.times[t] \in Nat
      BY <2>0 DEF GoodCreator
    <3>2. \A id \in DOMAIN storage : \E t \in DOMAIN c.superevents : c.times[t] = id
      BY <2>2 DEF Filed, FiledAt, OpenAt
    <3>. QED
      BY <2>0, <3>1, <3>2 DEF GoodCreator
  <2>5. ASSUME NEW t \in DOMAIN d.superevents
        PROVE  /\ d.times[t] # u.id => DocAgrees(archive.superevents, d.superevents[t])
               /\ FitsOf(storage, d.superevents[t].id) = d.superevents[t].skymap
               /\ ContoursOf(storage, d.superevents[t].id) = d.superevents[t].skymap
    <3>1. d.superevents[t].id = d.times[t]
      BY <2>0 DEF GoodCreator
    <3>2. CASE t = h /\ h \in DOMAIN c.superevents
      <4>1. d.superevents[h].id = c.superevents[h].id
        BY <1>0, <2>1, <3>1, <3>2
      <4>. QED
        BY <2>1, <2>3, <3>2, <4>1
    <3>3. CASE t = h /\ h \notin DOMAIN c.superevents
      BY <2>1, <2>4, <3>1, <3>3 DEF FitsOf, ContoursOf
    <3>4. CASE t # h
      BY <2>1, <2>3, <3>4
    <3>. QED
      BY <3>2, <3>3, <3>4
  <2>6. ~ OnMap(i)'
    BY <2>1, <2>2 DEF OnMap
  <2>. QED
    BY <2>2, <2>5, <2>6 DEF AgreesAt
<1>6. ASSUME NEW i \in Instance, ArchiveSuperevent(i) PROVE AgreesAt(i)'
  <2> DEFINE id == update[i].id
             held == Held(i, id)
             docs == Insert(archive.superevents, id, SupereventDoc(held))
  <2>1. /\ archive'.superevents = docs /\ pc[i] = "archive"
        /\ pc'[i] \in {"center", "localize"}
        /\ UNCHANGED <<creator, update, storage>>
        /\ OnMap(i) <=> OnMap(i)'
    BY <1>6, ArchiveStep DEF Done, Moves, local, OnMap
  <2>2. PICK t0 \in DOMAIN creator[i].superevents : OpenAt(i, id, t0)
    BY <1>0, <2>1 DEF UpdateOK, OnEvent, OnMap
  <2>3. held = creator[i].superevents[t0]
    BY <1>0, <2>2, HeldIsOpen
  <2>4. \A t \in DOMAIN creator[i].superevents : creator[i].times[t] = id => t = t0
    BY <1>0, <2>2 DEF GoodCreator, OpenAt
  <2>. HIDE DEF held
  <2>5. ASSUME NEW t \in DOMAIN creator[i].superevents
        PROVE  DocAgrees(docs, creator[i].superevents[t])
    <3> DEFINE s == creator[i].superevents[t]
    <3>1. s.id # id => DocAgrees(archive.superevents, s)
      BY <1>0, <2>1 DEF AgreesAt
    <3>2. s.id = id => s = held
      BY <1>0, <2>3, <2>4
    <3>. HIDE DEF s
    <3>3. DocAgrees(docs, s)
      BY <3>1, <3>2, DocShown
    <3>. QED
      BY <3>3 DEF s
  <2>. HIDE DEF docs
  <2>. QED
    BY <1>0, <2>1, <2>5 DEF AgreesAt
<1>7. ASSUME NEW i \in Instance, ApplyResult(i) PROVE AgreesAt(i)'
  <2> DEFINE r == taken[i][1]
             c == creator[i]
             id == r.superevent_id
  <2>1. /\ pc[i] = "result" /\ UNCHANGED storage
        /\ archive'.superevents = archive.superevents /\ r.event \in Event
        /\ \/ /\ pc'[i] = "emit" /\ creator'[i] = AttachSkymap(c, id, r.event)
              /\ update'[i] = [action |-> "skymap_attached", id |-> id]
           \/ pc'[i] = "result" /\ UNCHANGED <<creator, update>>
    BY <1>7, ApplyStep DEF LocalizeResult
  <2>2. CASE pc'[i] = "result" /\ UNCHANGED <<creator, update>>
    BY <1>b, <2>1, <2>2 DEF OnMap
  <2>3. CASE /\ pc'[i] = "emit" /\ creator'[i] = AttachSkymap(c, id, r.event)
             /\ update'[i] = [action |-> "skymap_attached", id |-> id]
    <3> DEFINE d == AttachSkymap(c, id, r.event)
               D == DOMAIN c.superevents
    <3>0. r.event \in Event /\ GoodCreator(c)
      BY <1>0, <2>1
    <3>1. /\ d.times = c.times /\ DOMAIN d.superevents = D
          /\ \A t \in D : c.times[t] # id => d.superevents[t] = c.superevents[t]
      BY <3>0, AttachStep
    <3>. HIDE DEF d, r
    <3>2. /\ creator'[i] = d /\ update'[i].action = "skymap_attached" /\ update'[i].id = id
          /\ OnMap(i)'
      BY <2>3 DEF d, OnMap
    <3>3. \A t \in D : /\ DocAgrees(archive.superevents, c.superevents[t])
                      /\ FitsOf(storage, c.superevents[t].id) = c.superevents[t].skymap
                      /\ ContoursOf(storage, c.superevents[t].id) = c.superevents[t].skymap
      BY <1>0, <2>1 DEF AgreesAt, OnMap
    <3>. QED
      BY <2>1, <2>3, <3>1, <3>2, <3>3 DEF AgreesAt
  <2>. QED
    BY <2>1, <2>2, <2>3
<1>8. ASSUME NEW i \in Instance, PatchCenter(i) PROVE AgreesAt(i)'
  <2>1. /\ UNCHANGED <<creator, update, storage>>
        /\ pc[i] = "center" /\ pc'[i] = "blob"
    BY <1>8, CenterStep DEF Moves, local
  <2>2. ASSUME NEW s, DocAgrees(archive.superevents, s)
        PROVE  DocAgrees(archive'.superevents, s)
    BY <1>8, <2>2, CenterStep DEF DocAgrees
  <2>. QED
    BY <1>0, <2>1, <2>2 DEF AgreesAt, OnMap
<1>9. ASSUME NEW i \in Instance, StoreFits(i) \/ StoreContours(i) PROVE AgreesAt(i)'
  <2> DEFINE id == update[i].id
             map == Held(i, id).skymap
             D == DOMAIN creator[i].superevents
  <2>1. /\ \/ /\ pc[i] = "blob" /\ pc'[i] = "contours" /\ UNCHANGED update
              /\ storage' = Insert(storage, id, [Stored(id) EXCEPT !.fits = map])
           \/ /\ pc[i] = "contours" /\ pc'[i] = "result"
              /\ storage' = Insert(storage, id, [Stored(id) EXCEPT !.contours = map])
        /\ UNCHANGED <<creator, archive>>
    BY <1>9, FitsStep, ContoursStep DEF Done, Moves, local
  <2>2. PICK t0 \in D : OpenAt(i, id, t0)
    BY <1>0, <2>1 DEF UpdateOK, OnMap
  <2>3. map = creator[i].superevents[t0].skymap /\ creator[i].times[t0] = id
    BY <1>0, <2>2, HeldIsOpen DEF OpenAt
  <2>4. \A t \in D : creator[i].times[t] = id => t = t0
    BY <1>0, <2>2 DEF GoodCreator, OpenAt
  <2>. HIDE DEF map
  <2>6. \A t \in D : DocAgrees(archive.superevents, creator[i].superevents[t])
    BY <1>0, <2>1 DEF AgreesAt
  <2>7. CASE pc[i] = "blob"
    <3>1. /\ pc'[i] = "contours" /\ UNCHANGED update
          /\ storage' = Insert(storage, id, [Stored(id) EXCEPT !.fits = map])
      BY <2>1, <2>7
    <3>2. \A k : /\ FitsOf(storage', k) = IF k = id THEN map ELSE FitsOf(storage, k)
                 /\ ContoursOf(storage', k) = ContoursOf(storage, k)
      <4>1. Replaces(storage, id, map, ContoursOf(storage, id), storage')
        BY <3>1, FitsReplaced
      <4>. QED
        BY <4>1 DEF Replaces
    <3>. QED
      BY <1>0, <2>1, <2>3, <2>4, <2>6, <2>7, <3>1, <3>2 DEF AgreesAt, OnMap
  <2>8. CASE pc[i] = "contours"
    <3>1. /\ pc'[i] = "result"
          /\ storage' = Insert(storage, id, [Stored(id) EXCEPT !.contours = map])
      BY <2>1, <2>8
    <3>2. \A k : /\ FitsOf(storage', k) = FitsOf(storage, k)
                 /\ ContoursOf(storage', k) = IF k = id THEN map ELSE ContoursOf(storage, k)
      <4>1. Replaces(storage, id, FitsOf(storage, id), map, storage')
        BY <3>1, ContoursReplaced
      <4>. QED
        BY <4>1 DEF Replaces
    <3>. QED
      BY <1>0, <2>1, <2>3, <2>4, <2>6, <2>8, <3>1, <3>2 DEF AgreesAt, OnMap
  <2>. QED
    BY <2>1, <2>7, <2>8
<1>10. ASSUME NEW id \in DOMAIN requests, Serve(id) \/ ServiceRestart(id)
       PROVE  \A i \in Instance : pc'[i] # "down" => AgreesAt(i)'
  <2>1. UNCHANGED <<pc, creator, update, archive, storage>>
    BY <1>10, ServeStep, RestartStep DEF local, external
  <2>. QED
    BY <1>0, <2>1 DEF AgreesAt, OnMap
<1>11. CASE UNCHANGED vars
  BY <1>0, <1>11 DEF AgreesAt, OnMap, vars, local, external
<1>. QED
  BY <1>a, <1>1, <1>2, <1>3, <1>4, <1>5, <1>6, <1>7, <1>8, <1>9, <1>10, <1>11
  DEF Next, Run, Crash, QuietExit, DeadlineExit

\* Between two events MongoDB and the storage show every open superevent as it
\* is, as long as no write failed and the one clusterer does not start again.
THEOREM ArchiveIsTrue ==
  ASSUME StartsOnce
  PROVE  Spec => []ArchiveAgrees
<1>1. Init => Filed /\ Agrees
  BY DEF Init, Filed, FiledAt, Agrees
<1>2. Base /\ Pristine /\ Filed /\ Agrees /\ [Next]_vars => Filed' /\ Agrees'
  <2> SUFFICES ASSUME Base, Pristine, Filed, Agrees, [Next]_vars PROVE Filed' /\ Agrees'
    OBVIOUS
  <2>1. \A i \in Instance : Start(i) => DOMAIN creator'[i].superevents = {}
    BY FirstStart
  <2>. QED
    BY <2>1, FiledKept, AgreesKept DEF StartsOnce
<1>3. Filed /\ Agrees => ArchiveAgrees
  <2> SUFFICES ASSUME Filed, failures = 0, NEW i \in Instance, AgreesAt(i),
                      pc[i] \in {"idle", "quiet"}, NEW t \in DOMAIN creator[i].superevents
               PROVE  LET s == creator[i].superevents[t]
                      IN  /\ s.id \in DOMAIN archive.superevents
                          /\ archive.superevents[s.id].preferred = s.preferred_event
                          /\ archive.superevents[s.id].g_events = s.g_events
                          /\ (s.skymap # NoSkymap) <=>
                               ("size" \in archive.superevents[s.id].summary)
                          /\ Stored(s.id) = [fits |-> s.skymap, contours |-> s.skymap]
    BY DEF Agrees, ArchiveAgrees
  <2> DEFINE s == creator[i].superevents[t]
  <2>1. /\ DocAgrees(archive.superevents, s)
        /\ FitsOf(storage, s.id) = s.skymap /\ ContoursOf(storage, s.id) = s.skymap
    BY DEF AgreesAt, OnMap
  <2>. HIDE DEF s
  <2>2. Stored(s.id) = [fits |-> s.skymap, contours |-> s.skymap]
    BY <2>1, StoredForm
  <2>. QED
    BY <2>1, <2>2 DEF DocAgrees, s
<1>. QED
  BY <1>1, <1>2, <1>3, ClustererInvariant, PristineAlways, PTL DEF Spec


-------------------------------------------------------------------------------
(* One clusterer that starts once: no late result replaces a fresh map. *)

\* The preferred event is asked for once more.
LEMMA MoreAsked ==
  ASSUME NEW rs, NEW q \in Seq(Event), NEW k, NEW n0, NEW id, NEW p \in Event, NEW map,
         OnCourse(rs, q, k, n0, id, p, map)
  PROVE  OnCourse(rs, Append(q, p), k, n0, id, p, map)
<1> DEFINE q2 == Append(q, p)
<1>1. /\ DOMAIN q = 1 .. Len(q) /\ Len(q) \in Nat /\ DOMAIN q2 = 1 .. Len(q) + 1
      /\ \A m \in 1 .. Len(q) : q2[m] = q[m]
      /\ q2[Len(q) + 1] = p
  OBVIOUS
<1>. HIDE DEF q2
<1>2. \A m \in DOMAIN q2 : q2[m] = p \/ (m \in DOMAIN q /\ q2[m] = q[m])
  BY <1>1
<1>3. \A m, l \in DOMAIN q2 : m < l /\ q2[m] = p => q2[l] = p
  <2> SUFFICES ASSUME NEW m \in DOMAIN q2, NEW l \in DOMAIN q2, m < l, q2[m] = p
               PROVE  q2[l] = p
    OBVIOUS
  <2>1. CASE l = Len(q) + 1
    BY <1>1, <2>1
  <2>2. CASE l # Len(q) + 1
    <3>1. m \in DOMAIN q /\ l \in DOMAIN q
      BY <1>1, <2>2
    <3>. QED
      BY <1>1, <3>1 DEF OnCourse, InOrder
  <2>. QED
    BY <2>1, <2>2
<1>4. OnCourse(rs, q2, k, n0, id, p, map)
  BY <1>2, <1>3 DEF OnCourse, InOrder, Settled
<1>. QED
  BY <1>4 DEF q2

\* The next request of this superevent is answered.
LEMMA MoreAnswered ==
  ASSUME NEW rs \in Seq(LocalizeResult), NEW q \in Seq(Event), NEW k \in Nat, k < Len(q),
         NEW n0, NEW id, NEW p, NEW map, NEW r \in LocalizeResult,
         r.superevent_id = id, r.event = q[k + 1],
         OnCourse(rs, q, k, n0, id, p, map)
  PROVE  OnCourse(Append(rs, r), q, k + 1, n0, id, p, map)
<1> DEFINE rs2 == Append(rs, r)
<1>1. /\ DOMAIN rs = 1 .. Len(rs) /\ Len(rs) \in Nat /\ DOMAIN rs2 = 1 .. Len(rs) + 1
      /\ \A n \in 1 .. Len(rs) : rs2[n] = rs[n]
      /\ rs2[Len(rs) + 1] = r
      /\ DOMAIN q = 1 .. Len(q) /\ Len(q) \in Nat
  OBVIOUS
<1>. HIDE DEF rs2
<1>2. k + 1 \in DOMAIN q /\ \A m \in DOMAIN q : m > k + 1 => m > k
  BY <1>1
<1>3. \A n, m \in DOMAIN rs2 :
        n < m /\ rs2[n].superevent_id = id /\ rs2[m].superevent_id = id /\ rs2[n].event = p =>
          rs2[m].event = p
  <2> SUFFICES ASSUME NEW n \in DOMAIN rs2, NEW m \in DOMAIN rs2, n < m,
                      rs2[n].superevent_id = id, rs2[m].superevent_id = id, rs2[n].event = p
               PROVE  rs2[m].event = p
    OBVIOUS
  <2>1. n \in DOMAIN rs /\ rs2[n] = rs[n]
    BY <1>1
  <2>2. CASE m = Len(rs) + 1
    BY <1>1, <1>2, <2>1, <2>2 DEF OnCourse, InOrder
  <2>3. CASE m # Len(rs) + 1
    <3>1. m \in DOMAIN rs /\ rs2[m] = rs[m]
      BY <1>1, <2>3
    <3>. QED
      BY <2>1, <3>1 DEF OnCourse, InOrder
  <2>. QED
    BY <2>2, <2>3
<1>4. \A n \in DOMAIN rs2 : \A m \in DOMAIN q :
        rs2[n].superevent_id = id /\ rs2[n].event = p /\ m > k + 1 => q[m] = p
  <2> SUFFICES ASSUME NEW n \in DOMAIN rs2, NEW m \in DOMAIN q,
                      rs2[n].superevent_id = id, rs2[n].event = p, m > k + 1
               PROVE  q[m] = p
    OBVIOUS
  <2>1. CASE n = Len(rs) + 1
    BY <1>1, <1>2, <2>1 DEF OnCourse, InOrder
  <2>2. CASE n # Len(rs) + 1
    <3>1. n \in DOMAIN rs /\ rs2[n] = rs[n]
      BY <1>1, <2>2
    <3>. QED
      BY <1>2, <3>1 DEF OnCourse, InOrder
  <2>. QED
    BY <2>1, <2>2
<1>5. map = p => Settled(rs2, q, k + 1, n0, id, p)
  <2> SUFFICES ASSUME Settled(rs, q, k, n0, id, p) PROVE Settled(rs2, q, k + 1, n0, id, p)
    BY DEF OnCourse
  <2>1. ASSUME NEW n \in DOMAIN rs2, n >= n0, rs2[n].superevent_id = id
        PROVE  rs2[n].event = p
    <3>1. CASE n = Len(rs) + 1
      BY <1>1, <1>2, <3>1 DEF Settled
    <3>2. CASE n # Len(rs) + 1
      <4>1. n \in DOMAIN rs /\ rs2[n] = rs[n]
        BY <1>1, <3>2
      <4>. QED
        BY <2>1, <4>1 DEF Settled
    <3>. QED
      BY <3>1, <3>2
  <2>. QED
    BY <1>2, <2>1 DEF Settled
<1>6. OnCourse(rs2, q, k + 1, n0, id, p, map)
  BY <1>3, <1>4, <1>5 DEF OnCourse, InOrder
<1>. QED
  BY <1>6 DEF rs2

\* A request of another superevent is answered.
LEMMA OtherAnswered ==
  ASSUME NEW rs \in Seq(LocalizeResult), NEW q, NEW k, NEW n0, NEW id, NEW p, NEW map,
         NEW r \in LocalizeResult, r.superevent_id # id,
         OnCourse(rs, q, k, n0, id, p, map)
  PROVE  OnCourse(Append(rs, r), q, k, n0, id, p, map)
<1> DEFINE rs2 == Append(rs, r)
<1>1. /\ DOMAIN rs = 1 .. Len(rs) /\ Len(rs) \in Nat /\ DOMAIN rs2 = 1 .. Len(rs) + 1
      /\ \A n \in 1 .. Len(rs) : rs2[n] = rs[n]
      /\ rs2[Len(rs) + 1] = r
  OBVIOUS
<1>. HIDE DEF rs2
<1>2. \A n \in DOMAIN rs2 : rs2[n].superevent_id = id => n \in DOMAIN rs /\ rs2[n] = rs[n]
  BY <1>1
<1>3. OnCourse(rs2, q, k, n0, id, p, map)
  BY <1>2 DEF OnCourse, InOrder, Settled
<1>. QED
  BY <1>3 DEF rs2

\* The next result is passed over, or it is attached.
LEMMA Applied ==
  ASSUME NEW rs \in Seq(LocalizeResult), NEW q, NEW k, NEW n0 \in DOMAIN rs,
         NEW id, NEW p, NEW map, OnCourse(rs, q, k, n0, id, p, map)
  PROVE  /\ OnCourse(rs, q, k, n0 + 1, id, p, map)
         /\ rs[n0].superevent_id = id => /\ OnCourse(rs, q, k, n0 + 1, id, p, rs[n0].event)
                                         /\ map = p => rs[n0].event = p
<1>1. \A n \in DOMAIN rs : n >= n0 + 1 => n > n0 /\ n >= n0
  OBVIOUS
<1>2. n0 >= n0
  OBVIOUS
<1>. QED
  BY <1>1, <1>2 DEF OnCourse, InOrder, Settled

\* Nothing is asked or answered for an event that is not recorded yet.
LEMMA NothingAsked ==
  ASSUME Base, Asked, NEW i \in Instance, pc[i] # "down", NEW id, NEW p,
         ~ RecordedIn(creator[i], id, p), NEW map, map # p, NEW k, NEW n0
  PROVE  OnCourse(results, At(requests, id, <<>>), k, n0, id, p, map)
<1>1. \A n \in DOMAIN results : results[n].superevent_id = id => results[n].event # p
  BY DEF Asked, AskedAt, Recorded
<1>2. \A m \in DOMAIN At(requests, id, <<>>) : At(requests, id, <<>>)[m] # p
  BY DEF Asked, AskedAt, Recorded, At
<1>. QED
  BY <1>1, <1>2 DEF OnCourse, InOrder

\* Results come in order, step by step.
LEMMA OrderedKept ==
  ASSUME OneClusterer, Base, Asked, Ordered, [Next]_vars,
         \A i \in Instance : Start(i) => DOMAIN creator'[i].superevents = {}
  PROVE  Ordered'
<1>0. /\ \A i \in Instance : /\ OrderedAt(i) /\ GoodCreator(creator[i]) /\ UpdateOK(i)
                            /\ TakenOK(i) /\ taken[i] \in Seq(LocalizeResult)
                            /\ seen[i] \in Nat /\ inbox[i] \subseteq Event
      /\ results \in Seq(LocalizeResult)
      /\ requests \in [DOMAIN requests -> Seq(Event)]
      /\ served \in [DOMAIN served -> Nat] /\ rewinds \in Nat
  BY DEF Ordered, Base, Windows, Updates, Taken, Shape
<1>a. ASSUME NEW i \in Instance, OrderedAt(i)' PROVE \A j \in Instance : OrderedAt(j)'
  BY <1>a DEF OneClusterer
<1>b. ASSUME NEW i \in Instance, DOMAIN creator'[i].superevents = {} PROVE OrderedAt(i)'
  BY <1>b DEF OrderedAt
<1>c. ASSUME NEW i \in Instance, creator'[i] = creator[i], inbox'[i] = inbox[i],
             Unapplied(i)' = Unapplied(i), UNCHANGED <<requests, served, results, rewinds>>
      PROVE  OrderedAt(i)'
  BY <1>0, <1>c DEF OrderedAt
<1>d. DOMAIN EmptyCreator.superevents = {}
  BY DEF EmptyCreator
<1>1. ASSUME NEW i \in Instance, Start(i) PROVE OrderedAt(i)'
  BY <1>b, <1>1
<1>2. ASSUME NEW i \in Instance, Lose(i) PROVE OrderedAt(i)'
  BY <1>b, <1>d, <1>2, LoseStep
<1>3. ASSUME NEW i \in Instance,
             \/ Stop(i) \/ Emit(i) \/ ArchiveSuperevent(i) \/ RecordRequest(i) \/ Persist(i)
             \/ PatchCenter(i) \/ StoreFits(i) \/ StoreContours(i)
      PROVE  OrderedAt(i)'
  <2>1. /\ UNCHANGED <<creator, inbox, taken, seen>>
        /\ UNCHANGED <<requests, served, results, rewinds>>
    BY <1>3
    DEF Stop, Emit, ArchiveSuperevent, RecordRequest, Persist, PatchCenter, StoreFits,
        StoreContours, local, topics
  <2>. QED
    BY <1>c, <2>1 DEF Unapplied
<1>4. ASSUME NEW i \in Instance, PersistMaps(i) PROVE OrderedAt(i)'
  <2>1. /\ UNCHANGED <<requests, served, results, rewinds>>
        /\ taken' = taken /\ seen' = seen
        /\ \/ creator' = creator /\ inbox' = inbox
           \/ creator'[i] = EmptyCreator
    BY <1>4, PersistMapsStep DEF local, topics
  <2>. QED
    BY <1>b, <1>c, <1>d, <2>1 DEF Unapplied
<1>5. ASSUME NEW i \in Instance, Drain(i) \/ ReceiveResult(i) PROVE OrderedAt(i)'
  <2>1. PICK n \in seen[i] .. Len(results) : seen'[i] = n /\ Len(taken'[i]) = n - seen[i]
    BY <1>5, TakeStep
  <2>2. /\ UNCHANGED <<creator, inbox>> /\ UNCHANGED <<requests, served, results, rewinds>>
        /\ pc[i] \in {"drain", "quiet"}
    BY <1>5, TakeStep DEF topics
  <2>3. taken[i] = <<>>
    BY <1>0, <2>2 DEF TakenOK, OnMap
  <2>4. Len(taken[i]) = 0 /\ seen[i] \in Nat /\ n \in Int
    BY <1>0, <2>3
  <2>5. seen'[i] - Len(taken'[i]) + 1 = seen[i] - Len(taken[i]) + 1
    BY <2>1, <2>4
  <2>. QED
    BY <1>c, <2>2, <2>5 DEF Unapplied
<1>6. ASSUME NEW i \in Instance, NEW e \in Event, HandleEvent(i, e) PROVE OrderedAt(i)'
  <2> DEFINE c == creator[i]
             d == Process(c, e)
             u == Update(c, e)
  <2>0. GoodCreator(c) /\ OrderedAt(i)
    BY <1>0
  <2>1. PICK h \in DOMAIN d.superevents :
          /\ \A t \in DOMAIN d.superevents : t \in DOMAIN c.superevents \/ t = h
          /\ \A t \in DOMAIN c.superevents \ {h} : /\ d.superevents[t] = c.superevents[t]
                                                  /\ d.times[t] = c.times[t]
          /\ d.times[h] = u.id
          /\ h \in DOMAIN c.superevents =>
               LET s == c.superevents[h]
                   r == d.superevents[h]
               IN  /\ d.times[h] = c.times[h] /\ r.skymap = s.skymap
                   /\ Range(r.g_events) = Range(s.g_events) \cup {e}
                   /\ \/ r.preferred_event = e
                      \/ r.preferred_event = s.preferred_event
          /\ h \notin DOMAIN c.superevents =>
               LET r == d.superevents[h]
               IN  /\ u.id = c.next_seq /\ r.skymap = NoSkymap
                   /\ Range(r.g_events) = {e} /\ r.preferred_event = e
    BY <2>0, ProcessStep
  <2>. HIDE DEF u, d
  <2>2. /\ creator'[i] = d /\ inbox'[i] = inbox[i] \ {e} /\ e \in inbox[i] /\ pc[i] = "idle"
        /\ Unapplied(i)' = Unapplied(i) /\ UNCHANGED <<requests, served, results, rewinds>>
    BY <1>6, HandleStep DEF d, topics, Unapplied
  <2>3. \A t \in DOMAIN c.superevents : Range(c.superevents[t].g_events) \cap inbox[i] = {}
    BY <2>0 DEF OrderedAt
  <2>4. ASSUME NEW t \in DOMAIN d.superevents
        PROVE  Range(d.superevents[t].g_events) \cap inbox'[i] = {}
    BY <2>1, <2>2, <2>3
  <2>5. ASSUME NEW t \in DOMAIN d.superevents, rewinds = 0
        PROVE  LET id == d.times[t]
                   s == d.superevents[t]
               IN  OnCourse(results, At(requests, id, <<>>), At(served, id, 0),
                            Unapplied(i), id, s.preferred_event, s.skymap)
    <3>1. CASE t # h \/ (h \in DOMAIN c.superevents /\
                         d.superevents[h].preferred_event = c.superevents[h].preferred_event)
      <4>1. /\ t \in DOMAIN c.superevents /\ d.times[t] = c.times[t]
            /\ d.superevents[t].preferred_event = c.superevents[t].preferred_event
            /\ d.superevents[t].skymap = c.superevents[t].skymap
        BY <2>1, <3>1
      <4>2. OnCourse(results, At(requests, c.times[t], <<>>), At(served, c.times[t], 0),
                     Unapplied(i), c.times[t], c.superevents[t].preferred_event,
                     c.superevents[t].skymap)
        BY <2>0, <2>5, <4>1 DEF OrderedAt
      <4>. QED
        BY <4>1, <4>2
    <3>2. CASE t = h /\ d.superevents[h].preferred_event = e
      <4>1. ~ RecordedIn(c, d.times[h], e)
        <5>1. \A v \in DOMAIN c.superevents : c.times[v] # c.next_seq
          BY <2>0 DEF GoodCreator
        <5>2. \A v, w \in DOMAIN c.superevents : c.times[v] = c.times[w] => v = w
          BY <2>0 DEF GoodCreator
        <5>. QED
          BY <2>1, <2>2, <2>3, <5>1, <5>2 DEF RecordedIn
      <4>2. d.superevents[h].skymap # e
        <5>1. \A v \in DOMAIN c.superevents : OwnMap(c.superevents[v])
          BY DEF Asked, AskedAt
        <5>. QED
          BY <2>1, <2>2, <2>3, <5>1, SkymapAssumption DEF OwnMap
      <4>3. pc[i] # "down"
        BY <2>2
      <4>. QED
        BY <3>2, <4>1, <4>2, <4>3, NothingAsked
    <3>. QED
      BY <2>1, <3>1, <3>2
  <2>. QED
    BY <2>2, <2>4, <2>5 DEF OrderedAt
<1>7. ASSUME NEW i \in Instance, Localize(i) PROVE OrderedAt(i)'
  <2> DEFINE u == update[i]
             c == creator[i]
             q == Append(Queued(u.id), u.event)
  <2>1. /\ pc[i] = "localize" /\ UNCHANGED <<creator, inbox, taken, seen>>
        /\ UNCHANGED <<served, results, rewinds>>
        /\ requests' = requests \/ (Requested(u) /\ requests' = Insert(requests, u.id, q))
    BY <1>7, LocalizeStep DEF local
  <2>2. CASE requests' = requests
    BY <1>c, <2>1, <2>2 DEF Unapplied
  <2>3. CASE Requested(u) /\ requests' = Insert(requests, u.id, q)
    <3>1. PICK t0 \in DOMAIN c.superevents :
            c.times[t0] = u.id /\ c.superevents[t0].preferred_event = u.event
      BY <1>0, <2>1, <2>3 DEF UpdateOK, OnEvent, OpenAt
    <3>2. u.event \in Event /\ GoodCreator(c)
      BY <1>0, <2>1 DEF UpdateOK, OnEvent
    <3>3. Queued(u.id) = At(requests, u.id, <<>>) /\ Queued(u.id) \in Seq(Event)
      BY <1>0 DEF Queued, At
    <3>. HIDE DEF q
    <3>4. \A id : At(requests', id, <<>>) = IF id = u.id THEN q ELSE At(requests, id, <<>>)
      BY <2>3 DEF At, Insert
    <3>5. ASSUME NEW t \in DOMAIN c.superevents, rewinds = 0
          PROVE  LET id == c.times[t]
                     s == c.superevents[t]
                 IN  OnCourse(results, At(requests', id, <<>>), At(served, id, 0),
                              Unapplied(i), id, s.preferred_event, s.skymap)
      <4>1. OnCourse(results, At(requests, c.times[t], <<>>), At(served, c.times[t], 0),
                     Unapplied(i), c.times[t], c.superevents[t].preferred_event,
                     c.superevents[t].skymap)
        BY <1>0, <3>5 DEF OrderedAt
      <4>2. CASE c.times[t] # u.id
        <5>1. At(requests', c.times[t], <<>>) = At(requests, c.times[t], <<>>)
          BY <3>4, <4>2
        <5>. QED
          BY <4>1, <5>1
      <4>3. CASE c.times[t] = u.id
        <5>1. t = t0
          BY <3>1, <3>2, <4>3 DEF GoodCreator
        <5>2. At(requests', c.times[t], <<>>) = Append(Queued(u.id), u.event)
          BY <3>4, <4>3 DEF q
        <5>3. /\ c.superevents[t].preferred_event = u.event
              /\ OnCourse(results, Queued(u.id), At(served, c.times[t], 0),
                          Unapplied(i), c.times[t], u.event, c.superevents[t].skymap)
          BY <3>1, <3>3, <4>1, <4>3, <5>1
        <5>4. OnCourse(results, Append(Queued(u.id), u.event), At(served, c.times[t], 0),
                       Unapplied(i), c.times[t], u.event, c.superevents[t].skymap)
          BY <3>2, <3>3, <5>3, MoreAsked
        <5>. QED
          BY <5>2, <5>3, <5>4
      <4>. QED
        BY <4>2, <4>3
    <3>6. Unapplied(i)' = Unapplied(i)
      BY <2>1 DEF Unapplied
    <3>. QED
      BY <1>0, <2>1, <3>5, <3>6 DEF OrderedAt
  <2>. QED
    BY <2>1, <2>2, <2>3
<1>8. ASSUME NEW i \in Instance, ApplyResult(i) PROVE OrderedAt(i)'
  <2> DEFINE r == taken[i][1]
             c == creator[i]
             id0 == r.superevent_id
             d == AttachSkymap(c, id0, r.event)
             n0 == Unapplied(i)
             n1 == Unapplied(i)'
  <2>1. /\ pc[i] = "result" /\ taken[i] # <<>> /\ taken'[i] = Tail(taken[i])
        /\ seen'[i] = seen[i] /\ inbox'[i] = inbox[i] /\ r.event \in Event
        /\ UNCHANGED <<requests, served, results, rewinds>>
        /\ creator'[i] = d \/ creator'[i] = c
    BY <1>8, ApplyStep DEF LocalizeResult, topics
  <2>2. /\ Len(taken[i]) \in Nat /\ 1 \in 1 .. Len(taken[i])
        /\ Len(taken'[i]) = Len(taken[i]) - 1
    BY <1>0, <2>1
  <2>3. /\ r = results[(seen[i] - Len(taken[i])) + 1]
        /\ Len(taken[i]) <= seen[i] /\ seen[i] <= Len(results)
    BY <1>0, <2>2 DEF TakenOK
  <2>4. /\ n0 \in DOMAIN results /\ r = results[n0]
        /\ n1 = n0 + 1
    <3>1. (seen[i] - Len(taken[i])) + 1 \in 1 .. Len(results)
      BY <1>0, <2>2, <2>3
    <3>2. seen'[i] - Len(taken'[i]) + 1 = (seen[i] - Len(taken[i]) + 1) + 1
      BY <1>0, <2>1, <2>2
    <3>. QED
      BY <1>0, <2>3, <3>1, <3>2 DEF Unapplied
  <2>5. /\ d.times = c.times /\ DOMAIN d.superevents = DOMAIN c.superevents
        /\ \A t \in DOMAIN c.superevents :
             /\ d.superevents[t].g_events = c.superevents[t].g_events
             /\ d.superevents[t].preferred_event = c.superevents[t].preferred_event
             /\ c.times[t] = id0 => d.superevents[t].skymap = r.event
             /\ c.times[t] # id0 => d.superevents[t] = c.superevents[t]
    BY <1>0, <2>1, AttachStep
  <2>. HIDE DEF d, r, n0, n1
  <2>6. ASSUME NEW t \in DOMAIN c.superevents, rewinds = 0, NEW map,
               map = c.superevents[t].skymap \/ (c.times[t] = id0 /\ map = r.event)
        PROVE  OnCourse(results, At(requests, c.times[t], <<>>), At(served, c.times[t], 0),
                        n1, c.times[t], c.superevents[t].preferred_event, map)
    <3>1. OnCourse(results, At(requests, c.times[t], <<>>), At(served, c.times[t], 0),
                   n0, c.times[t], c.superevents[t].preferred_event,
                   c.superevents[t].skymap)
      BY <1>0, <2>6 DEF OrderedAt, n0
    <3> DEFINE id == c.times[t]
               q == At(requests, id, <<>>)
               k == At(served, id, 0)
               p == c.superevents[t].preferred_event
               own == c.superevents[t].skymap
    <3>2. OnCourse(results, q, k, n0, id, p, own)
      BY <3>1
    <3>. HIDE DEF id, q, k, p, own
    <3>3. /\ OnCourse(results, q, k, n1, id, p, own)
          /\ results[n0].superevent_id = id =>
               OnCourse(results, q, k, n1, id, p, results[n0].event)
      BY <1>0, <2>4, <3>2, Applied
    <3>4. OnCourse(results, q, k, n1, id, p, map)
      BY <2>4, <2>6, <3>3 DEF id, own
    <3>. QED
      BY <3>4 DEF id, q, k, p
  <2>7. CASE creator'[i] = c
    BY <1>0, <2>1, <2>6, <2>7 DEF OrderedAt, n1
  <2>8. CASE creator'[i] = d
    <3>1. \A t \in DOMAIN c.superevents :
            \/ d.superevents[t].skymap = c.superevents[t].skymap
            \/ c.times[t] = id0 /\ d.superevents[t].skymap = r.event
      BY <2>5
    <3>2. ASSUME NEW t \in DOMAIN c.superevents, rewinds = 0
          PROVE  OnCourse(results, At(requests, c.times[t], <<>>), At(served, c.times[t], 0),
                          n1, c.times[t], c.superevents[t].preferred_event,
                          d.superevents[t].skymap)
      BY <2>6, <3>1, <3>2
    <3>3. \A t \in DOMAIN c.superevents : Range(c.superevents[t].g_events) \cap inbox[i] = {}
      BY <1>0 DEF OrderedAt
    <3>. QED
      BY <2>1, <2>5, <2>8, <3>2, <3>3 DEF OrderedAt, n1
  <2>. QED
    BY <2>1, <2>7, <2>8
<1>9. ASSUME NEW id0 \in DOMAIN requests, Serve(id0), NEW i \in Instance PROVE OrderedAt(i)'
  <2> DEFINE k == Consumed(id0)
             c == creator[i]
             q == requests[id0]
  <2>1. /\ k \in Nat /\ k < Len(q) /\ served' = Insert(served, id0, k + 1)
        /\ UNCHANGED <<creator, inbox, taken, seen, requests, rewinds>>
    BY <1>9, ServeStep DEF local
  <2>2. PICK ok \in BOOLEAN :
          results' = Append(results, [ superevent_id |-> id0, ok |-> ok, event |-> q[k + 1] ])
    BY <1>9, ServeStep
  <2> DEFINE r == [ superevent_id |-> id0, ok |-> ok, event |-> q[k + 1] ]
  <2>3. q \in Seq(Event) /\ id0 \in Nat
    BY <1>0 DEF Base, Shape
  <2>4. q[k + 1] \in Event
    BY <2>1, <2>3
  <2>5. /\ r \in LocalizeResult /\ r.superevent_id = id0 /\ r.event = q[k + 1]
        /\ results' = Append(results, r)
    BY <2>2, <2>3, <2>4 DEF LocalizeResult
  <2>. HIDE DEF r
  <2>6. /\ At(requests, id0, <<>>) = q /\ At(served, id0, 0) = k /\ At(served', id0, 0) = k + 1
        /\ \A id : id # id0 => At(served', id, 0) = At(served, id, 0)
    BY <2>1 DEF At, Insert, Consumed
  <2>. HIDE DEF q, k
  <2>7. ASSUME NEW t \in DOMAIN c.superevents, rewinds = 0
        PROVE  LET id == c.times[t]
                   s == c.superevents[t]
               IN  OnCourse(results', At(requests, id, <<>>), At(served', id, 0),
                            Unapplied(i), id, s.preferred_event, s.skymap)
    <3>1. OnCourse(results, At(requests, c.times[t], <<>>), At(served, c.times[t], 0),
                   Unapplied(i), c.times[t], c.superevents[t].preferred_event,
                   c.superevents[t].skymap)
      BY <1>0, <2>7 DEF OrderedAt
    <3>2. CASE c.times[t] = id0
      <4>1. OnCourse(Append(results, r), q, k + 1, Unapplied(i), id0,
                     c.superevents[t].preferred_event, c.superevents[t].skymap)
        <5>1. OnCourse(results, q, k, Unapplied(i), id0,
                       c.superevents[t].preferred_event, c.superevents[t].skymap)
          BY <2>6, <3>1, <3>2
        <5>. QED
          BY <1>0, <2>1, <2>3, <2>5, <5>1, MoreAnswered
      <4>. QED
        BY <2>5, <2>6, <3>2, <4>1
    <3>3. CASE c.times[t] # id0
      <4>1. OnCourse(Append(results, r), At(requests, c.times[t], <<>>),
                     At(served, c.times[t], 0), Unapplied(i), c.times[t],
                     c.superevents[t].preferred_event, c.superevents[t].skymap)
        BY <1>0, <2>5, <3>1, <3>3, OtherAnswered
      <4>. QED
        BY <2>5, <2>6, <3>3, <4>1
    <3>. QED
      BY <3>2, <3>3
  <2>8. Unapplied(i)' = Unapplied(i)
    BY <2>1 DEF Unapplied
  <2>. QED
    BY <1>0, <2>1, <2>7, <2>8 DEF OrderedAt
<1>10. ASSUME NEW id \in DOMAIN requests, ServiceRestart(id), NEW i \in Instance
       PROVE  OrderedAt(i)'
  <2>1. UNCHANGED <<creator, inbox>> /\ rewinds' # 0
    BY <1>10, RestartStep DEF local
  <2>. QED
    BY <1>0, <2>1 DEF OrderedAt
<1>11. ASSUME UNCHANGED vars, NEW i \in Instance PROVE OrderedAt(i)'
  BY <1>c, <1>11 DEF Unapplied, vars, local, topics
<1>. QED
  BY <1>a, <1>1, <1>2, <1>3, <1>4, <1>5, <1>6, <1>7, <1>8, <1>9, <1>10, <1>11
  DEF Next, Run, Crash, QuietExit, DeadlineExit, Ordered

LEMMA OrderedAlways ==
  ASSUME StartsOnce
  PROVE  Spec => []Ordered
<1>1. Init => Ordered
  BY DEF Init, Ordered, OrderedAt, EmptyCreator
<1>2. Base /\ Pristine /\ Asked /\ Ordered /\ [Next]_vars => Ordered'
  <2> SUFFICES ASSUME Base, Pristine, Asked, Ordered, [Next]_vars PROVE Ordered'
    OBVIOUS
  <2>1. \A i \in Instance : Start(i) => DOMAIN creator'[i].superevents = {}
    BY FirstStart
  <2>. QED
    BY <2>1, OrderedKept DEF StartsOnce
<1>. QED
  BY <1>1, <1>2, ClustererInvariant, PristineAlways, AskedAlways, PTL DEF Spec


\* A superevent with the sky map of its preferred event keeps it until another
\* is preferred, step by step.
LEMMA FreshMapKept ==
  ASSUME OneClusterer, Base, Ordered, Next, rewinds' = 0,
         \A i \in Instance : Start(i) => DOMAIN creator'[i].superevents = {},
         NEW i \in Instance,
         NEW t \in DOMAIN creator[i].superevents \cap DOMAIN creator'[i].superevents,
         creator[i].superevents[t].skymap = creator[i].superevents[t].preferred_event
  PROVE  creator'[i].superevents[t].skymap = creator[i].superevents[t].skymap
<1> DEFINE c == creator[i]
<1>0. GoodCreator(c) /\ OrderedAt(i) /\ TakenOK(i)
  BY DEF Base, Windows, Taken, Ordered
<1>1. CASE creator'[i] = c
  BY <1>1
<1>2. ASSUME NEW e \in Event, HandleEvent(i, e)
      PROVE  creator'[i].superevents[t].skymap = c.superevents[t].skymap
  <2> DEFINE d == Process(c, e)
  <2>1. PICK h \in DOMAIN d.superevents :
          /\ \A v \in DOMAIN c.superevents \ {h} : d.superevents[v] = c.superevents[v]
          /\ h \in DOMAIN c.superevents => d.superevents[h].skymap = c.superevents[h].skymap
    BY <1>0, ProcessStep
  <2>2. creator'[i] = d
    BY <1>2, HandleStep
  <2>. HIDE DEF d
  <2>. QED
    BY <2>1, <2>2
<1>3. ASSUME ApplyResult(i)
      PROVE  creator'[i].superevents[t].skymap = c.superevents[t].skymap
  <2> DEFINE r == taken[i][1]
             d == AttachSkymap(c, r.superevent_id, r.event)
             n0 == Unapplied(i)
  <2>1. /\ taken[i] # <<>> /\ r.event \in Event /\ UNCHANGED rewinds
        /\ creator'[i] = d \/ creator'[i] = c
    BY <1>3, ApplyStep DEF LocalizeResult
  <2>2. n0 \in DOMAIN results /\ r = results[n0] /\ n0 >= n0
    <3>1. /\ taken[i] \in Seq(LocalizeResult) /\ seen[i] \in Nat
          /\ results \in Seq(LocalizeResult)
      BY DEF Base, Shape
    <3>2. Len(taken[i]) \in Nat /\ 1 \in 1 .. Len(taken[i])
      BY <2>1, <3>1
    <3>3. /\ r = results[(seen[i] - Len(taken[i])) + 1]
          /\ Len(taken[i]) <= seen[i] /\ seen[i] <= Len(results)
      BY <1>0, <3>2 DEF TakenOK
    <3>4. (seen[i] - Len(taken[i])) + 1 \in 1 .. Len(results)
      BY <3>1, <3>2, <3>3
    <3>. QED
      BY <3>1, <3>2, <3>3, <3>4 DEF Unapplied
  <2>3. c.times[t] = r.superevent_id => r.event = c.superevents[t].preferred_event
    <3>1. rewinds = 0
      BY <2>1
    <3>2. OnCourse(results, At(requests, c.times[t], <<>>), At(served, c.times[t], 0),
                   n0, c.times[t], c.superevents[t].preferred_event,
                   c.superevents[t].skymap)
      BY <1>0, <3>1 DEF OrderedAt
    <3>. HIDE DEF n0, r
    <3>. QED
      BY <2>2, <3>2 DEF OnCourse, Settled
  <2>4. /\ c.times[t] = r.superevent_id => d.superevents[t].skymap = r.event
        /\ c.times[t] # r.superevent_id => d.superevents[t] = c.superevents[t]
    BY <1>0, <2>1, AttachStep
  <2>. HIDE DEF d
  <2>. QED
    BY <2>1, <2>3, <2>4
<1>4. \/ creator'[i] = c \/ \E e \in Event : HandleEvent(i, e)
      \/ ApplyResult(i)
  <2>1. ASSUME Lose(i) PROVE FALSE
    BY <2>1, LoseStep DEF EmptyCreator
  <2>2. ASSUME PersistMaps(i) PROVE creator'[i] = c
    BY <2>2, PersistMapsStep DEF local, EmptyCreator
  <2>3. ASSUME Start(i) PROVE FALSE
    BY <2>3
  <2>4. ASSUME Run(i)
        PROVE  \/ creator'[i] = c \/ \E e \in Event : HandleEvent(i, e)
               \/ ApplyResult(i)
    BY <2>1, <2>2, <2>4
    DEF Run, Emit, ArchiveSuperevent, Localize, RecordRequest, Persist, Drain, ReceiveResult,
        PatchCenter, StoreFits, StoreContours, QuietExit, DeadlineExit, local
  <2>5. ASSUME NEW j \in Instance, Start(j) \/ Crash(j) \/ Stop(j) \/ Run(j)
        PROVE  Start(i) \/ Crash(i) \/ Stop(i) \/ Run(i)
    <3>1. j = i
      BY DEF OneClusterer
    <3>. QED
      BY <2>5, <3>1
  <2>. QED
    BY <2>1, <2>3, <2>4, <2>5 DEF Next, Crash, Stop, Serve, ServiceRestart, local
<1>. QED
  BY <1>1, <1>2, <1>3, <1>4

\* Once a superevent has the sky map of its preferred event no late result of an
\* earlier request replaces it, as long as the bayestar-service did not restart
\* and the one clusterer does not start again, whatever else fails.
THEOREM FreshMapsStay ==
  ASSUME StartsOnce
  PROVE  Spec => FreshMapStays
<1> DEFINE keeps ==
      rewinds' = 0 =>
        \A i \in Instance :
          \A t \in DOMAIN creator[i].superevents \cap DOMAIN creator'[i].superevents :
            LET s == creator[i].superevents[t]
                r == creator'[i].superevents[t]
            IN  s.skymap = s.preferred_event /\ r.preferred_event = s.preferred_event =>
                  r.skymap = s.skymap
<1>1. Base /\ Pristine /\ Ordered /\ [Next]_vars => [keeps]_vars
  <2> SUFFICES ASSUME Base, Pristine, Ordered, Next, rewinds' = 0, NEW i \in Instance,
                      NEW t \in DOMAIN creator[i].superevents
                                  \cap DOMAIN creator'[i].superevents,
                      creator[i].superevents[t].skymap =
                        creator[i].superevents[t].preferred_event
               PROVE  creator'[i].superevents[t].skymap = creator[i].superevents[t].skymap
    OBVIOUS
  <2>1. \A j \in Instance : Start(j) => DOMAIN creator'[j].superevents = {}
    BY FirstStart
  <2>. QED
    BY <2>1, FreshMapKept DEF StartsOnce
<1>. QED
  BY <1>1, ClustererInvariant, PristineAlways, OrderedAlways, PTL DEF Spec, FreshMapStays


===============================================================================
