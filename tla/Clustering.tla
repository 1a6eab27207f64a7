------------------------------ MODULE Clustering ------------------------------
(***************************************************************************)
(* The clustering engine of src/clustering.rs as operators on a creator    *)
(* value: a SupereventCreator goes in, the SupereventCreator after the     *)
(* call comes out.  The state machines that own a creator                  *)
(* (SupereventCreator, Clusterer) extend this module, and so do the        *)
(* operators of src/state.rs that store a creator and rebuild it.          *)
(*                                                                         *)
(* A G event carries what clustering reads: its graceid, its GPS end time, *)
(* its SNR and its FAR.  Times and ranks are integers: the code's f64      *)
(* arithmetic is exact on them, rounding is not modelled.  The sky map     *)
(* BAYESTAR computes from an event is denoted by that event, and an id     *)
(* S%06d by its sequence number.                                           *)
(***************************************************************************)
EXTENDS Integers, Sequences, FiniteSets, Functions

CONSTANTS
  Event,     \* the G events GraceDB publishes: [graceid, end_time, snr, far]
  Half,      \* half of window_duration
  NoSkymap   \* Superevent.skymap = None

ASSUME EventAssumption ==
  \A e \in Event : e.end_time \in Int /\ e.snr \in Int /\ e.far \in Int

\* GraceDB never gives one graceid to two different events.
ASSUME GraceidAssumption == \A e, f \in Event : e.graceid = f.graceid => e = f

ASSUME HalfAssumption == Half \in Nat

ASSUME SkymapAssumption == NoSkymap \notin Event

Superevent ==
  [ id : Nat, t_0 : Int, t_start : Int, t_end : Int,
    preferred_event : Event, g_events : Seq(Event),
    skymap : Event \cup {NoSkymap} ]

\* A BTreeMap: a function on the keys it holds; insert replaces.
Insert(map, key, value) ==
  [k \in DOMAIN map \cup {key} |-> IF k = key THEN value ELSE map[k]]

Distance(a, b) == IF a < b THEN b - a ELSE a - b

-------------------------------------------------------------------------------
(* SupereventCreator::new and from_persisted *)

\* SupereventCreator::new: nothing open, ids from S000000.
EmptyCreator == [superevents |-> <<>>, times |-> <<>>, next_seq |-> 0]

\* Variant: a stored superevent is keyed by its preferred event's time.
FromPersistedByPreferred(stored, next) ==
  LET key(id) == stored[id].preferred_event.end_time
      at(t) == CHOOSE id \in DOMAIN stored :
                 key(id) = t /\ \A other \in DOMAIN stored : key(other) = t => other <= id
      keys == {key(id) : id \in DOMAIN stored}
  IN  [ superevents |-> [t \in keys |-> stored[at(t)]],
        times       |-> [t \in keys |-> at(t)],
        next_seq    |-> next ]

\* SupereventCreator::from_persisted: each stored superevent is inserted under
\* its own t_0 in both maps, in the order stored; of two with one t_0 the later
\* (the larger id) stays.  `stored` maps ids to superevents.
FromPersisted(stored, next) ==
  LET at(t) == CHOOSE id \in DOMAIN stored :
                 /\ stored[id].t_0 = t
                 /\ \A other \in DOMAIN stored : stored[other].t_0 = t => other <= id
      keys == {stored[id].t_0 : id \in DOMAIN stored}
  IN  [ superevents |-> [t \in keys |-> stored[at(t)]],
        times       |-> [t \in keys |-> at(t)],
        next_seq    |-> next ]

-------------------------------------------------------------------------------
(* find_closest_t0: bisect the temporal index *)

\* The two t_0 around gps: the largest below it (range(..key).next_back()) and
\* the smallest not below it (range(key..).next()).
Neighbours(times, gps) ==
  LET below    == {t \in DOMAIN times : t < gps}
      notBelow == {t \in DOMAIN times : t >= gps}
  IN  {t \in below : \A u \in below : u <= t}
        \cup {t \in notBelow : \A u \in notBelow : t <= u}

\* Variant: the window test is strict.
CandidatesStrict(times, gps) ==
  {t \in Neighbours(times, gps) : Distance(gps, t) < Half}

\* Variant: the whole window_duration is taken for half of it.
CandidatesWide(times, gps) ==
  {t \in Neighbours(times, gps) : Distance(gps, t) <= 2 * Half}

\* The neighbours whose window holds gps.
Candidates(times, gps) ==
  {t \in Neighbours(times, gps) : Distance(gps, t) <= Half}

\* Variant: the first candidate is taken, whichever is closer.
FirstCandidate(times, gps) ==
  CHOOSE t \in Candidates(times, gps) : \A u \in Candidates(times, gps) : t <= u

\* min_by on the distance; on a tie min_by keeps the first candidate, which is
\* the one before gps.
ClosestT0(times, gps) ==
  CHOOSE t \in Candidates(times, gps) :
    \A u \in Candidates(times, gps) :
      \/ Distance(gps, t) < Distance(gps, u)
      \/ Distance(gps, t) = Distance(gps, u) /\ t <= u

-------------------------------------------------------------------------------
(* process *)

\* find_closest_t0 returns None: the event opens a window of its own.
Opens(c, e) == Candidates(c.times, e.end_time) = {}

\* The t_0 of the superevent the event joins, when it opens none.
HostT0(c, e) == ClosestT0(c.times, e.end_time)

\* Variant: an equally loud event displaces the preferred one.
PromotesEqual(c, e) ==
  e.snr >= c.superevents[HostT0(c, e)].preferred_event.snr

\* Variant: the comparison the wrong way round.
PromotesQuieter(c, e) ==
  e.snr < c.superevents[HostT0(c, e)].preferred_event.snr

\* event.snr > superevent.preferred_event.snr
Promotes(c, e) ==
  e.snr > c.superevents[HostT0(c, e)].preferred_event.snr

\* Variant: the event is recorded only when one joins.
NewSupereventUnrecorded(seq, e) ==
  [ id |-> seq, t_0 |-> e.end_time,
    t_start |-> e.end_time - Half, t_end |-> e.end_time + Half,
    preferred_event |-> e, g_events |-> <<>>, skymap |-> NoSkymap ]

\* What the None arm of process builds.
NewSuperevent(seq, e) ==
  [ id |-> seq, t_0 |-> e.end_time,
    t_start |-> e.end_time - Half, t_end |-> e.end_time + Half,
    preferred_event |-> e, g_events |-> <<e>>, skymap |-> NoSkymap ]

\* Variant: a promoted event is not recorded among the G events.
JoinUnrecorded(s, e, promoted) ==
  [ s EXCEPT !.preferred_event = IF promoted THEN e ELSE @,
             !.g_events = IF promoted THEN @ ELSE Append(@, e) ]

\* What the Some arm of process makes of the superevent: the event is recorded,
\* and is the preferred one from now on if it is louder.  The sky map stays.
Join(s, e, promoted) ==
  [ s EXCEPT !.preferred_event = IF promoted THEN e ELSE @,
             !.g_events = Append(@, e) ]

\* Variant: allocate_id forgets to advance the sequence.
OpenSticky(c, e) ==
  [ superevents |-> Insert(c.superevents, e.end_time, NewSuperevent(c.next_seq, e)),
    times       |-> Insert(c.times, e.end_time, c.next_seq),
    next_seq    |-> c.next_seq ]

\* The None arm: allocate_id, then the new superevent enters both maps.
Open(c, e) ==
  [ superevents |-> Insert(c.superevents, e.end_time, NewSuperevent(c.next_seq, e)),
    times       |-> Insert(c.times, e.end_time, c.next_seq),
    next_seq    |-> c.next_seq + 1 ]

\* SupereventCreator::process, the creator it leaves.
Process(c, e) ==
  IF Opens(c, e)
    THEN Open(c, e)
    ELSE [c EXCEPT !.superevents[HostT0(c, e)] = Join(@, e, Promotes(c, e))]

\* SupereventCreator::process, the SupereventUpdate it returns.
Update(c, e) ==
  IF Opens(c, e)
    THEN [action |-> "created", id |-> c.next_seq, event |-> e]
    ELSE [ action |-> IF Promotes(c, e) THEN "preferred_updated" ELSE "skipped",
           id     |-> c.superevents[HostT0(c, e)].id,
           event  |-> e ]

-------------------------------------------------------------------------------
(* attach_skymap, cleanup_before *)

\* The keys under which the index holds this id.
KeysOf(c, id) == {t \in DOMAIN c.times : c.times[t] = id}

\* Variant: the map lands on every superevent still without one.
AttachToMissing(c, id, fits) ==
  [c EXCEPT !.superevents =
     [t \in DOMAIN @ |-> IF c.times[t] = id \/ @[t].skymap = NoSkymap
                           THEN [@[t] EXCEPT !.skymap = fits] ELSE @[t]]]

\* SupereventCreator::attach_skymap: the first index entry with this superevent
\* id, whatever map it already has.  An unknown id changes nothing (the call
\* returns None).
AttachSkymap(c, id, fits) ==
  [c EXCEPT !.superevents =
     [t \in DOMAIN @ |->
        IF t \in KeysOf(c, id) /\ \A u \in KeysOf(c, id) : t <= u
          THEN [@[t] EXCEPT !.skymap = fits] ELSE @[t]]]

\* Variant: the superevents go, their index entries stay.
CleanupSuperevents(c, cutoff) ==
  [c EXCEPT !.superevents = Restrict(@, {t \in DOMAIN @ : @[t].t_end >= cutoff})]

\* SupereventCreator::cleanup_before: drop every window that ended before
\* cutoff, from both maps.
CleanupBefore(c, cutoff) ==
  LET kept == {t \in DOMAIN c.superevents : ~ (c.superevents[t].t_end < cutoff)}
  IN  [ superevents |-> Restrict(c.superevents, kept),
        times       |-> Restrict(c.times, DOMAIN c.times \cap kept),
        next_seq    |-> c.next_seq ]

-------------------------------------------------------------------------------
(* state.rs *)

\* save_to_redis: the hash {prefix}:open, from superevent id to superevent,
\* replaced as a whole (the t0 index zset holds the same ids with their t_0).
SaveToRedis(c) ==
  LET holders(id) == {t \in DOMAIN c.superevents : c.superevents[t].id = id}
  IN  [id \in {c.superevents[t].id : t \in DOMAIN c.superevents} |->
         c.superevents[CHOOSE t \in holders(id) : \A u \in holders(id) : u <= t]]

\* Variant: the count of the restored ids, whatever they are.
NextSeqByCount(ids) == Cardinality(ids)

\* Variant: the largest suffix, not one past it.
NextSeqOfLast(ids) ==
  IF ids = {} THEN 0 ELSE CHOOSE n \in ids : \A m \in ids : m <= n

\* next_seq_from_ids: one past the largest suffix, 0 when nothing is stored.
NextSeqFromIds(ids) ==
  IF ids = {} THEN 0 ELSE 1 + CHOOSE n \in ids : \A m \in ids : m <= n

\* load_from_redis: the creator rebuilt from the hash, and the sequence number
\* from its ids.
LoadFromRedis(stored) == FromPersisted(stored, NextSeqFromIds(DOMAIN stored))

===============================================================================
