# Verification of boom-gw

TLA+ models of boom-gw (`src/`, Rust, with the Python `bayestar-service`), the
TLC runs that check them on small instances, and theorems that TLAPS proves for
every value of the constants. Paths below are relative to the repository.

    tlc  -workers 4 -config SupereventCreator.cfg MCSupereventCreator
    tlapm SupereventCreatorProofs.tla

## The system

| component | state it keeps | operations | talks to |
|---|---|---|---|
| superevent creator (`src/clustering.rs`) | open windows by `t_0`, a temporal index, the next id | `process`, `attach_skymap`, `cleanup_before` | called by the clusterer |
| state persistence (`src/state.rs`) | the Redis hash `{prefix}:open` and its index | `save_to_redis`, `load_from_redis` | Redis |
| gw-clusterer (`src/bin/gw_clusterer.rs`, `src/kafka.rs`) | one creator, an update under way, the results taken, consumer positions | `process_event`, two drains, start, stop | GraceDB topics, superevents topic, localize topics, Redis, MongoDB, sky map storage |
| localizer client (`src/localizer.rs`) and bayestar-service (`main.py`) | consumer positions | submit, answer, receive | the two localize topics |
| archive (`src/archive.rs`) | MongoDB collections, one document per id | upserts that replace, patches | everyone |
| sky map storage (`src/storage/skymap.rs`) | FITS and two contour levels per superevent, FITS per GRB, a Redis cache | `upsert`, `get`, and their like for contours and GRBs | clusterer, cross-matchers, API |
| cross-match (`src/ingest.rs`, `src/bin/gw_gcn_consumer.rs`, `src/api.rs`) | a document per (superevent, trigger) | rescan, match on arrival, match on request, patch | archive, storage |
| GCN consumer loop (`src/gcn_consumer.rs`, `src/bin/gw_gcn_consumer.rs`) | offsets | poll, decode, handle, store offset | GCN Kafka, archive, storage |
| notice parsers (`src/gcn.rs`, `boom.rs`, `chime_frb.rs`, `neutrino.rs`, `icecube_lvk.rs`) | none | choose a parser by topic, parse, convert times | called by the loop and by gw-api |
| public alerts (`src/api.rs`, `src/alert.rs`) | audit rows | `create_alert` | archive, storage, alert topic |
| list endpoints (`src/api.rs`, `src/archive.rs`) | none; the client keeps its page | thirteen finds with a sort, a skip and a limit | archive |
| users, groups, streams, science filters (`src/access*.rs`, `src/api.rs`) | seven collections | provisioning, group and stream management | archive |
| authentication (`src/auth.rs`, `oidc.rs`, `session.rs`, `login.rs`) | the issuers' key sets, cookies in browsers | token check, sign-in, callback, session check | CILogon, the token issuer, archive |
| numerics, metrics, tools, web, deployment | none that two steps share | | |

How they interact. Search pipelines publish G events on GraceDB topics. The
clusterer puts each into a superevent (a time window), publishes what changed,
archives it in MongoDB, asks the bayestar-service for a sky map of a new
preferred event, and saves its windows to Redis. A result comes back later on
another topic; the clusterer attaches it to the superevent, stores FITS and
contours and rescans the superevent's cross-matches. Independently the GCN
consumer stores external triggers and matches GRBs with the superevents around
them; operators use the HTTP API, whose requests are first traced to a person
(authentication) and to what that person may do (access). The processes share
MongoDB, the storage and Redis and take no lock.

What is hard, and what correctness means:

* **Creator.** Two maps under one key and a bisection that looks at two
  neighbours only. Correct: the maps agree, ids identify, windows never come
  closer than half a window, an event joins the closest window there is, the
  preferred event is the first of the loudest, a restart changes nothing.
* **Clusterer.** Five writes per event to four stores, each of which may fail on
  its own, a crash between any two, events delivered again after a restart,
  results that arrive late, twice or never. Correct: no saved window is lost,
  Redis never knows more than the history, MongoDB agrees with memory between
  two events, a superevent has a map of one of its own events, and every event
  is recorded in the end.
* **Cross-match.** Two processes and an operator read inputs at different times
  and replace one document. Correct: none of them misses a pair, and what is
  left when all is quiet is not outdated on both sides.
* **GCN consumer.** At-least-once delivery of notices that replace one another,
  three stores per notice and a handler whose errors are only logged. Correct:
  nothing below the committed offset is unhandled, redelivery does not leave an
  older notice behind, a document and its sky map are of one notice.
* **Alerts.** Four reads, a publish and an audit row, none of them atomic, and a
  cache in front of one of the reads. Correct: the rows tell what was sent, an
  alert nobody disturbed is consistent, the cache does not stay old.
* **Authentication.** A key set that is cached, shared and fetched again in the
  middle of a request, and sign-ins cut in two by a redirect. Correct: a good
  token passes, a withdrawn key fades, no session without its user.
* **Access.** Every request is a chain of database calls, and the chains of two
  requests mix. Correct: the lockout guards hold when the requests they protect
  against come one by one, a deleted group leaves nothing behind, and no mix
  stores a filter with a stream its group never had.
* **Lists.** Pages of a list that moves. Correct: what keeps its place is shown.
* **Time.** A conversion written by hand. Correct: it agrees with a clock.

PROJECT.json lists every component with what is modelled of it, and under
"hazards" each hard spot at its line with the property that covers it and what
that property leaves out, or why none does.

## Modules

| module | models | state |
|---|---|---|
| `Clustering` | `clustering.rs` and `state.rs` as operators: `Process`, `AttachSkymap`, `CleanupBefore`, `SaveToRedis`, `LoadFromRedis` | none |
| `SupereventCreator` | one creator under every sequence of calls | `creator` |
| `SupereventTimeline` | what clustering promises: windows that hold sets of events and one of their loudest | `members`, `preferred` |
| `Clusterer` | gw-clusterer instances with topics, bayestar-service, Redis, MongoDB, storage | `pc`, `creator`, ..., `redis`, `archive`, `storage`, `requests`, `results` |
| `CrossMatch` | the cross-matches of one superevent and their three writers | `pc`, `job`, the stored documents |
| `GpsTime` | the time conversions of `gcn.rs` and `alert.rs` as operators | none |
| `GpsClock` | a UTC and a GPS clock side by side, their reference | `utc`, `gps`, `sinceLeap` |
| `Notices` | what the parsers make of each kind of notice, as operators | none |
| `GcnConsumer` | the consume loop with its handlers, the broker, MongoDB and storage, and a client posting to gw-api | `log`, `committed`, `position`, `stored`, `job`, `docs`, `mocs`, `matches`, ... |
| `SkymapStorage` | both backends of the storage and its Redis cache, a call at a time | `objects`, `cache`, `calls` |
| `PublicAlert` | `create_alert` and downloads over `SkymapStorage`, with the writers of superevents | `requests`, `topic`, `audit`, `superevents`, `progress`, ... |
| `Authentication` | requests with a token or a cookie, sign-ins, key rotation, restarts | `tasks`, `jwks`, `published`, `browser`, `users`, ... |
| `AccessControl` | users, groups, streams and science filters, with their requests | the collections and `job` |
| `Listings` | a client paging through a list endpoint while others write | `rows`, `page`, `seen`, ... |
| `MC*` | the small instances | none |
| `ClusteringProofs` | lemmas on creators as values, for the next two | none |
| `SupereventCreatorProofs`, `ClustererProofs`, `CrossMatchProofs`, `AuthenticationProofs`, `AccessControlProofs` | the theorems about the module of that name | none |
| `NoticeProofs` | the theorems about `GcnConsumer`, `GpsTime` and `GpsClock` | none |
| `ApiProofs` | the theorems about `PublicAlert` and `Listings` | none |

`Clustering` is the pure core, used by `SupereventCreator` and by `Clusterer`;
`GpsTime` is used by `Notices`, and that by `GcnConsumer`; `PublicAlert` is
composed with `SkymapStorage`.

**Creator.** A creator is a record of the struct's two `BTreeMap`s and its
counter: functions from `t_0` to a superevent and to an id. `Neighbours` are the
entries below and above in the index, as `range(..t).next_back()` and
`range(t..).next()` find them, so that "only two neighbours are looked at" is in
the model and `JoinsClosest` has to follow from the spacing of the windows. GPS
times and SNRs are integers; a sky map is the event it was computed from; an id
`S%06d` is its number. `process` pushes a louder event and a quieter one alike,
and the promotion is the comparison `>`.

**Clusterer.** An instance is a thread with a program counter, and one step ends
where the code makes an effect another process can see: `HandleEvent`
(`archive_event` and `process`), `Emit`, `ArchiveSuperevent`, `Localize`,
`RecordRequest`, `Persist`, then `Drain` and per result `ApplyResult`, `Emit`,
`ArchiveSuperevent`, `PatchCenter`, `StoreFits`, `StoreContours`, at last
`PersistMaps`. `Effect(done, undone)` is a best-effort call: a failure is
counted and forgotten where the code logs it, and ends the handler at
`persist_state`, where the code returns it. `Start` restores from Redis, or from
nothing if the index could not be read (`unwrap_or_default` in
`state.rs:90-93`), and reads the event topic from the earliest record, because
the consumer never stores an offset. `Stop` is Ctrl-C and enters
`drain_until_quiet`. The bayestar-service serves the requests of one key in
order; replicas and partitions make those of different keys independent.
`ServiceRestart` lets it go back to any committed position, or past a request it
never answered. The model is of the deployed configuration (Redis, MongoDB,
publisher and localizer all present). Messages that do not decode are skipped by
the code and leave no state, so they do not appear.

**CrossMatch.** Versions stand for data: sky maps, contours and notices are
numbered as they come, and a match is the record of the versions it was computed
from. Each read of the code is a step (`ReadFits`, `ReadContours`,
`ReadCandidates`, `ReadMocs`, `ReadAssociated`) and the final replacement,
`Upsert`, is one more. All candidates' MOCs are looked up in one step (the code
looks them up eight at a time, each for its own trigger); one that is missing is
built from the document read, and `StoreMissingMoc` stores each in a step of its
own, whose failure is ignored. A trigger counts as localized if a MOC can be
built from it: it has a position and a radius above zero. The superevent is
taken to be in the time window of every trigger.

**GcnConsumer.** A topic has one partition, its records numbered; `position` is
the last record polled, `stored` what `store_offset_from_message` handed to
librdkafka, `committed` what the broker has. `job[a]` is what the consumer or
gw-api has in hand: the items of a notice yet to be stored, and the superevents
yet to be matched. One step is one write (`StoreMoc`, `StoreDocument`, `Match`),
so that a crash comes between any two, and the consumer and a client that posts
the same notice interleave. `Notices` says what the five kinds of notice become:
its fields are a function, an `Option` is a set of at most one, angles are
thousandths of a degree, and a field that a parser would not accept is a field
that is not there; the parser is chosen as `decode_alert` does, by names,
substrings and suffixes of the topic. `Match` fails by itself for a burst whose
radius is not positive and that has no stored MOC (`Matchable`). `torn` and
`mixed` are history: keys that a crash or a failure left in two minds, which the
properties must except.

**SkymapStorage and PublicAlert.** A call of the storage is one to three awaits
(`Lookup`, the object, `Fill`). Whether the backend is MongoDB or S3, who has
the cache flag and who compresses is a constant of the behaviour. In
`PublicAlert` a writer makes the writes of `archive_superevent_from` or of
`ingest_superevent` in order, an operator's task makes the four reads of
`create_alert`, publishes and inserts. An alert carries, for the properties
only, the summary it was built from and whether any writer moved between its
reads.

**Authentication.** A task's request is at "fetch", "install" or "get" (the
awaits of `validate_token` and of `verify_id_token`), or decided. Signatures and
nonces are taken to be unforgeable: a token names the key that signed it, a
state cookie the number of its sign-in and the secret of the process that signed
it. `cut` marks a refusal because the refresh after a miss failed. `Tick` is the
clock, which does not run past a request's own timeouts.

**AccessControl.** A worker is a request in progress: `job[w].at` is the database
call it makes next, `ctx` the `AccessContext` loaded for it and `read` what it
last read. Each call is one action (`CountAdmins`, `Leave`, ...), so that what a
handler decides on is as old as the code lets it get. `Abandon` ends a request
between two calls: an error of the database, a name that is taken, a process
that dies. `FindTarget` and `FindMember` have a failure of their own, which the
code takes for "no such row". Roles and streams are a constant catalog
(`create_stream` only adds to it), names are left out, UUIDs are members of
`Group` and `Filter` that no request can name before they are given out. The
history variables `revoked` and `raced` say which group streams there once were
and which kinds of requests have met; the properties use them to leave out the
races that the code plainly does not exclude.

**Listings.** A behaviour picks one endpoint, that is a sort order and whether
its query can drop a row, and reads page after page; `Upsert` writes a row anew
in between. Ties are broken anew by every query, as MongoDB may. `steady` and
`slid` are history: what kept its place, and what has lost a row before it.

**GpsClock** uses no operator of `GpsTime`: it carries seconds into days, days
into months and years, and inserts a leap second where one was; the conversion
is compared with it at every step.

Some definitions marked "Variant" stand before the definition they vary. They
are plausible errors, each of which breaks a property of a run; PROJECT.json
pairs them under "mutants". No run uses them otherwise.

## Runs

Passing runs:

| run | instance | shows |
|---|---|---|
| `SupereventCreator` | 4 events at distances 0, edge, tie and out of reach; 4 arrivals, any order, repeats; one cutoff | the six invariants, closest join, lossless reload, windows only grow, refinement of the timeline |
| `ClustererFaults` | one instance, no crash; a window with a promotion and one whose event is over the gate; any 2 failures, 1 service restart | maps stay with their members, the archive agrees if nothing failed, a fresh map is never replaced by an older one if the service did not restart |
| `ClustererCrash` | the same events, a crash or a stop anywhere, one more start | saved when idle, the archive covers Redis at every moment, saved windows survive and keep their ids to themselves, Redis refines the timeline, every event is recorded in the end |
| `CrossMatch` | a GRB and an FRB; up to 2 sky maps, 2 notices, 1 operator request, 1 flag, 2 failed writes, in four mixes | no missed match, none outdated on both sides; what should be matched ends up matched |
| `GcnConsumer` | a topic of each kind with up to 3 records (a revision, a burst localized late, one with a radius of 0 before a usable one, a record that does not decode), or two; 2 stops or crashes, 1 failed write, 1 post of the same notice | nothing below the committed offset is unhandled, a document and its MOC are of one notice, the newest notice stays, every record is handled in the end, and matched if its position has a usable radius |
| `PublicAlert` | a loader that posts a superevent's map twice, gw-clusterer that rewrites it without, an operator; MongoDB without a publisher, and S3 with the cache for gw-api only; 1 failure or restart | truthful audit rows, an undisturbed alert carries its own map, the cache comes to agree with the store |
| `Authentication` | 2 tasks, 2 people; 3 calls with 3 rotations, or 2 sign-ins with a call and a restart, in and out of dev mode; 1 failed fetch or write | a good token is refused only if the refresh after the miss failed or another task put an older key set in place, sessions have users, withdrawn keys fade |
| `AccessControl` | 2 users, 2 groups, 1 stream, 2 filters; a fresh, a settled and a just reconfigured database; 3 requests of 14, 2 at once, 1 failure | the lockout guards, no strays of a deleted group, filters within their group's streams |
| `Listings` | 3 rows of 2 triggers, pages of 1 or 2, 2 writes meanwhile, each of 13 endpoints, the external triggers with and without a time window | a walk shows what kept its place, and each match the strictest tier it clears |
| `GpsClock` | every day from 1980 to 2026, at six moments | a notice's time is converted rightly but for the seconds after a leap second; an alert prints it back |

Runs that TLC finds violated, each with the line of the repository that says
otherwise (PROJECT.json, "findings"):

| run | the code |
|---|---|
| `StaleMap` | attaches the map of the previous preferred event after a promotion |
| `FermiEpoch` | places Fermi's epoch some six days after 2001-01-01, which the comment on the offset names |

### Bounds

* `SupereventCreator!MaxArrivals = 4`: one event more than the windows the
  instance can open, so that there are windows, a join, a tie and a repeat in
  one behaviour. In `Clusterer` events are few since two windows, a promotion
  and a skip are all the cases of `process`; `MaxFailures = 2` is a failure and
  one in its aftermath; `MaxRewinds = 1` replays or skips, and a second does the
  same again; `MaxStarts = 2` is a life that saves and one that restores, and
  `MaxStarts = 1` where nothing crashes.
* `CrossMatch`: an old and a new version on either side, which is what "stale"
  is about, and one operator against the two processes.
* `GcnConsumer`: two records of one key are needed to fall back and to catch up,
  a third for one that fails to decode or lacks a position; `MaxCuts = 2` is a
  crash and a crash while what it lost is being redelivered (or one of
  gw-api). Each topic runs alone, since topics share nothing but the loop; two
  run together once, for the offsets.
* `PublicAlert`: two maps, an old and a new; one attempt, since two share
  nothing but the rows, which are told apart by their attempt; one contour
  level, the second being written like the first.
* `Authentication`: `MaxNow = 6` lets an entry of `Ttl = 2` go stale twice
  over; two tasks are two refreshes that overlap.
* `AccessControl`: `MaxRequests = 3` with two at once: one to prepare, two to
  meet. The workers are alike, and `WorkerSymmetry` uses it; the run has no
  liveness property. `Authentication` uses the symmetry of tasks and of people
  on the same ground.
* `Listings`: with three rows and pages of one, a row can move across a page
  that was read and one that was not; two writes let two rows swap.

Deadlock is not checked where the system may stop: when a container is down for
good, everything has come, every request is handled, or the clock is at its end.

### Fairness

`Clusterer!Fairness`: an instance that can take a step of its own does
(`WF(Run)`), a container that is down is started again (`restart: always` in
the compose file), the bayestar-service keeps serving. `CrossMatch!Fairness`:
each of the three goes on with what it has begun. `GcnConsumer!Fairness`: the
container is started again, the loop polls some topic with records (one run
with two short topics: neither is starved by finite logs), a handler goes on,
librdkafka's timer commits, a stopping consumer closes. `PublicAlert!Fairness`:
a task that has begun goes on, and Redis drops an entry with an expiry (the TTL
of `SETEX`). Nothing makes a crash, a stop or a failure happen, and they are
bounded. `EventuallyRecorded` excepts an instance that is down for good, since
the bound on starts ends the model's restarts where the code's go on.

## Proofs

Every safety property of the passing runs is also a theorem, for every value of
the constants. Each proof goes the
same way: an inductive invariant, checked by TLC before it was proved; that it
holds at first; that each action keeps it; that it implies the property. What
follows says per component which invariant that is and why the property needs
it.

**The creator.** `SupereventCreatorProofs`, for any set of events, any half
width and any bound on arrivals:

* `CreatorInvariant`: `IInv` is the conjunction of `TypeOK`, `IndexAgrees`,
  `IdsIdentify`, `WindowsSeparated`, `PreferredIsLoudest` and `MembersInWindow`.
  None of the last five is inductive alone: `process` finds its host through the
  index (so windows need `IndexAgrees`), a restart rebuilds the map from the
  stored ids (so it needs `IdsIdentify`, and with colliding ids would lose a
  window), and the edge of a window needs `t_start`/`t_end` tied to `t_0`. One
  corollary for each invariant.
* `AlwaysJoinsClosest`: the two neighbours suffice. An event within half a window
  of some open `t_0` is within half a window of a neighbour, and no other window
  is closer, because the neighbours are the closest below and above.
* `ReloadLosesNothing`, `WindowsOnlyGrow`, and `CreatorImplementsTimeline`:
  initial states map to initial states, a step to `OpenWindow`, `JoinWindow`,
  `Forget` or a stutter.

`IInv` is a property of the creator as a value (`GoodCreator`), and what
`process`, `attach_skymap`, save and load do to such a value is proved once, in
`ClusteringProofs`, for `SupereventCreatorProofs` and `ClustererProofs` alike.

**The clusterer.** `ClustererProofs`, for any events, gate, bounds and service.
`ClustererInvariant` (`Base`) holds of any number of instances, with any
failures, crashes and replays: each creator in memory is good, what Redis holds
is the image of a good creator, and the update in hand is of a superevent that is
open. The rest needs hypotheses, because without them the code does otherwise
(see "Seen while modelling"):

* `OneClusterer`, one instance, as deployed: two would delete each other's
  windows.
  * `NothingUnsaved` (`SavedWhenIdle`) by `Follows`: while nothing failed, Redis
    holds the creator as it is, or as it was before the one event in hand, or with
    the same windows but older sky maps, by the place of the program counter.
  * `SavedIdsStayTaken` (`SavedIdIsTaken`) by `Follows` as well: what is
    published is of the creator in memory, whose windows are those of Redis and
    at most the one in hand, and its ids identify. It holds of every later life
    too, which is the most the code promises: an id that was published and not
    saved is free again.
  * `ArchiveKeepsAhead` (`ArchiveCoversRedis`) by `Covered`, on top of it: MongoDB
    and the storage cover memory but for the superevent in hand, so that a crash
    between any two writes leaves Redis behind them.
* and `MaxFailures = 0`: `SavedStateIsTimeline`, the refinement of
  `SupereventTimeline` through crashes and restarts, and `SavedWindowsSurvive`. A
  step changes Redis only at `Persist` and `PersistMaps` (`RedisStep`), where
  `Follows` says by what. A start that fails to read the index begins empty, and
  its next save deletes windows: hence no failure.
* `StartsOnce`, one instance in one life, since after a crash an id that was not
  saved is given again. All by `Pristine` (nothing was written before the first
  start) and
  * `MapsStayMembers` by `Asked`: what was asked, and what was answered, is of a
    recorded event of the superevent it is filed under;
  * `ArchiveIsTrue` by `Filed` and `Agrees`: document, FITS and contours are those
    of memory, but for the ones about to be written for the update in hand;
  * `FreshMapsStay` by `Ordered`: while the service did not rewind, the results of
    one superevent come in the order of its requests, and once the preferred
    event's map is attached nothing else is left on its way.

**Cross-matches.** `CrossMatchProofs`, for any set of triggers and number of
versions, failures and requests. `IInv` has `Places` (who can be where, and that
nobody computes from a map that is not there), `Current` (what the clusterer or
the GCN consumer has read is the latest of what only it writes) and `Settled`,
the heart of it: a localized trigger of a superevent with a map has a fresh match
or somebody is `Coming` to write one. `Current` is why one of two racing writers is
always right: the clusterer reads the triggers after its map is stored, the
consumer reads the map after its trigger is stored. `NothingMissed` and
`NothingDoublyStale` follow.

**The GCN consumer.** `NoticeProofs`, for any topics, feeds, subscriptions,
posts and bounds.

* `CommittedStaysHandled`. What is committed was stored, what was stored was
  polled and handled: `GInv` is `LogsOK` (logs only grow, so that a record keeps
  its number), `OffsetsOK`, `JobOK` (the record in hand is the last one polled)
  and `Progress` (all is handled up to the committed and the stored offset, and up
  to the position but for the record in hand). `Progress` speaks of `stored` and
  `position` only while the consumer lives, since `Start` sets both anew.
* `MocsBelong` (`MocBelongsToDocument`), on `JInv` (what is in hand are items of a
  notice) and `MInv`: who is about to write a document has written its MOC
  (`MocIn`), and a document has its MOC, or somebody is between the two writes, or
  a crash was and the record has not been handled again (`PairIn`). Hypothesis
  `InstrumentsApart`: MOCs are filed by instrument and trigger, without the
  collection. The parsers keep the collections' instruments apart, and nothing in
  the code refuses a client's burst of "CHIME-FRB".
* `NewestKeeps` (`NewestStays`), on `NInv`. Its core is `AllNewest`: for each topic
  and key there is a last record handled (`IsNewest`), and if it is `Settled`, that
  is not beyond the position, not cut short and not in hand, the document is of
  its last item with that key. Falling back makes a key unsettled, polling on
  settles it again only by taking the record in hand, and `HandledSoFar` says that
  a record in hand is stored up to where the handler is, so that it counts when it
  is done. Hypothesis `TopicsApart`: no two topics that are read share a key, since
  nothing orders records across topics. So it is with the default topics; the JSON
  topics of Fermi-GBM, which a deployment may add, share the classic ones'
  instrument.

**Alerts.** `ApiProofs`, for any backend, caches, writers, operators and
failures. `AuditStaysTruthful` by `AuditInv`, which adds that a request on its way
to its row with the outcome "sent" has its alert on the topic. `AlertsCarryTheirMap`
(`AlertCarriesItsMap`) by `MapInv`: a request that began when archive, storage and
cache were settled, and since when no writer has moved (`since = progress`), has
read what is there (`UpToDate`). A writer at the beginning of a write has no call
of the storage either, so that what is settled stays settled until somebody moves
(`Faithful`, `CacheStep`).

**Lists.** `ApiProofs`, for any rows, endpoints, page sizes, writes and filters.

* `WalkMissesNothingHolds` by `WalkInv`. Its core is `StaysAhead`: in a list
  whose rows only move forward, whatever stood before a steady row on the last
  page's order is still not behind it. A steady row that moves from beyond a
  page boundary to before it needs fewer rows in front of it; there are as many
  before a place as its index says, so that one of them is no longer ahead
  (`OvertakenSlides`, a pigeonhole). It can only be tied with the row now, which
  the property excepts (`slid`). `PagesShown` then says that the pages read have
  shown every steady row up to their end.
* `TierIsTheStrictestHolds` by `TierInv`, on `TiersAreSorted`: what `SortTiers`
  chooses exists and is a permutation in order of the bounds, ties as they were
  sent. That there is one is shown without induction: the place of a tier is the
  number of tiers that come no later, and this map is a bijection.

**The times.** `NoticeProofs`, for any moments and any last year.

* `NoticeTimeIsRightHolds` and `AlertTimeIsRightHolds` by `ClockInv`: the date on
  the UTC clock is one of the calendar, and the GPS clock shows the seconds of the
  days so far (`DayNumber`) and one for each leap day reached (`ClocksAgree`). The
  year's beginnings are counted in days (`YearStart`) and no two dates have one
  number (`OneDate`), so that the clock's carry is the next number
  (`NextDayCounts`) and a day is a leap day only at its own number.
  `ThresholdsAre`: the n-th threshold of the table is the n-th leap day in
  seconds and n - 1 more. That is how long after it the conversion is a second
  behind; the property excepts the longest such time, that of the 18th.
* `LaterNoticesConvertLater`: the conversion is strictly monotone on the valid
  timestamps, so that the exception above never turns two notices round.

Both hold for years the run does not reach; the table is the code's, so that a leap
second inserted after 2017 is none on the model's clock either.

**Authentication.** `AuthenticationProofs`, for any tasks, users, keys and
failures. `SessionsKeepTheirUsers` by `SessionInv`: also the subject of a cookie
that is no longer valid has a row. `GoodTokensGetIn` and `KeysFade` by `KeyInv`:
the cached keys were published at most a request (`Span`) before they were
stored (`EntryOK`), and a request that refreshed for its own key finds the key
in the entry, unless that refresh failed (`cut`) or another task put the entry
there (`BearerOK`).

**Access.** `AccessControlProofs`, for any users, groups, streams and number of
requests at once.

* `FilterStreamsSafe` by `FInv`: a filter about to be stored is covered by rows its
  group has or had (`Checked`), which `Validate` establishes and nothing undoes.
* The other three stand on `RInv`, which says where requests of each kind can be
  (`Places`), that two that overlap are recorded in `raced` (`Met`), and what has
  been given out (`Known`). On it `SomeSuperAdminStays` has `SInv` (roles about to
  be set leave a super admin), `NoStraysLeft` has `MInv` (a row is of a group, or of
  one whose deletion is about to remove it), and `LastAdminKept` has `LInv` (who is
  about to leave leaves an admin behind).

`JobShape` says what a request looks like, so that `GoFacts` and `FinishFacts` can
tell what a step leaves of it.

The assumptions are those of the modules, and TLC evaluates each on a run:
events have integer times and SNRs, `Half` is a natural number, `NoSkymap` is
not an event; the database starts with rows that could have been stored and
requests name known things (`AccessControl!SeedAssumption`,
`RequestAssumption`); contour levels are a sequence of numbers
(`PublicAlert!LevelsAssumption`); feeds are sequences, and a decoded notice is
of one of the five kinds (`GcnConsumer!FeedAssumption`, `NoticeAssumption`). The
proofs about the consumer give no conversion of a notice a meaning: it is
whatever `Items` makes of it. `Listings!IdAssumption` has a finite set of rows
and `TierAssumption` integer bounds; `GpsClock!ClockAssumption` has midnight
among the moments, each of them a second of a day. The hypotheses of single
theorems hold in the runs' instances: `ClustererCrash` has one instance and no
failure, `ClustererFaults` one instance that starts once, and `MCGcnConsumer`
asserts `InstrumentsApart` and `TopicsApart`.

`Max` in `NewestStays` is a `CHOOSE`. That there is a greatest record is not proved
by induction over the set: the invariant carries it, because each record that is
handled is compared with the greatest there was.

Only model-checked:

* Liveness (`EventuallyRecorded`, `EventuallyMatched`, `EventuallyHandled`,
  `EventuallyFresh`), which is out of the prover's reach.
* `StaleMap` and `FermiEpoch`, which are violated.

## Seen while modelling

What the code does that a reader of its comments would not expect, and that no
run repeats because the step is plain once it is pointed out.

* Clusterer. A crash between the archive and `persist_state` gives an archived id
  to another window, whose document replaces the first (`archive.rs:5-8`: every
  superevent ever opened is kept). Results are
  drained only after an event (`clustering.rs:54-55`). `from_superevent` writes
  the patched center back as none (`gw_clusterer.rs:511-515`). Two instances with
  the default prefix delete each other's windows and number theirs alike
  (`docs/deployment.md:91-92`). A failed localization is not asked for again
  (`localize_request_for`, against `main.py:44-48`). `drain_until_quiet` leaves
  although a newer map is still computed. A patch of the center after a failed
  upsert makes a summary without its mandatory fields. A start that cannot read
  the Redis index begins empty, and its next save deletes the stored windows. No
  binary calls `cleanup_before`.
* Cross-match. An operator's flag set between the rescan's read and its upsert is
  lost (`ingest.rs:260-263`). A missing MOC that a rescan or an operator's request
  builds from the document it has read may overwrite the one a newer notice has just
  stored. A match computed between the new FITS and the new contours keeps the old
  contours until the next rescan.
* GCN consumer. `auto.offset.reset` is "latest": a group that crashes before its
  first commit skips what it had begun. A handler that failed has its offset
  stored all the same. A radius of 0 or less makes no MOC: such a burst is never
  matched, though it has a position, unless a MOC of an earlier notice is
  stored. And a notice that loses its position leaves the MOC of the one before.
  Notices without an id share the id "unknown".
* Time. The thresholds of the leap-second table are GPS seconds and are compared
  with UTC seconds, so that the n-th leap second is counted n - 1 seconds late.
  Months 0 and 13 are accepted.
* Storage. A slow reader refills the cache with the map it read before a newer
  one was put, and a failed `set` leaves the older one; it lasts until the TTL.
  Only gw-api is deployed with the cache flag (`gw-api.yaml:170`), so a write by
  the clusterer is not seen there until then. Nobody calls `delete`.
* Alerts. Without a publisher `create_alert` answers 503 and writes no audit row
  (`api.rs:1614-1619`), though 1470-1473 says that one is written either way and
  860-861 that the alert is still persisted; and the publish comes before the
  row, though 1584-1586 says that the row is persisted first.
* Authentication. A refresh that began earlier and ends later puts the older key
  set back, and a good token is refused; so it is when the refresh after a miss
  fails, with a 401 like that of a bad one; a failed refresh of a stale entry is
  ignored, so that a withdrawn key is trusted while the issuer cannot be
  reached. A second sign-in in the same browser overwrites the state cookie of
  the first, whose callback is then refused.
* Access. Two requests at once pass a last-admin guard together, and a failed read
  skips it; a member added while the group is deleted stays; a filter keeps a
  stream its group has lost (`archive.rs:522` says its streams are a subset);
  the later of two patches of a filter undoes the earlier (`api.rs:2398`).
* Lists. A row that is ingested again moves to the front and may be missed by a
  client that is on its way; ties can be shuffled between two pages; the stream
  gate comes after the page is cut, which makes short and empty pages; the two
  localize lists have no sort at all.

## Not modelled

* Numerics: floating-point integrals over HEALPix maps. A cross-match or a sky
  map is the version of its inputs.
* The text layer of the parsers (XML, JSON, Avro) and fields that are only shown.
* Metrics, the health dashboard, counts and single-document reads: nothing two
  steps could disagree about.
* Tools: sequential programs without state of their own. The web frontend, but
  for the paging of its lists. Deployment, but for what it fixes of the models
  (who restarts, who has which flag).
* In the modules above: a NaN SNR, a restart with another `--window-secs`, the
  1024 bound of the result channel, the jsonl replay and writer, more than one
  partition or group member, SciToken scopes, a token without a key id, the
  broker's own token, a gw-api without a sky map storage (`ingest.rs:57`, where no
  MOC is written).
* The natural order of the two localize lists, which name no sort, is taken to be
  that of insertion. MongoDB does not promise that, so that the property says less
  about these two than about the others.

PROJECT.json gives the reason per component, and the hazards no property covers
with theirs.

## Plan

Every safety property that a run checks is proved. What could still be done:

1. Liveness stays with TLC until the prover reasons about `ENABLED`.
2. `Clusterer` with more lives than one. Most of the properties that
   `StartsOnce` is a hypothesis of do not hold after a crash (an id is used
   twice, see "Seen while modelling"). `SavedIdIsTaken` says what a later life can
   still promise of ids; what it can promise of maps and of the archive has to be
   stated first.
3. Sort orders without ties: with a second sort key in the code, `WalkMissesNothing`
   would need no exception for ties.
