----------------------------- MODULE GcnConsumer -----------------------------
(***************************************************************************)
(* gw-gcn-consumer (src/gcn_consumer.rs, src/bin/gw_gcn_consumer.rs) and   *)
(* what it does with a notice (src/ingest.rs): it polls the subscribed     *)
(* topics, decodes, lets the handler store and match, and stores the       *)
(* offset, which librdkafka commits from time to time.  gw-api takes the   *)
(* same notices over HTTP (create_grb_trigger and its like, src/api.rs).   *)
(*                                                                         *)
(* A topic has one partition, whose records are numbered from 1; an offset *)
(* is the number of the last record before it.  The group has one member.  *)
(***************************************************************************)
EXTENDS Notices, FiniteSets

CONSTANTS
    Topic,          \* topics of the broker
    Feed,           \* topic -> what decode_alert makes of each of its records: {a notice} or {}
    Subscriptions,  \* the sets of topics the consumer may be started with
    Posts,          \* topic -> requests a client of gw-api may make while it is read (a bound)
    Superevents,    \* the superevents in MongoDB: [id, t_0, mapped]
    Window,         \* --coincidence-window-sec
    OffsetReset,    \* auto.offset.reset
    MaxCuts,        \* bound: stops and crashes of the consumer, and crashes of gw-api in a request
    MaxFailures     \* bound: writes of the storage, of MongoDB and of an offset that fail

ASSUME FeedAssumption ==
    /\ \A t \in Topic : Feed[t] \in Seq({Feed[t][i] : i \in DOMAIN Feed[t]})
    /\ Subscriptions \subseteq SUBSET Topic

ASSUME ResetAssumption == OffsetReset \in {"latest", "earliest"}

ASSUME BoundAssumption == {MaxCuts, MaxFailures} \subseteq Nat

VARIABLES
    topics,     \* what the consumer subscribes to
    log,        \* topic -> the records published so far
    committed,  \* topic -> the group's offset at the broker, or NoOffset
    since,      \* topic -> where the group began, for want of a committed offset
    proc,       \* the consumer: "down", "running", or "stopping" after Ctrl-C
    position,   \* topic -> the last record polled
    stored,     \* topic -> the offset stored for the next commit, or NoOffset
    job,        \* what the consumer and gw-api are doing
    docs,       \* key -> the document in MongoDB
    mocs,       \* (instrument, trigger_id) -> what its canonical MOC was built from
    matches,    \* (superevent, key) with a cross-match
    handled,    \* topic -> records whose handler came to its end
    torn,       \* keys that a crash of the consumer cut short, until one of their records is handled
    mixed,      \* keys two writers wrote at once, or of which a write failed or a post was cut short
    upcoming,   \* topic -> the records of Feed yet to be published
    requests,   \* what a client of gw-api may still ask (of Posts)
    posted,     \* what was posted to gw-api; one notice at most
    cuts, failures   \* bounds

broker  == <<topics, log, committed, since>>
memory  == <<proc, position, stored>>
stores  == <<docs, mocs, matches>>
history == <<handled, torn, mixed>>
bounds  == <<upcoming, requests, posted, cuts, failures>>
vars    == <<broker, memory, job, stores, history, bounds>>

NoOffset == -1

-----------------------------------------------------------------------------
(***************************************************************************)
(* What a notice is stored as: one item each, the targets of a BOOM        *)
(* envelope one by one.  "moc" is the trigger a MOC is built from, if any. *)
(***************************************************************************)
\* Variant of Item: no MOC for a position whose radius is the default.
ItemOfGivenRadius(collection, t) ==
    [key |-> <<collection, t.instrument, t.id>>, doc |-> t,
     moc |-> IF HasCanonicalMoc(t) /\ t.error # {} THEN {t} ELSE {}]

Item(collection, t) ==
    [key |-> <<collection, t.instrument, t.id>>, doc |-> t,
     moc |-> IF HasCanonicalMoc(t) THEN {t} ELSE {}]

GrbItem(t) == Item("grb_triggers", t)

FrbItem(t) == Item("frb_alerts", t)

NeutrinoItem(t) == Item("neutrino_alerts", t)

BoomItem(b) ==
    [key |-> <<"boom_alerts", "BOOM", b.id>>, doc |-> b,
     moc |-> {t \in BoomTrigger(b) : HasCanonicalMoc(t)}]

LvkItem(s) ==
    [key |-> <<"icecube_lvk_searches", s.superevent, s.alert_time>>, doc |-> s, moc |-> {}]

Items(n) ==
    CASE n.kind = "grb"      -> << GrbItem(n.body) >>
      [] n.kind = "boom"     -> [i \in DOMAIN n.body |-> BoomItem(n.body[i])]
      [] n.kind = "frb"      -> << FrbItem(n.body) >>
      [] n.kind = "neutrino" -> << NeutrinoItem(n.body) >>
      [] n.kind = "lvk"      -> << LvkItem(n.body) >>

MocKey(key) == << key[2], key[3] >>

\* The notices that a request of gw-api may be taken for.
NoticesOfPost(r) ==
    CASE r.endpoint = "grb-triggers"    -> {Notice("grb", t) : t \in GrbOfBody(r.body)}
      [] r.endpoint = "boom-alerts"     -> {Notice("boom", <<r.body>>)}
      [] r.endpoint = "frb-alerts"      -> {Notice("frb", r.body)}
      [] r.endpoint = "neutrino-alerts" -> {Notice("neutrino", r.body)}
      [] OTHER                          -> {Notice("lvk", r.body)}

\* The notices of a topic's records, and of what may be posted while it is read.
Told(t) ==
    (UNION {Feed[t][i] : i \in DOMAIN Feed[t]}) \cup (UNION {NoticesOfPost(r) : r \in Posts[t]})

ASSUME NoticeAssumption ==
    \A t \in Topic : \A n \in Told(t) :
        /\ n.kind \in {"grb", "boom", "frb", "neutrino", "lvk"}
        /\ n.kind = "boom" => n.body \in Seq({n.body[i] : i \in DOMAIN n.body})

End(t) == Len(log[t])

\* a record without a value counts with those that do not decode
Decodable(t, i) == log[t][i] # {}

NoticeOf(t, i) == CHOOSE n \in log[t][i] : TRUE

ItemsOf(t, i) == IF Decodable(t, i) THEN Items(NoticeOf(t, i)) ELSE <<>>

KeysOf(items) == {items[i].key : i \in DOMAIN items}

\* the superevents around a trigger that have a sky map
Candidates(trigger) ==
    IF Window <= 0 \/ trigger.position = {} THEN {}
    ELSE {s.id : s \in {e \in Superevents :
                           /\ e.mapped
                           /\ trigger.time - Window <= e.t_0 /\ e.t_0 <= trigger.time + Window}}

-----------------------------------------------------------------------------
Idle == [at |-> "idle", topic |-> "none", record |-> 0, grb |-> FALSE, todo |-> <<>>,
         superevents |-> {}]

Actor == {"consumer", "api"}

Init ==
    /\ topics \in Subscriptions
    /\ log = [t \in Topic |-> <<>>]
    /\ committed = [t \in Topic |-> NoOffset]
    /\ since = [t \in Topic |-> 0]
    /\ proc = "down"
    /\ position = [t \in Topic |-> 0]
    /\ stored = [t \in Topic |-> NoOffset]
    /\ job = [a \in Actor |-> Idle]
    /\ docs = <<>> /\ mocs = <<>> /\ matches = {}
    /\ handled = [t \in Topic |-> {}] /\ torn = {} /\ mixed = {}
    /\ upcoming = [t \in Topic |-> IF t \in topics THEN Feed[t] ELSE <<>>]
    /\ requests = UNION {Posts[t] : t \in topics}
    /\ posted = {} /\ cuts = 0 /\ failures = 0

\* Variant of Put: what is there stays.
PutNew(f, k, v) == [x \in DOMAIN f \cup {k} |-> IF x \in DOMAIN f THEN f[x] ELSE v]

Put(f, k, v) == [x \in DOMAIN f \cup {k} |-> IF x = k THEN v ELSE f[x]]

\* what an actor is doing is followed by something else about the same record
Proceed(a, at, todo, superevents) ==
    job' = [job EXCEPT ![a] = [at |-> at, topic |-> job[a].topic, record |-> job[a].record,
                               grb |-> job[a].grb, todo |-> todo, superevents |-> superevents]]

Fail == failures < MaxFailures /\ failures' = failures + 1

\* the next record of a topic appears (only of those the consumer reads)
Publish(t) ==
    /\ upcoming[t] # <<>>
    /\ upcoming' = [upcoming EXCEPT ![t] = Tail(@)]
    /\ log' = [log EXCEPT ![t] = Append(@, Head(upcoming[t]))]
    /\ UNCHANGED <<topics, committed, since, memory, job, stores, history,
                   requests, posted, cuts, failures>>

(***************************************************************************)
(* The loop of GcnAlertConsumer::run.                                      *)
(***************************************************************************)
\* Variant of StartAt: the record at the committed offset is taken for consumed.
StartAfter(t) ==
    IF committed[t] # NoOffset THEN committed[t] + 1
    ELSE IF OffsetReset = "latest" THEN End(t) ELSE 0

\* where a topic is read from: the committed offset, or what auto.offset.reset says
StartAt(t) ==
    IF committed[t] # NoOffset THEN committed[t]
    ELSE IF OffsetReset = "latest" THEN End(t) ELSE 0

Start ==
    /\ proc = "down"
    /\ proc' = "running"
    /\ position' = [t \in Topic |-> StartAt(t)]
    /\ since' = [t \in Topic |-> IF committed[t] = NoOffset THEN StartAt(t) ELSE since[t]]
    /\ stored' = [t \in Topic |-> NoOffset]
    /\ UNCHANGED <<topics, log, committed, job, stores, history, bounds>>

\* a record that does not decode is skipped, its offset not stored
Poll(t) ==
    LET i     == position[t] + 1
        items == ItemsOf(t, i) IN
    /\ proc = "running" /\ job["consumer"] = Idle
    /\ t \in topics /\ position[t] < End(t)
    /\ position' = [position EXCEPT ![t] = i]
    /\ IF Decodable(t, i)
         THEN /\ job' = [job EXCEPT !["consumer"] =
                           [at |-> "next", topic |-> t, record |-> i,
                            grb |-> NoticeOf(t, i).kind = "grb", todo |-> items,
                            superevents |-> {}]]
         ELSE UNCHANGED job
    /\ UNCHANGED <<broker, proc, stored, stores, history, bounds>>

(***************************************************************************)
(* ingest_*, for the consumer and for gw-api alike: the canonical MOC, if  *)
(* there is one, as best effort, and then the document.  (A gw-api started *)
(* without a storage writes no MOC; it is taken to have one.)              *)
(***************************************************************************)
Overlaps(a, key) == \E b \in Actor \ {a} : \E i \in DOMAIN job[b].todo : job[b].todo[i].key = key

StoreMoc(a) ==
    LET item == Head(job[a].todo) IN
    /\ job[a].at = "next" /\ job[a].todo # <<>>
    /\ Proceed(a, "document", job[a].todo, {})
    /\ \/ /\ mocs' = IF item.moc = {} THEN mocs
                      ELSE Put(mocs, MocKey(item.key), CHOOSE t \in item.moc : TRUE)
          /\ mixed' = IF Overlaps(a, item.key) THEN mixed \cup {item.key} ELSE mixed
          /\ UNCHANGED failures
       \/ /\ item.moc # {} /\ Fail
          /\ mixed' = mixed \cup {item.key}
          /\ UNCHANGED mocs
    /\ UNCHANGED <<broker, memory, docs, matches, handled, torn, upcoming, requests, posted, cuts>>

\* An error ends the handling of a GRB; a target of a BOOM envelope is followed
\* by the next one all the same.
StoreDocument(a) ==
    LET item == Head(job[a].todo)
        rest == Tail(job[a].todo) IN
    /\ job[a].at = "document"
    /\ \/ /\ docs' = Put(docs, item.key, item.doc)
          /\ IF job[a].grb THEN Proceed(a, "match", job[a].todo, Candidates(item.doc))
                           ELSE Proceed(a, "next", rest, {})
          /\ UNCHANGED <<mixed, failures>>
       \/ /\ Fail
          /\ Proceed(a, "next", rest, {})
          /\ mixed' = mixed \cup {item.key}
          /\ UNCHANGED docs
    /\ UNCHANGED <<broker, memory, mocs, matches, handled, torn, upcoming, requests, posted, cuts>>

(***************************************************************************)
(* handle_alert, for a GRB: each superevent found is matched, or a warning *)
(* is logged and the next one taken.  Finding them may fail.  Without a    *)
(* stored MOC one is built on the fly, which a radius that is not positive *)
(* does not allow: such a burst is never matched, though no write fails.   *)
(***************************************************************************)
Matchable(item) == MocKey(item.key) \in DOMAIN mocs \/ HasCanonicalMoc(item.doc)

Match ==
    LET j    == job["consumer"]
        item == Head(j.todo) IN
    /\ j.at = "match" /\ j.superevents # {}
    /\ \E s \in j.superevents :
         /\ Proceed("consumer", "match", j.todo, j.superevents \ {s})
         /\ \/ /\ matches' = IF Matchable(item) THEN matches \cup {<<s, item.key>>} ELSE matches
               /\ UNCHANGED <<failures, mixed>>
            \/ Fail /\ mixed' = mixed \cup {item.key} /\ UNCHANGED matches
    /\ UNCHANGED <<broker, memory, docs, mocs, handled, torn, upcoming, requests, posted, cuts>>

FindFails ==
    LET j == job["consumer"] IN
    /\ j.at = "match" /\ Fail
    /\ Proceed("consumer", "next", <<>>, {})
    /\ mixed' = mixed \cup {Head(j.todo).key}
    /\ UNCHANGED <<broker, memory, stores, handled, torn, upcoming, requests, posted, cuts>>

AllMatched ==
    /\ job["consumer"].at = "match" /\ job["consumer"].superevents = {}
    /\ Proceed("consumer", "next", <<>>, {})
    /\ UNCHANGED <<broker, memory, stores, history, bounds>>

\* The handler has returned, with an error or without, and the offset is stored;
\* storing it may fail.
StoreOffset ==
    LET j == job["consumer"] IN
    /\ j.at = "next" /\ j.todo = <<>>
    /\ job' = [job EXCEPT !["consumer"] = Idle]
    /\ handled' = [handled EXCEPT ![j.topic] = @ \cup {j.record}]
    /\ \/ stored' = [stored EXCEPT ![j.topic] = j.record] /\ UNCHANGED failures
       \/ Fail /\ UNCHANGED stored
    /\ torn' = torn \ KeysOf(ItemsOf(j.topic, j.record))
    /\ UNCHANGED <<broker, proc, position, stores, mixed, upcoming, requests, posted, cuts>>

Handler ==
    StoreMoc("consumer") \/ StoreDocument("consumer") \/ Match \/ FindFails \/ AllMatched \/ StoreOffset

(***************************************************************************)
(* librdkafka commits what is stored: every few seconds, and when the      *)
(* consumer is closed.                                                     *)
(***************************************************************************)
\* Variant of CommitStored: what was polled is committed (enable.auto.offset.store).
CommitPolled == committed' = [t \in Topic |-> IF t \in topics THEN position[t] ELSE committed[t]]

CommitStored ==
    committed' = [t \in Topic |-> IF stored[t] = NoOffset THEN committed[t] ELSE stored[t]]

AutoCommit ==
    /\ proc # "down"
    /\ CommitStored
    /\ UNCHANGED <<topics, log, since, memory, job, stores, history, bounds>>

\* Ctrl-C sets a flag, which the loop reads before the next poll
Stop ==
    /\ proc = "running" /\ cuts < MaxCuts
    /\ proc' = "stopping" /\ cuts' = cuts + 1
    /\ UNCHANGED <<broker, position, stored, job, stores, history, upcoming, requests, posted, failures>>

Close ==
    /\ proc = "stopping" /\ job["consumer"] = Idle
    /\ proc' = "down"
    /\ CommitStored
    /\ UNCHANGED <<topics, log, since, position, stored, job, stores, history, bounds>>

\* keys of the record being handled
UnderWay ==
    LET j == job["consumer"] IN IF j = Idle THEN {} ELSE KeysOf(ItemsOf(j.topic, j.record))

Crash ==
    /\ proc # "down" /\ cuts < MaxCuts
    /\ proc' = "down" /\ cuts' = cuts + 1
    /\ job' = [job EXCEPT !["consumer"] = Idle]
    /\ torn' = torn \cup UnderWay
    /\ UNCHANGED <<broker, position, stored, stores, handled, mixed,
                   upcoming, requests, posted, failures>>

(***************************************************************************)
(* gw-api: a notice posted by a client is stored by the same functions,    *)
(* and not matched.                                                        *)
(***************************************************************************)
Submit(n) ==
    LET items == Items(n) IN
    /\ requests' = {} /\ posted' = {n}
    /\ job["api"] = Idle
    /\ job' = [job EXCEPT !["api"] = [at |-> "next", topic |-> "none", record |-> 0, grb |-> FALSE,
                                       todo |-> items, superevents |-> {}]]
    /\ mixed' = mixed \cup {k \in KeysOf(items) : Overlaps("api", k)}
    /\ UNCHANGED <<broker, memory, stores, handled, torn, upcoming, cuts, failures>>

\* a raw notice that does not parse is refused
CreateGrbTrigger(r) ==
    /\ r.endpoint = "grb-triggers"
    /\ \E t \in GrbOfBody(r.body) : Submit(Notice("grb", t))

CreateBoomAlert(r) ==
    /\ r.endpoint = "boom-alerts"
    /\ Submit(Notice("boom", <<r.body>>))

CreateFrbAlert(r) ==
    /\ r.endpoint = "frb-alerts"
    /\ Submit(Notice("frb", r.body))

CreateNeutrinoAlert(r) ==
    /\ r.endpoint = "neutrino-alerts"
    /\ Submit(Notice("neutrino", r.body))

\* the superevent of the path must be that of the body
CreateIceCubeLvkSearch(r) ==
    /\ r.endpoint = "icecube-lvk-searches" /\ r.superevent = r.body.superevent
    /\ Submit(Notice("lvk", r.body))

Post(r) ==
    \/ CreateGrbTrigger(r) \/ CreateBoomAlert(r) \/ CreateFrbAlert(r)
    \/ CreateNeutrinoAlert(r) \/ CreateIceCubeLvkSearch(r)

Posted ==
    /\ job["api"].at = "next" /\ job["api"].todo = <<>>
    /\ job' = [job EXCEPT !["api"] = Idle]
    /\ UNCHANGED <<broker, memory, stores, history, bounds>>

\* gw-api dies in a request, which nobody takes up again
PostCut ==
    /\ job["api"] # Idle /\ cuts < MaxCuts
    /\ cuts' = cuts + 1
    /\ mixed' = mixed \cup KeysOf(job["api"].todo)
    /\ job' = [job EXCEPT !["api"] = Idle]
    /\ UNCHANGED <<broker, memory, stores, handled, torn, upcoming, requests, posted, failures>>

-----------------------------------------------------------------------------
Next ==
    \/ \E t \in Topic : Publish(t) \/ Poll(t)
    \/ Start \/ Handler \/ AutoCommit \/ Stop \/ Close \/ Crash
    \/ \E r \in requests : Post(r)
    \/ StoreMoc("api") \/ StoreDocument("api") \/ Posted \/ PostCut

Spec == Init /\ [][Next]_vars

(***************************************************************************)
(* The container is restarted, the loop goes on polling, a handler comes   *)
(* to its end, and librdkafka commits.                                     *)
(***************************************************************************)
Fairness ==
    /\ WF_vars(Start) /\ WF_vars(\E t \in Topic : Poll(t)) /\ WF_vars(Handler)
    /\ WF_vars(AutoCommit) /\ WF_vars(Close)

FairSpec == Spec /\ Fairness

-----------------------------------------------------------------------------
(***************************************************************************)
(* At least once: a record below the group's offset was handled to the     *)
(* end, with success or with a logged error, or does not decode - whatever *)
(* crashed in between.  Records before the group's beginning are exempt.   *)
(***************************************************************************)
Handled(t, i) == i \in handled[t] \/ ~ Decodable(t, i)

CommittedIsHandled ==
    \A t \in Topic : \A i \in since[t] + 1 .. committed[t] : Handled(t, i)

AtRest == \A a \in Actor : job[a] = Idle

\* the documents of the key's collection are the triggers that MOCs are built from
HoldsTriggers(k) == k[1] \notin {"boom_alerts", "icecube_lvk_searches"}

(***************************************************************************)
(* A MOC is filed under the instrument and the trigger's id, a document    *)
(* also under its collection.  The parsers give each collection its own    *)
(* instruments; a client of gw-api is asked to do the same, though nothing *)
(* in the code refuses a burst of "CHIME-FRB".                             *)
(***************************************************************************)
InstrumentsApart ==
    \A s, t \in Topic : \A m \in Told(s), n \in Told(t) :
        \A x \in DOMAIN Items(m), y \in DOMAIN Items(n) :
            LET a == Items(m)[x]
                b == Items(n)[y] IN
            HoldsTriggers(a.key) /\ b.moc # {} /\ MocKey(a.key) = MocKey(b.key) => a.key = b.key

(***************************************************************************)
(* A document with a position and a usable radius has the MOC of the same  *)
(* notice, though the two are written one after the other and a crash may  *)
(* come in between, once it is redelivered - unless a write failed, or     *)
(* gw-api wrote the same key at the same time.  (Nothing holds of a        *)
(* document that lost its position: the MOC of the notice before stays.)   *)
(***************************************************************************)
MocBelongsToDocument ==
    AtRest =>
        \A k \in DOMAIN docs \ (mixed \cup torn) :
            HoldsTriggers(k) /\ HasCanonicalMoc(docs[k]) =>
                MocKey(k) \in DOMAIN mocs /\ mocs[MocKey(k)] = docs[k]

(***************************************************************************)
(* Redelivery takes a document back to an older notice, but once it has    *)
(* caught up with where a crash happened, every document is again that of  *)
(* the newest notice handled.                                              *)
(***************************************************************************)
CaughtUp(t) == \A i \in handled[t] : i <= position[t]

(***************************************************************************)
(* Topics are read independently, so the newest notice of a key is one of  *)
(* its topic: each of the default topics has an instrument of its own.     *)
(* (The JSON topics of Fermi-GBM, which a deployment may add, share those  *)
(* of the classic ones.)                                                   *)
(***************************************************************************)
TopicsApart ==
    \A subscribed \in Subscriptions : \A s, t \in subscribed :
        \A m \in UNION {Feed[s][i] : i \in DOMAIN Feed[s]}, n \in UNION {Feed[t][i] : i \in DOMAIN Feed[t]} :
            KeysOf(Items(m)) \cap KeysOf(Items(n)) # {} => s = t

NewestStays ==
    proc = "running" /\ AtRest =>
        \A t \in topics : CaughtUp(t) =>
            LET ours == UNION {KeysOf(ItemsOf(t, i)) : i \in handled[t]}
                exempt == mixed \cup torn \cup UNION {KeysOf(Items(n)) : n \in posted} IN
            \A k \in ours \ exempt :
                LET i == Max({h \in handled[t] : k \in KeysOf(ItemsOf(t, h))})
                    n == Max({x \in DOMAIN ItemsOf(t, i) : ItemsOf(t, i)[x].key = k})
                IN k \in DOMAIN docs /\ docs[k] = ItemsOf(t, i)[n].doc

(***************************************************************************)
(* Once the group has an offset, the consumer catches up again and again:  *)
(* every record after its beginning was handled, and left a document and,  *)
(* for a GRB with a position and a usable radius, a match with every       *)
(* superevent around it - unless a write of that document failed.          *)
(***************************************************************************)
Stored(t, i) ==
    \A x \in DOMAIN ItemsOf(t, i) :
        LET item == ItemsOf(t, i)[x] IN
        \/ item.key \in mixed
        \/ /\ item.key \in DOMAIN docs
           /\ NoticeOf(t, i).kind = "grb" /\ HasCanonicalMoc(item.doc) =>
                \A s \in Candidates(item.doc) : <<s, item.key>> \in matches

EventuallyHandled ==
    []<>(\A t \in topics : committed[t] # NoOffset =>
            \A i \in since[t] + 1 .. End(t) : Handled(t, i) /\ Stored(t, i))
=============================================================================
