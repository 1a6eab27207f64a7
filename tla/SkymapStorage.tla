----------------------------- MODULE SkymapStorage -----------------------------
(***************************************************************************)
(* The sky map storage (src/storage/skymap.rs): the MongoDB collections or *)
(* the S3 bucket that hold the maps, their contours and the maps of GRB    *)
(* triggers, and the Redis cache that may stand in front of the maps in    *)
(* S3.                                                                     *)
(*                                                                         *)
(* A client is one task of gw-api or gw-clusterer.  A call is a few awaits:*)
(* the cache, the object store, the cache again; the tasks interleave      *)
(* between them, and each may fail.  What a failed put leaves in the store *)
(* is either map.                                                          *)
(***************************************************************************)
EXTENDS Naturals, Sequences, SequencesExt

CONSTANTS
  Client,       \* the tasks that call the storage
  Deployments,  \* the settings the processes may have been started with
  MaxLosses     \* bound: failed requests to MongoDB, S3, Redis or Kafka, and restarts

\* Of a deployment: the backend, the clients whose process has a cache
\* (--s3-cache-redis-url is a flag of each process), those whose process
\* compresses (--s3-compress), and whether gw-api has an alert publisher.
ASSUME DeploymentsAssumption ==
  Deployments \subseteq [ backend : {"mongo", "s3"}, cached : SUBSET Client,
                          compress : SUBSET Client, publisher : BOOLEAN ]

ASSUME LossesAssumption == MaxLosses \in Nat

VARIABLES
  deployment,  \* the settings of this deployment
  objects,     \* key -> what the backend holds under it
  cache,       \* superevent id -> the entry in Redis
  calls,       \* client -> its call in progress
  losses       \* how many requests have failed (bounds the model)

storageVars == <<deployment, objects, cache, calls, losses>>

NoCall == [at |-> "none"]
NoBlob == <<>>   \* a map is a sequence of bytes; this is none

-------------------------------------------------------------------------------
(* Keys and conversions *)

\* Three keyspaces: SkymapKey("S1"), ContourKey("S1", 90).
SkymapKey(id)           == <<"skymaps", id>>
ContourKey(id, level)   == <<"contours", id, level>>
GrbSkymapKey(ins, trig) == <<"grb-skymaps", ins, trig>>

zstd_encode(bytes) == <<"zstd">> \o bytes
zstd_decode(data)  == Tail(data)

\* The envelope of a map in S3: what the writer compressed is marked as such, so
\* that a reader need not be started with the same flag.
Wrapped(c, blob) ==
  IF c \in deployment.compress THEN [bytes |-> zstd_encode(blob), compressed |-> TRUE]
  ELSE [bytes |-> blob, compressed |-> FALSE]

\* Everything else is stored as it is.
Plain(blob) == [bytes |-> blob, compressed |-> FALSE]

Unwrapped(envelope) ==
  IF envelope.compressed THEN zstd_decode(envelope.bytes) ELSE envelope.bytes

\* Only the maps themselves are cached, only in front of S3.
InS3(key) == deployment.backend = "s3" /\ key[1] = "skymaps"
UsesCache(c, key) == InS3(key) /\ c \in deployment.cached

\* Variant: SET in place of SETEX.
CacheEntryForever(blob) == [blob |-> blob, expires |-> FALSE]

\* An entry: the map, not compressed, set with an expiry.
CacheEntry(blob) == [blob |-> blob, expires |-> TRUE]

\* What a key holds.
Stored(key) == IF key \in DOMAIN objects THEN Unwrapped(objects[key]) ELSE NoBlob

-------------------------------------------------------------------------------
(* A call, from its first await to its answer *)

\* The call a client makes: a get looks into the cache first, an upsert writes the
\* object first.
Call(op, c, key, blob) ==
  [ op |-> op, key |-> key, blob |-> blob,
    at |-> IF op = "get" /\ UsesCache(c, key) THEN "lookup" ELSE "object" ]

Goes(c, step)       == calls' = [calls EXCEPT ![c].at = step]
Answers(c, answer, blob) ==
  calls' = [calls EXCEPT ![c] = [at |-> "answered", answer |-> answer, blob |-> blob]]

Works == UNCHANGED losses
Fails == losses < MaxLosses /\ losses' = losses + 1

\* SkymapCache::get.  A miss and an error both go on to the object.
Lookup(c) ==
  /\ calls[c].at = "lookup"
  /\ LET id == calls[c].key[2] IN
     \/ /\ id \in DOMAIN cache
        /\ Answers(c, "ok", cache[id].blob) /\ Works
     \/ id \notin DOMAIN cache /\ Goes(c, "object") /\ Works
     \/ Goes(c, "object") /\ Fails
  /\ UNCHANGED <<deployment, objects, cache>>

\* replace_one or put_object, which may have worked although it failed.
Replace(c, document, andThen) ==
  /\ calls[c].op = "upsert"
  /\ LET key == calls[c].key
         put == [k \in DOMAIN objects \cup {key} |-> IF k = key THEN document ELSE objects[k]]
     IN \/ objects' = put /\ andThen /\ Works
        \/ objects' \in {objects, put} /\ Answers(c, "error", NoBlob) /\ Fails

\* find_one or get_object.
Find(c, andThen) ==
  /\ calls[c].op = "get"
  /\ \/ calls[c].key \notin DOMAIN objects /\ Answers(c, "not found", NoBlob) /\ Works
     \/ calls[c].key \in DOMAIN objects /\ andThen /\ Works
     \/ Answers(c, "error", NoBlob) /\ Fails
  /\ UNCHANGED objects

\* The calls of MongoSkymapStorage: maps, contours and GRB maps alike.
MongoCall(c) ==
  /\ calls[c].at = "object" /\ deployment.backend = "mongo"
  /\ \/ Replace(c, Plain(calls[c].blob), Answers(c, "ok", calls[c].blob))
     \/ Find(c, Answers(c, "ok", Stored(calls[c].key)))
  /\ UNCHANGED <<deployment, cache>>

\* upsert and get of S3SkymapStorage: an envelope, and the cache comes after.
S3MapCall(c) ==
  /\ calls[c].at = "object" /\ InS3(calls[c].key)
  /\ \/ Replace(c, Wrapped(c, calls[c].blob),
          IF UsesCache(c, calls[c].key) THEN Goes(c, "fill")
          ELSE Answers(c, "ok", calls[c].blob))
     \/ Find(c,
          IF UsesCache(c, calls[c].key)
          THEN calls' = [calls EXCEPT ![c].at = "fill", ![c].blob = Stored(calls[c].key)]
          ELSE Answers(c, "ok", Stored(calls[c].key)))
  /\ UNCHANGED <<deployment, cache>>

\* upsert_contour, get_contour, upsert_grb_skymap, get_grb_skymap: neither.
S3BlobCall(c) ==
  /\ calls[c].at = "object" /\ deployment.backend = "s3" /\ ~InS3(calls[c].key)
  /\ \/ Replace(c, Plain(calls[c].blob), Answers(c, "ok", calls[c].blob))
     \/ Find(c, Answers(c, "ok", Stored(calls[c].key)))
  /\ UNCHANGED <<deployment, cache>>

\* SkymapCache::set, the last await of a get and of an upsert; an error is only
\* logged.  The map is the one the call holds, however long ago it was read.
Fill(c) ==
  /\ calls[c].at = "fill"
  /\ LET id == calls[c].key[2] IN
     \/ /\ cache' = [s \in DOMAIN cache \cup {id} |->
                       IF s = id THEN CacheEntry(calls[c].blob) ELSE cache[s]]
        /\ Works
     \/ cache' = cache /\ Fails
  /\ Answers(c, "ok", calls[c].blob)
  /\ UNCHANGED <<deployment, objects>>

\* Redis drops an entry whose time is over, or that it has no room for.
Expire(id) ==
  /\ id \in DOMAIN cache /\ cache[id].expires
  /\ cache' = [s \in DOMAIN cache \ {id} |-> cache[s]]
  /\ UNCHANGED <<deployment, objects, calls, losses>>

\* The step of the call of c, whichever it is.
StorageStep(c) ==
  Lookup(c) \/ MongoCall(c) \/ S3MapCall(c) \/ S3BlobCall(c) \/ Fill(c)

StorageInit ==
  /\ deployment \in Deployments
  /\ objects = <<>> /\ cache = <<>> /\ losses = 0
  /\ calls = [c \in Client |-> NoCall]

-------------------------------------------------------------------------------

\* The cache agrees with the store on a map: no old entry, and no call about to
\* make one.
Coherent(id) ==
  /\ id \in DOMAIN cache => cache[id].blob = Stored(SkymapKey(id))
  /\ \A c \in Client :
       (calls[c].at = "fill" /\ calls[c].key = SkymapKey(id))
         => calls[c].blob = Stored(SkymapKey(id))
===============================================================================
