------------------------------- MODULE Listings -------------------------------
(***************************************************************************)
(* The list endpoints of gw-api (src/api.rs) as a client pages through     *)
(* them: it asks for one page after another (skip = page * limit, as       *)
(* web/src/components/SuperEventsPage.tsx does) while the clusterer, the   *)
(* GCN consumer and other clients of the API go on writing.  A page is one *)
(* find or aggregate of MongoDB, which reads one state of the collection;  *)
(* between two pages anything may have been written.                       *)
(*                                                                         *)
(* One collection and one listing are taken at a time: the rows below are  *)
(* those of the collection the listing reads.                              *)
(***************************************************************************)
EXTENDS Integers, FiniteSets, SequencesExt

CONSTANTS
    Id,         \* the _ids a row can have, numbered in the order of the first rows
    TriggerOf,  \* _id -> trigger_id of a GRB trigger, a number too
    StageOf,    \* _id -> the priority of its stage: 0 is -FIN, 4 anything else
    StreamOf,   \* _id -> the stream of its instrument, or NoStream
    NoStream,
    Visible,    \* streams of the science filter that the caller can access
    Listing,    \* the endpoints explored
    Time,       \* values of trigger_time, alert_time, t_0 and producer_timestamp
    Far,        \* values of the remapped joint FAR, above NoFar
    TierLists,  \* confidence tiers as clients send them: sequences of [name, max]
    MaxLimit,   \* largest limit of a page
    MaxWrites   \* bound: rows written while the client pages

ASSUME IdAssumption ==
  /\ IsFiniteSet(Id)
  /\ \A i \in Id : i \in Nat /\ TriggerOf[i] \in Nat /\ StageOf[i] \in 0 .. 4

ASSUME FarAssumption == Far \subseteq Nat \ {0} /\ MaxLimit \in Nat \ {0} /\ MaxWrites \in Nat

ASSUME TierAssumption ==
  \A sent \in TierLists :
    Len(sent) \in Nat /\ DOMAIN sent = 1 .. Len(sent) /\ \A i \in DOMAIN sent : sent[i].max \in Int

VARIABLES
    listing,    \* what is listed
    limit,      \* rows on a page
    tiers,      \* the saved science filter's tiers
    rows,       \* _id -> its document, for the _ids that have one
    now,        \* the server's clock, in the milliseconds of a BSON date
    page,       \* pages read so far
    order,      \* what the whole listing was when the last page of it was read
    seen,       \* what the client has been shown, with its tier
    steady,     \* what has been listed at one and the same place of the order since the walk began
    slid,       \* what has lost a predecessor that the order did not keep in its place
    writes      \* bound

walkVars == <<listing, limit, tiers, rows, now, page, order, seen, steady, slid, writes>>

NoFar == 0    \* null, which MongoDB sorts before any number

-----------------------------------------------------------------------------
(* The endpoints: what they sort by, and whether the query can leave out a  *)
(* row for something that a later write changes.                            *)

GrbTriggers      == [sort |-> "written", narrows |-> TRUE]
FrbAlerts        == [sort |-> "written", narrows |-> TRUE]
NeutrinoAlerts   == [sort |-> "written", narrows |-> TRUE]
BoomAlerts       == [sort |-> "time", narrows |-> FALSE]
Superevents      == [sort |-> "time", narrows |-> TRUE]      \* has_skymap
Events           == [sort |-> "time", narrows |-> FALSE]
Annotations      == [sort |-> "written", narrows |-> FALSE]
Alerts           == [sort |-> "written", narrows |-> FALSE]
\* These two name no sort.  The natural order is taken to be that of insertion and to
\* stay, as it does in practice for documents that are not moved; MongoDB does not
\* promise it, so that for these two lists the properties say less than for the others.
LocalizeRequests == [sort |-> "natural", narrows |-> FALSE]
LocalizeResults  == [sort |-> "natural", narrows |-> FALSE]
CrossMatches     == [sort |-> "written", narrows |-> FALSE]
FilteredMatches  == [sort |-> "far", narrows |-> TRUE]
TriggerSummaries == [sort |-> "best stage", narrows |-> TRUE]

\* The external triggers without a time window.
Unfiltered(l) == [l EXCEPT !.narrows = FALSE]

Lists == { GrbTriggers, FrbAlerts, NeutrinoAlerts, BoomAlerts, Superevents, Events, Annotations,
           Alerts, LocalizeRequests, LocalizeResults, CrossMatches, FilteredMatches,
           TriggerSummaries, Unfiltered(GrbTriggers) }

-----------------------------------------------------------------------------
(* What is listed, and in which order.                                      *)

Matching == { i \in DOMAIN rows : rows[i].passes }

\* Variant: the oldest first.
OldestFirst(date) == << date >>

\* sort(doc! {"ingested_at": -1}), or created_at, or computed_at.
NewestFirst(date) == << -date >>

\* Ascending, the first component that differs decides.
SortKey(row) ==
  CASE listing.sort = "written" -> NewestFirst(row.written)
    [] listing.sort = "time"    -> << -row.time >>
    [] listing.sort = "natural" -> << row.inserted >>
    [] listing.sort = "far"     -> << row.far >> \o NewestFirst(row.written)

Precedes(k, l) ==
  \E n \in DOMAIN k : k[n] < l[n] /\ \A m \in 1 .. n - 1 : k[m] = l[m]

\* The most refined stages of a trigger among the rows that match, the latest of them first.
BestStages(t) ==
  LET stages == { i \in Matching : TriggerOf[i] = t }
  IN  { i \in stages : \A j \in stages :
          ~ Precedes(<<StageOf[j], -rows[j].time>>, <<StageOf[i], -rows[i].time>>) }

Summary(t) == rows[CHOOSE i \in BestStages(t) : TRUE]

\* What has a place in the listing -> its sort key: a row, or a trigger for all its stages.
Places ==
  IF listing.sort = "best stage"
  THEN [t \in { TriggerOf[i] : i \in Matching } |-> << -Summary(t).time >>]
  ELSE [i \in Matching |-> SortKey(rows[i])]

\* Ties are broken as MongoDB likes, each time anew.
Sorted(keys) ==
  { s \in SetToSeqs(DOMAIN keys) :
      \A i, j \in DOMAIN s : i < j => ~ Precedes(keys[s[j]], keys[s[i]]) }

SkipAndLimit(s) == { s[n] : n \in DOMAIN s \intersect (page * limit + 1) .. ((page + 1) * limit) }

\* The stream gate comes after the page is cut: a page can be short, or empty.
StreamOk(i) == listing.sort = "far" => StreamOf[i] \in Visible \union {NoStream}

Ahead(s, e) == { s[n] : n \in { m \in DOMAIN s : \E k \in DOMAIN s : m < k /\ s[k] = e } }

-----------------------------------------------------------------------------
(* The confidence tiers of a science filter.                                *)

\* Variant: kept as they were sent.
TiersAsSent(sent) == sent

Sooner(sent, i, j) == sent[i].max < sent[j].max \/ (sent[i].max = sent[j].max /\ i < j)

\* Sorted when the filter is saved; equal bounds stay in the order they came in.
SortTiers(sent) ==
  LET positions == CHOOSE p \in SetToSeqs(DOMAIN sent) :
                     \A i, j \in DOMAIN p : i < j => Sooner(sent, p[i], p[j])
  IN  [n \in DOMAIN sent |-> sent[positions[n]]]

TierFor(far) ==
  LET cleared == { n \in DOMAIN tiers : far # NoFar /\ far <= tiers[n].max }
  IN  { tiers[n].name : n \in { m \in cleared : \A k \in cleared : m <= k } }

Shown(e) ==
  [entry |-> e, tier |-> IF listing.sort = "far" THEN TierFor(rows[e].far) ELSE {},
   far |-> IF listing.sort = "far" THEN rows[e].far ELSE NoFar]

-----------------------------------------------------------------------------
(* The rows a write can leave: an _id is written anew as a whole, its       *)
(* ingested_at, created_at or computed_at is the time of the write, and its *)
(* place in the natural order stays. Only what the listing looks at varies. *)

Used(sorts, S) == IF listing.sort \in sorts THEN S ELSE {0}

Versions(date, number) ==
  [ written : Used({"written", "far"}, {date}), time : Used({"time", "best stage"}, Time),
    inserted : Used({"natural"}, {number}), far : Used({"far"}, Far \union {NoFar}),
    passes : IF listing.narrows THEN BOOLEAN ELSE {TRUE} ]

WalkInit ==
  /\ listing \in Listing
  /\ limit \in 1 .. MaxLimit
  /\ tiers \in { SortTiers(sent) : sent \in IF listing.sort = "far" THEN TierLists ELSE {<<>>} }
  /\ now = 2
  /\ \E present \in SUBSET Id :
       rows \in { r \in [present -> UNION { Versions(d, i) : d \in 1 .. 2, i \in Id }] :
                    \A i \in present : r[i].inserted \in {0, i} }
  /\ page = 0
  /\ order = <<>>
  /\ seen = {}
  /\ steady = DOMAIN Places
  /\ slid = {}
  /\ writes = 0

\* An upsert by _id, in the millisecond of an earlier one or later.
Upsert(i) ==
  /\ writes < MaxWrites
  /\ \E date \in {now, now + 1} :
       /\ now' = date
       /\ \E row \in Versions(date, Cardinality(Id) + 1 + writes) :
            rows' = [ j \in DOMAIN rows \union {i} |->
                        IF j # i THEN rows[j]
                        ELSE IF i \in DOMAIN rows THEN [row EXCEPT !.inserted = rows[i].inserted]
                        ELSE row ]
  /\ UNCHANGED <<listing, limit, tiers, page, order, seen, slid>>
  /\ steady' = { e \in steady : e \in DOMAIN Places' /\ Places'[e] = Places[e] }
  /\ writes' = writes + 1

\* The last page read reached the end of the listing.
WalkDone == page > 0 /\ Len(order) <= page * limit

\* Orders in which a row can move back or drop out when it, or another one, is written.
Demotes == listing.narrows \/ listing.sort \notin {"written", "natural"}

ListPage ==
  LET places == Places
      tied(a, b) == a \in DOMAIN places /\ places[a] = places[b]
  IN  \E s \in Sorted(places) :
        /\ ~ WalkDone
        /\ order' = s
        /\ seen' = seen \union { Shown(e) : e \in { x \in SkipAndLimit(s) : StreamOk(x) } }
        /\ slid' = slid \union
             { e \in ToSet(s) : \E a \in Ahead(order, e) \ Ahead(s, e) : Demotes \/ tied(a, e) }
        /\ page' = page + 1
        /\ UNCHANGED <<listing, limit, tiers, rows, now, steady, writes>>

WalkNext == ListPage \/ \E i \in Id : Upsert(i)

WalkSpec == WalkInit /\ [][WalkNext]_walkVars

-----------------------------------------------------------------------------
(* Properties                                                               *)

\* A client that pages to the end is shown everything that kept its place meanwhile, however
\* much is ingested, localized or matched between its pages.  In the lists that a trigger is
\* only ever moved forward in (by ingested_at, created_at, computed_at, or as inserted) the one
\* exception is a tie; in the others a row that was ahead may fall behind or drop out.
WalkMissesNothing ==
  WalkDone => \A e \in steady \ slid : StreamOk(e) => \E x \in seen : x.entry = e

\* A cross-match is tagged with the strictest tier its FAR clears, in whatever order the client
\* sent the tiers, and with none if it has no FAR or clears no tier.
TierIsTheStrictest ==
  \A x \in seen : \A n \in DOMAIN tiers :
    (x.far # NoFar /\ x.far <= tiers[n].max) =>
      \E m \in DOMAIN tiers : /\ x.tier = {tiers[m].name}
                              /\ x.far <= tiers[m].max
                              /\ tiers[m].max <= tiers[n].max
=============================================================================
