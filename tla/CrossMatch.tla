------------------------------ MODULE CrossMatch ------------------------------
(***************************************************************************)
(* The cross-match table of one superevent, and those who write it:        *)
(*   - gw-clusterer, which stores every sky map it attaches and rescans    *)
(*     (archive_superevent_from, src/bin/gw_clusterer.rs);                 *)
(*   - gw-gcn-consumer, which stores every notice of an external trigger   *)
(*     and matches it with the superevents around it                       *)
(*     (handle_alert, src/bin/gw_gcn_consumer.rs);                         *)
(*   - an operator of gw-api, who scans, matches one trigger, or sets the  *)
(*     `associated` flag (src/api.rs).                                     *)
(* They share MongoDB and the sky map storage, and take no lock.           *)
(*                                                                         *)
(* The superevent is in the time window of every trigger.  A trigger is    *)
(* localized if it has a position and a usable radius (GcnConsumer has     *)
(* those with only a position).  Sky maps, contours and notices are        *)
(* numbered in the order of their creation, 0 is none; a match is denoted  *)
(* by the inputs it was computed from.                                     *)
(***************************************************************************)
EXTENDS Naturals, FiniteSets

CONSTANTS
  Trigger,      \* external triggers: (instrument, trigger_id)
  AutoMatched,  \* those gw-gcn-consumer matches on arrival: the GRBs
  Bounds        \* bound: what may happen in a behaviour (see below)

ASSUME AutoMatchedAssumption == AutoMatched \subseteq Trigger

\* How many sky maps may be attached to the superevent, how many notices each trigger
\* gets, how many scans and single matches an operator asks for, how often the
\* operator sets `associated', how many best-effort writes of a MOC fail.
ASSUME BoundAssumption ==
  Bounds \subseteq [ maps : Nat, notices : [Trigger -> Nat], requests : Nat,
                     patches : Nat, failures : Nat ]

Actor == {"clusterer", "gcn", "operator"}

VARIABLES
  pc,        \* actor -> where it is
  job,       \* actor -> what it has read so far
  summary,   \* the superevent document has a skymap_summary
  fits,      \* the stored FITS
  contours,  \* the stored contours
  trigger,   \* trigger -> its document: the last notice, and if it has a position
  moc,       \* trigger -> the notice its stored canonical MOC was built from
  match,     \* trigger -> the cross-match document, NoMatch for none
  bound,     \* the bounds of this behaviour
  requests, patches, failures   \* how much of them is used up

stored == <<summary, fits, contours, trigger, moc, match>>
bounds == <<bound, requests, patches, failures>>
vars   == <<pc, job, stored, bounds>>

NoMatch == [computed |-> FALSE]

NoJob == [ kind |-> "none", next |-> "none", localized |-> FALSE, fits |-> 0,
           contours |-> 0, todo |-> <<>>, missing |-> {}, associated |-> FALSE ]

Init ==
  /\ pc = [a \in Actor |-> "idle"]
  /\ job = [a \in Actor |-> NoJob]
  /\ summary = FALSE /\ fits = 0 /\ contours = 0
  /\ trigger = [t \in Trigger |-> [notice |-> 0, localized |-> FALSE]]
  /\ moc = [t \in Trigger |-> 0]
  /\ match = [t \in Trigger |-> NoMatch]
  /\ bound \in Bounds /\ requests = 0 /\ patches = 0 /\ failures = 0

Goto(a, label) == pc' = [pc EXCEPT ![a] = label]

Done(a) == Goto(a, "idle") /\ job' = [job EXCEPT ![a] = NoJob]

-------------------------------------------------------------------------------
(* Computing matches: rescan_superevent_cross_matches, and the match of one *)
(* trigger in compute_and_persist_cross_match and create_cross_match.       *)

\* storage.get: without a sky map there is nothing to do (SkymapMissing, 404).
ReadFits(a) ==
  /\ pc[a] = "fits"
  /\ IF fits = 0 THEN Done(a)
     ELSE Goto(a, "contours") /\ job' = [job EXCEPT ![a].fits = fits]
  /\ UNCHANGED <<stored, bounds>>

\* get_contour of both levels; they may be missing.
ReadContours(a) ==
  /\ pc[a] = "contours"
  /\ Goto(a, IF job[a].kind = "rescan" THEN "candidates" ELSE "mocs")
  /\ job' = [job EXCEPT ![a].contours = contours]
  /\ UNCHANGED <<stored, bounds>>

\* Variant: a trigger matched before is not looked at again.
UnmatchedKnown == {t \in Trigger : trigger[t].notice > 0 /\ match[t] = NoMatch}

\* Variant: a trigger without a stored MOC is not a candidate.
KnownWithMoc == {t \in Trigger : trigger[t].notice > 0 /\ moc[t] # 0}

\* What the cursors over GRBs, BOOM, FRB and neutrino alerts return.
Known == {t \in Trigger : trigger[t].notice > 0}

\* Phase 1a of the rescan.
ReadCandidates(a) ==
  /\ pc[a] = "candidates"
  /\ Goto(a, "mocs")
  /\ job' = [job EXCEPT ![a].todo = [t \in Known |-> trigger[t]]]
  /\ UNCHANGED <<stored, bounds>>

\* Phase 1b: the stored MOC of each trigger, looked up for all of them in one step.
\* One that is missing is built from the document read.  A trigger without a
\* position is left out: it has no MOC, or cross_match rejects it.
ReadMocs(a) ==
  LET localized == {t \in DOMAIN job[a].todo : job[a].todo[t].localized}
      used(t) == IF moc[t] # 0 THEN moc[t] ELSE job[a].todo[t].notice
      missing == IF a = "gcn" THEN {} ELSE {t \in localized : moc[t] = 0}
  IN  /\ pc[a] = "mocs"
      /\ Goto(a, IF missing = {} THEN "associated" ELSE "store_mocs")
      /\ job' = [job EXCEPT ![a].todo =
                   [t \in localized |-> [position |-> job[a].todo[t].notice, moc |-> used(t)]],
                            ![a].missing = missing]
      /\ UNCHANGED <<stored, bounds>>

\* What was missing is stored, except by gw-gcn-consumer, over whatever a notice has
\* stored meanwhile; a failure is ignored.
StoreMissingMoc(a) ==
  /\ pc[a] = "store_mocs"
  /\ \E t \in job[a].missing :
       /\ Goto(a, IF job[a].missing = {t} THEN "associated" ELSE "store_mocs")
       /\ job' = [job EXCEPT ![a].missing = @ \ {t}]
       /\ \/ moc' = [moc EXCEPT ![t] = job[a].todo[t].moc] /\ UNCHANGED failures
          \/ failures < bound.failures /\ failures' = failures + 1 /\ UNCHANGED moc
  /\ UNCHANGED <<summary, fits, contours, trigger, match, bound, requests, patches>>

\* `associated` of the document to write: a rescan looks up the one it is about
\* to replace, a single match starts from FALSE.
Associated(a, t) == job[a].kind = "rescan" /\ match[t].computed /\ match[t].associated

\* Phase 3, for the next trigger: the flag is read ...
ReadAssociated(a) ==
  /\ pc[a] = "associated"
  /\ IF job[a].todo = <<>> THEN Done(a)
     ELSE \E t \in DOMAIN job[a].todo :
            /\ Goto(a, "upsert")
            /\ job' = [job EXCEPT ![a].next = t, ![a].associated = Associated(a, t)]
  /\ UNCHANGED <<stored, bounds>>

\* ... and upsert_cross_match replaces the document, whatever it is by now.
Upsert(a) ==
  LET t == job[a].next
      rest == DOMAIN job[a].todo \ {t}
  IN  /\ pc[a] = "upsert"
      /\ Goto(a, "associated")
      /\ match' = [match EXCEPT ![t] =
                     [ computed |-> TRUE, fits |-> job[a].fits, contours |-> job[a].contours,
                       position |-> job[a].todo[t].position, moc |-> job[a].todo[t].moc,
                       associated |-> job[a].associated ]]
      /\ job' = [job EXCEPT ![a].todo = [u \in rest |-> @[u]]]
      /\ UNCHANGED <<summary, fits, contours, trigger, moc, bounds>>

Compute(a) ==
  \/ ReadFits(a) \/ ReadContours(a) \/ ReadCandidates(a) \/ ReadMocs(a)
  \/ StoreMissingMoc(a) \/ ReadAssociated(a) \/ Upsert(a)

\* The rescan begins: the superevent document is found.
Rescan(a) ==
  /\ Goto(a, "fits")
  /\ job' = [job EXCEPT ![a].kind = "rescan"]

\* The match of one trigger begins, whose document was read.
Single(a, t) ==
  /\ Goto(a, "fits")
  /\ job' = [job EXCEPT ![a].kind = "single",
                        ![a].todo = [u \in {t} |-> trigger[u]]]

-------------------------------------------------------------------------------
(* gw-clusterer: archive_superevent_from, for SkymapAttached *)

\* The document is replaced, now with a skymap_summary.
AttachSkymap ==
  /\ pc["clusterer"] = "idle" /\ fits < bound.maps
  /\ Goto("clusterer", "store_fits")
  /\ summary' = TRUE
  /\ UNCHANGED <<job, fits, contours, trigger, moc, match, bounds>>

StoreFits ==
  /\ pc["clusterer"] = "store_fits"
  /\ Goto("clusterer", "store_contours")
  /\ fits' = fits + 1
  /\ UNCHANGED <<job, summary, contours, trigger, moc, match, bounds>>

\* upsert_contour of both levels, from the FITS just stored.
StoreContours ==
  /\ pc["clusterer"] = "store_contours"
  /\ contours' = fits
  /\ Goto("clusterer", "rescan")
  /\ UNCHANGED <<job, summary, fits, trigger, moc, match, bounds>>

RescanAttached ==
  /\ pc["clusterer"] = "rescan"
  /\ Rescan("clusterer")
  /\ UNCHANGED <<stored, bounds>>

-------------------------------------------------------------------------------
(* gw-gcn-consumer: handle_alert *)

\* A notice arrives; ingest_*: the canonical MOC is stored if there is a
\* position (a failure is logged and ignored) ...
ReceiveNotice(t, localized) ==
  /\ pc["gcn"] = "idle" /\ trigger[t].notice < bound.notices[t]
  /\ Goto("gcn", "store_trigger")
  /\ job' = [job EXCEPT !["gcn"].next = t, !["gcn"].localized = localized]
  /\ \/ moc' = [moc EXCEPT ![t] = IF localized THEN trigger[t].notice + 1 ELSE @]
        /\ UNCHANGED failures
     \/ /\ localized /\ failures < bound.failures
        /\ failures' = failures + 1
        /\ UNCHANGED moc
  /\ UNCHANGED <<summary, fits, contours, trigger, match, bound, requests, patches>>

\* ... and the trigger's document is replaced.  A trigger that is not matched on
\* arrival, or has no position, is done with.
StoreTrigger ==
  LET t == job["gcn"].next
  IN  /\ pc["gcn"] = "store_trigger"
      /\ trigger' = [trigger EXCEPT ![t] = [ notice |-> @.notice + 1,
                                             localized |-> job["gcn"].localized ]]
      /\ IF t \in AutoMatched /\ job["gcn"].localized
           THEN Goto("gcn", "superevents") /\ UNCHANGED job
           ELSE Done("gcn")
      /\ UNCHANGED <<summary, fits, contours, moc, match, bounds>>

\* The superevents around the trigger that have a skymap_summary.
FindSuperevents ==
  /\ pc["gcn"] = "superevents"
  /\ IF summary THEN Single("gcn", job["gcn"].next) ELSE Done("gcn")
  /\ UNCHANGED <<stored, bounds>>

-------------------------------------------------------------------------------
(* gw-api: what operators do *)

\* POST scan-cross-matches.
Scan ==
  /\ pc["operator"] = "idle" /\ requests < bound.requests
  /\ requests' = requests + 1
  /\ Rescan("operator")
  /\ UNCHANGED <<stored, bound, patches, failures>>

\* POST cross-matches, for a GRB that is there.
CreateMatch(t) ==
  /\ pc["operator"] = "idle" /\ requests < bound.requests
  /\ t \in AutoMatched /\ trigger[t].notice > 0
  /\ requests' = requests + 1
  /\ Single("operator", t)
  /\ UNCHANGED <<stored, bound, patches, failures>>

\* PATCH cross-matches: sets the flag of a match that is there.
Patch(t, associated) ==
  /\ patches < bound.patches
  /\ match[t].computed
  /\ match' = [match EXCEPT ![t].associated = associated]
  /\ patches' = patches + 1
  /\ UNCHANGED <<pc, job, summary, fits, contours, trigger, moc, bound, requests, failures>>

-------------------------------------------------------------------------------
Clusterer == AttachSkymap \/ StoreFits \/ StoreContours \/ RescanAttached \/ Compute("clusterer")

GcnConsumer == StoreTrigger \/ FindSuperevents \/ Compute("gcn")

Next ==
  \/ Clusterer
  \/ GcnConsumer \/ \E t \in Trigger, localized \in BOOLEAN : ReceiveNotice(t, localized)
  \/ Compute("operator") \/ Scan
  \/ \E t \in Trigger : CreateMatch(t) \/ \E b \in BOOLEAN : Patch(t, b)

Spec == Init /\ [][Next]_vars

\* Each of the three goes on with what it has begun; a sky map is attached as
\* long as there is one.  No notice has to come, no operator has to act.
Fairness ==
  WF_vars(Clusterer) /\ WF_vars(GcnConsumer) /\ WF_vars(Compute("operator"))

FairSpec == Spec /\ Fairness

-------------------------------------------------------------------------------
(* Properties *)

Quiescent == \A a \in Actor : pc[a] = "idle"

\* A GRB with a position and a superevent with a sky map are matched, however
\* their handlers were interleaved: the one that stores its side last sees the
\* other's.  (Each writes before it looks.)
NoMissedMatch ==
  Quiescent /\ fits > 0 =>
    \A t \in AutoMatched : trigger[t].localized => match[t].computed

\* A match that is left when all is quiet was computed from the latest sky map
\* or from the latest position: a write based on two outdated inputs never
\* comes last.  That holds as long as no operator computes matches.
NeverDoublyStale ==
  Quiescent /\ requests = 0 =>
    \A t \in AutoMatched :
      match[t].computed /\ trigger[t].localized =>
        match[t].fits = fits \/ match[t].position = trigger[t].notice

\* A GRB with a position and a superevent with a sky map end up matched, and so
\* does any trigger, matched on arrival or not, that is there when a rescan
\* begins -- or a later notice has taken its position back.
EventuallyMatched ==
  \A t \in Trigger :
    (fits > 0 /\ trigger[t].localized /\ (t \in AutoMatched \/ pc["clusterer"] = "rescan"))
      ~> (match[t].computed \/ ~ trigger[t].localized)

===============================================================================
