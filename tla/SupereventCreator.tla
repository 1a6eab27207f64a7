--------------------------- MODULE SupereventCreator ---------------------------
(***************************************************************************)
(* A SupereventCreator (src/clustering.rs) under every sequence of calls   *)
(* its public interface allows: events in any order and any number of      *)
(* times, sky maps for known and unknown ids, pruning, and a stop and      *)
(* restart through the store of src/state.rs.                              *)
(***************************************************************************)
EXTENDS Clustering

CONSTANTS
  Cutoff,      \* the cutoff times cleanup_before may be called with
  MaxArrivals  \* bound: how many events a behaviour processes

ASSUME CutoffAssumption == Cutoff \subseteq Int

ASSUME MaxArrivalsAssumption == MaxArrivals \in Nat

VARIABLES
  creator,   \* the SupereventCreator
  arrivals   \* how many events were processed (bounds the model)

vars == <<creator, arrivals>>

Init ==
  /\ creator = EmptyCreator
  /\ arrivals = 0

\* One call of process.
ProcessEvent(e) ==
  /\ arrivals < MaxArrivals
  /\ arrivals' = arrivals + 1
  /\ creator' = Process(creator, e)

\* One call of attach_skymap; the ids from next_seq on are unknown ones.
Attach(id, fits) ==
  /\ creator' = AttachSkymap(creator, id, fits)
  /\ UNCHANGED arrivals

\* One call of cleanup_before.
Cleanup(cutoff) ==
  /\ creator' = CleanupBefore(creator, cutoff)
  /\ UNCHANGED arrivals

\* A stop after save_to_redis and a start through load_from_redis.
Reload ==
  /\ creator' = LoadFromRedis(SaveToRedis(creator))
  /\ UNCHANGED arrivals

Next ==
  \/ \E e \in Event : ProcessEvent(e)
  \/ \E id \in 0 .. creator.next_seq, fits \in Event : Attach(id, fits)
  \/ \E cutoff \in Cutoff : Cleanup(cutoff)
  \/ Reload

Spec == Init /\ [][Next]_vars

-------------------------------------------------------------------------------
\* The keys and values of both maps, and the sequence number, are what the
\* struct's types say (clustering.rs:97-106), and no superevent is without a G
\* event: the one it was opened for is recorded at once.
TypeOK ==
  /\ DOMAIN creator = {"superevents", "times", "next_seq"}
  /\ DOMAIN creator.superevents \subseteq Int
  /\ creator.superevents \in [DOMAIN creator.superevents -> Superevent]
  /\ \A t \in DOMAIN creator.superevents : creator.superevents[t].g_events # <<>>
  /\ creator.times \in [DOMAIN creator.times -> Nat]
  /\ creator.next_seq \in Nat
  /\ arrivals \in 0 .. MaxArrivals

\* The temporal index and the superevents hold the same windows under the same
\* keys and ids, so that process never meets "temporal index pointed at a
\* missing superevent" and attach_skymap never loses a map.
IndexAgrees ==
  /\ DOMAIN creator.times = DOMAIN creator.superevents
  /\ \A t \in DOMAIN creator.superevents :
       /\ creator.superevents[t].t_0 = t
       /\ creator.superevents[t].id = creator.times[t]

\* An id names one open superevent, and process never allocates an id that is
\* still open -- also after a restart, where the sequence is recovered from the
\* stored ids alone.
IdsIdentify ==
  /\ \A t \in DOMAIN creator.times : creator.times[t] < creator.next_seq
  /\ \A t, u \in DOMAIN creator.times :
       creator.times[t] = creator.times[u] => t = u

\* A new window is opened only where no open one reaches: the t_0 of two open
\* superevents are more than half a window apart, whatever the order the
\* events came in.
WindowsSeparated ==
  \A t, u \in DOMAIN creator.superevents : t < u => u - t > Half

\* The preferred event is the loudest of the superevent's G events, and the
\* first of the equally loud ones (SkipReason::LowerSnr records the others).
PreferredIsLoudest ==
  \A t \in DOMAIN creator.superevents :
    LET s == creator.superevents[t]
    IN  \E i \in DOMAIN s.g_events :
          /\ s.g_events[i] = s.preferred_event
          /\ \A j \in DOMAIN s.g_events : s.g_events[j].snr <= s.preferred_event.snr
          /\ \A j \in 1 .. i - 1 : s.g_events[j].snr < s.preferred_event.snr

\* Every G event recorded in a superevent lies between t_start and t_end, the
\* bounds kept for archive, pruning and display, which no call moves.
MembersInWindow ==
  \A t \in DOMAIN creator.superevents :
    LET s == creator.superevents[t]
    IN  /\ s.t_start = t - Half /\ s.t_end = t + Half
        /\ \A i \in DOMAIN s.g_events :
             s.t_start <= s.g_events[i].end_time /\ s.g_events[i].end_time <= s.t_end

\* All of the above: what every call preserves.
IInv ==
  /\ TypeOK
  /\ IndexAgrees
  /\ IdsIdentify
  /\ WindowsSeparated
  /\ PreferredIsLoudest
  /\ MembersInWindow

\* An event is recorded in a window that is closest to it of ALL open windows,
\* though only the two neighbours of the bisection are looked at; and it opens
\* a window only if none of the open ones reaches it.
JoinsClosest ==
  [][ \A e \in Event : ProcessEvent(e) =>
        LET open == DOMAIN creator.superevents
        IN  IF \E t \in open : Distance(e.end_time, t) <= Half
            THEN \E t \in open :
                   /\ \A u \in open : Distance(e.end_time, t) <= Distance(e.end_time, u)
                   /\ creator'.superevents[t].g_events =
                        Append(creator.superevents[t].g_events, e)
                   /\ \A u \in open \ {t} :
                        creator'.superevents[u] = creator.superevents[u]
                   /\ DOMAIN creator'.superevents = open
            ELSE DOMAIN creator'.superevents = open \cup {e.end_time} ]_vars

\* A restart through Redis gives back every open window as it was.
ReloadIsLossless ==
  [][ Reload => /\ creator'.superevents = creator.superevents
                /\ creator'.times = creator.times ]_vars

\* A superevent that stays open keeps its id and window, loses no G event, and
\* its preferred SNR never falls: neither a sky map, pruning of other windows
\* nor a restart rolls one back.
OpenWindowsOnlyGrow ==
  [][ \A t \in DOMAIN creator.superevents \cap DOMAIN creator'.superevents :
        LET s == creator.superevents[t]
            r == creator'.superevents[t]
        IN  /\ r.id = s.id
            /\ Range(s.g_events) \subseteq Range(r.g_events)
            /\ s.preferred_event.snr <= r.preferred_event.snr ]_vars

-------------------------------------------------------------------------------
(* The creator implements the timeline. *)

members ==
  [t \in DOMAIN creator.superevents |-> Range(creator.superevents[t].g_events)]

preferred ==
  [t \in DOMAIN creator.superevents |-> creator.superevents[t].preferred_event]

Timeline == INSTANCE SupereventTimeline

\* Bisection, running maximum, index upkeep, pruning and restart together do
\* what the timeline asks: the closest of all windows, a loudest event of all
\* recorded ones, and no other change.
TimelineSpec == Timeline!Spec

===============================================================================
