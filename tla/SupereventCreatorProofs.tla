----------------------- MODULE SupereventCreatorProofs ------------------------
(***************************************************************************)
(* The invariants and action properties of SupereventCreator, and that it  *)
(* implements SupereventTimeline, for every set of events, every window    *)
(* and every number of calls.                                              *)
(***************************************************************************)
EXTENDS SupereventCreator, ClusteringProofs

\* IInv, said of the value of the creator.
LEMMA IInvIsGood ==
  /\ IInv <=> GoodCreator(creator) /\ arrivals \in 0 .. MaxArrivals
  /\ IInv' <=> GoodCreator(creator') /\ arrivals' \in 0 .. MaxArrivals
<1>1. ASSUME NEW c, GoodCreator(c), NEW t \in DOMAIN c.superevents
      PROVE  c.superevents[t].g_events # <<>>
  <2>1. DOMAIN c.superevents[t].g_events # {}
    BY <1>1 DEF GoodCreator, GoodSuperevent
  <2>. QED
    BY <2>1
<1>. QED
  BY <1>1 DEF IInv, TypeOK, IndexAgrees, IdsIdentify, WindowsSeparated, PreferredIsLoudest,
              MembersInWindow, GoodCreator, GoodSuperevent

-------------------------------------------------------------------------------
\* The invariant, call by call.
LEMMA ProcessPreserves ==
  ASSUME IInv, NEW e \in Event, ProcessEvent(e)
  PROVE  IInv'
<1>1. GoodCreator(Process(creator, e))
  BY IInvIsGood, ProcessKeepsGood
<1>2. creator' = Process(creator, e) /\ arrivals' \in 0 .. MaxArrivals
  BY MaxArrivalsAssumption DEF ProcessEvent, IInv, TypeOK
<1>. QED
  BY <1>1, <1>2, IInvIsGood

\* attach_skymap, for a known id or an unknown one.
LEMMA AttachPreserves ==
  ASSUME IInv, NEW id, NEW fits \in Event, Attach(id, fits)
  PROVE  IInv'
<1>1. GoodCreator(AttachSkymap(creator, id, fits))
  BY IInvIsGood, AttachKeepsGood
<1>2. creator' = AttachSkymap(creator, id, fits) /\ arrivals' \in 0 .. MaxArrivals
  BY DEF Attach, IInv, TypeOK
<1>. QED
  BY <1>1, <1>2, IInvIsGood

\* cleanup_before: what is kept is kept in both maps.
LEMMA CleanupPreserves ==
  ASSUME IInv, NEW cutoff \in Int, Cleanup(cutoff)
  PROVE  IInv'
<1> DEFINE D == DOMAIN creator.superevents
           kept == {t \in D : ~ (creator.superevents[t].t_end < cutoff)}
<1>1. /\ DOMAIN creator' = {"superevents", "times", "next_seq"}
      /\ creator'.superevents = [t \in kept |-> creator.superevents[t]]
      /\ creator'.times = [t \in kept |-> creator.times[t]]
      /\ creator'.next_seq = creator.next_seq
      /\ arrivals' = arrivals
  <2>1. DOMAIN creator.times \cap kept = kept
    BY DEF IInv, IndexAgrees
  <2>. QED
    BY <2>1 DEF Cleanup, CleanupBefore, Restrict
<1>2. kept \subseteq D
  OBVIOUS
<1>. HIDE DEF kept
<1>3. /\ DOMAIN creator'.superevents = kept /\ kept \subseteq Int
      /\ \A t \in kept : creator'.superevents[t] = creator.superevents[t]
  BY <1>1, <1>2 DEF IInv, TypeOK
<1>4. GoodCreator(creator)
  BY IInvIsGood
<1>5. \A t \in kept : GoodSuperevent(t, creator'.superevents[t])
  BY <1>2, <1>3, <1>4 DEF GoodCreator
<1>6. GoodCreator(creator')
  BY <1>1, <1>2, <1>3, <1>4, <1>5 DEF GoodCreator
<1>7. arrivals' \in 0 .. MaxArrivals
  BY <1>1 DEF IInv, TypeOK
<1>. QED
  BY <1>6, <1>7, IInvIsGood

\* A restart through Redis, which also gives the very same windows back.
LEMMA ReloadPreserves ==
  ASSUME IInv, Reload
  PROVE  /\ IInv'
         /\ creator'.superevents = creator.superevents
         /\ creator'.times = creator.times
<1>1. creator' = LoadFromRedis(SaveToRedis(creator)) /\ arrivals' = arrivals
  BY DEF Reload
<1>. QED
  BY <1>1, IInvIsGood, LoadAfterSave

\* SupereventCreator::new is well formed.
LEMMA InitEstablishes == Init => IInv
BY EmptyIsGood, IInvIsGood, MaxArrivalsAssumption DEF Init

\* Every call preserves the invariant.
LEMMA NextPreserves == IInv /\ [Next]_vars => IInv'
<1> SUFFICES ASSUME IInv, [Next]_vars PROVE IInv'
  OBVIOUS
<1>1. ASSUME NEW e \in Event, ProcessEvent(e) PROVE IInv'
  BY <1>1, ProcessPreserves
<1>2. ASSUME NEW id \in 0 .. creator.next_seq, NEW fits \in Event, Attach(id, fits)
      PROVE  IInv'
  BY <1>2, AttachPreserves
<1>3. ASSUME NEW cutoff \in Cutoff, Cleanup(cutoff) PROVE IInv'
  BY <1>3, CutoffAssumption, CleanupPreserves
<1>4. ASSUME Reload PROVE IInv'
  BY <1>4, ReloadPreserves
<1>5. CASE UNCHANGED vars
  BY <1>5 DEF vars, IInv, TypeOK, IndexAgrees, IdsIdentify, WindowsSeparated,
              PreferredIsLoudest, MembersInWindow
<1>. QED
  BY <1>1, <1>2, <1>3, <1>4, <1>5 DEF Next

\* The clustering state is well formed after every sequence of calls: index and
\* superevents agree, ids identify, windows are separated, the preferred event
\* is the loudest recorded, and every recorded event is in its window.
THEOREM CreatorInvariant == Spec => []IInv
BY InitEstablishes, NextPreserves, PTL DEF Spec

\* Both maps have the types of the struct, whatever is called.
THEOREM TypesHold == Spec => []TypeOK
BY CreatorInvariant, PTL DEF IInv

\* The temporal index never points at a missing superevent, nor misses one.
THEOREM IndexStaysAgreed == Spec => []IndexAgrees
BY CreatorInvariant, PTL DEF IInv

\* No id is allocated twice among the open superevents, restarts included.
THEOREM IdsStayUnique == Spec => []IdsIdentify
BY CreatorInvariant, PTL DEF IInv

\* Two open superevents are always more than half a window apart.
THEOREM WindowsStaySeparated == Spec => []WindowsSeparated
BY CreatorInvariant, PTL DEF IInv

\* The running maximum is the maximum: the preferred event is the first of the
\* loudest G events recorded.
THEOREM PreferredStaysLoudest == Spec => []PreferredIsLoudest
BY CreatorInvariant, PTL DEF IInv

\* No superevent records an event outside its window.
THEOREM MembersStayInWindow == Spec => []MembersInWindow
BY CreatorInvariant, PTL DEF IInv

-------------------------------------------------------------------------------
(* Action properties. *)

\* process joins the closest of all open windows, or opens one where none
\* reaches.
LEMMA ProcessJoinsClosest ==
  ASSUME IInv, NEW e \in Event, ProcessEvent(e)
  PROVE  LET open == DOMAIN creator.superevents
         IN  IF \E t \in open : Distance(e.end_time, t) <= Half
             THEN \E t \in open :
                    /\ \A u \in open : Distance(e.end_time, t) <= Distance(e.end_time, u)
                    /\ creator'.superevents[t].g_events =
                         Append(creator.superevents[t].g_events, e)
                    /\ \A u \in open \ {t} :
                         creator'.superevents[u] = creator.superevents[u]
                    /\ DOMAIN creator'.superevents = open
             ELSE DOMAIN creator'.superevents = open \cup {e.end_time}
<1> DEFINE D == DOMAIN creator.superevents
           g == e.end_time
<1>1. /\ creator' = Process(creator, e) /\ g \in Int /\ D \subseteq Int
      /\ creator.superevents \in [D -> Superevent]
  BY EventAssumption DEF ProcessEvent, IInv, TypeOK
<1>2. CASE Opens(creator, e)
  <2>1. /\ creator'.superevents =
             Insert(creator.superevents, g, NewSuperevent(creator.next_seq, e))
        /\ \A t \in D : Distance(g, t) > Half
    BY <1>1, <1>2, OpenStep, IInvIsGood
  <2>2. DOMAIN creator'.superevents = D \cup {g}
    BY <2>1 DEF Insert
  <2>3. ~ \E t \in D : Distance(g, t) <= Half
    BY <1>1, <2>1, HalfAssumption DEF Distance
  <2>. QED
    BY <2>2, <2>3
<1>3. CASE ~ Opens(creator, e)
  <2> DEFINE h == HostT0(creator, e)
             s == creator.superevents[h]
             r == Join(s, e, Promotes(creator, e))
  <2>1. /\ creator'.superevents = [creator.superevents EXCEPT ![h] = r]
        /\ h \in D
        /\ Distance(g, h) <= Half
        /\ \A u \in D : Distance(g, h) <= Distance(g, u)
    BY <1>1, <1>3, JoinStep, IInvIsGood
  <2>2. r.g_events = Append(s.g_events, e)
    BY <1>1, <2>1 DEF Join, Superevent
  <2>. HIDE DEF r
  <2>3. /\ creator'.superevents[h].g_events = Append(s.g_events, e)
        /\ \A u \in D \ {h} : creator'.superevents[u] = creator.superevents[u]
        /\ DOMAIN creator'.superevents = D
    BY <1>1, <2>1, <2>2
  <2>. QED
    BY <2>1, <2>3
<1>. QED
  BY <1>2, <1>3

\* Every event lands in the closest of all open windows, or opens its own.
THEOREM AlwaysJoinsClosest == Spec => JoinsClosest
<1>1. IInv /\ [Next]_vars =>
        [ \A e \in Event : ProcessEvent(e) =>
            LET open == DOMAIN creator.superevents
            IN  IF \E t \in open : Distance(e.end_time, t) <= Half
                THEN \E t \in open :
                       /\ \A u \in open : Distance(e.end_time, t) <= Distance(e.end_time, u)
                       /\ creator'.superevents[t].g_events =
                            Append(creator.superevents[t].g_events, e)
                       /\ \A u \in open \ {t} :
                            creator'.superevents[u] = creator.superevents[u]
                       /\ DOMAIN creator'.superevents = open
                ELSE DOMAIN creator'.superevents = open \cup {e.end_time} ]_vars
  BY ProcessJoinsClosest
<1>. QED
  BY <1>1, CreatorInvariant, PTL DEF Spec, JoinsClosest

\* A restart through Redis gives every open window back as it was.
THEOREM ReloadLosesNothing == Spec => ReloadIsLossless
<1>1. IInv /\ [Next]_vars =>
        [ Reload => /\ creator'.superevents = creator.superevents
                    /\ creator'.times = creator.times ]_vars
  BY ReloadPreserves
<1>. QED
  BY <1>1, CreatorInvariant, PTL DEF Spec, ReloadIsLossless

-------------------------------------------------------------------------------
(* The creator implements the timeline. *)

\* An event that opens a superevent opens a window of the timeline.
LEMMA OpenRefines ==
  ASSUME IInv, NEW e \in Event, Opens(creator, e), ProcessEvent(e)
  PROVE  Timeline!OpenWindow(e)
<1> DEFINE D == DOMAIN creator.superevents
           g == e.end_time
           new == NewSuperevent(creator.next_seq, e)
<1>1. /\ creator'.superevents = Insert(creator.superevents, g, new)
      /\ g \in Int /\ D \subseteq Int
      /\ \A t \in D : Distance(g, t) > Half
  BY OpenStep, IInvIsGood DEF ProcessEvent, IInv, TypeOK
<1>2. Timeline!Holding(g) = {}
  BY <1>1, HalfAssumption DEF Timeline!Holding, Timeline!Gap, Distance, members
<1>3. new.preferred_event = e /\ Range(new.g_events) = {e}
  BY DEF NewSuperevent, Range
<1>. HIDE DEF new
<1>4. members' = [t \in D \cup {g} |-> IF t = g THEN {e} ELSE members[t]]
  BY <1>1, <1>3 DEF members, Insert
<1>5. preferred' = [t \in D \cup {g} |-> IF t = g THEN e ELSE preferred[t]]
  BY <1>1, <1>3 DEF preferred, Insert
<1>6. DOMAIN members = D /\ DOMAIN preferred = D
  BY DEF members, preferred
<1>. QED
  BY <1>2, <1>4, <1>5, <1>6 DEF Timeline!OpenWindow

\* An event that joins a superevent joins that window of the timeline.
LEMMA JoinRefines ==
  ASSUME IInv, IInv', NEW e \in Event, ~ Opens(creator, e), ProcessEvent(e)
  PROVE  Timeline!JoinWindow(e, HostT0(creator, e))
<1> DEFINE D == DOMAIN creator.superevents
           g == e.end_time
           h == HostT0(creator, e)
           s == creator.superevents[h]
           r == Join(s, e, Promotes(creator, e))
<1>1. /\ creator'.superevents = [creator.superevents EXCEPT ![h] = r]
      /\ h \in D /\ D \subseteq Int /\ g \in Int
      /\ creator.superevents \in [D -> Superevent]
      /\ Distance(g, h) <= Half
      /\ \A u \in D : Distance(g, h) <= Distance(g, u)
  BY JoinStep, IInvIsGood, EventAssumption DEF ProcessEvent, IInv, TypeOK
<1>2. h \in Timeline!Closest(g)
  BY <1>1 DEF Timeline!Closest, Timeline!Holding, Timeline!Gap, Distance, members
<1>3. s \in Superevent /\ s.g_events \in Seq(Event)
  BY <1>1 DEF Superevent
<1>4. r.g_events = Append(s.g_events, e)
  BY <1>3 DEF Join, Superevent
<1>5. Range(r.g_events) = Range(s.g_events) \cup {e}
  BY <1>3, <1>4, RangeOfAppend
<1>. HIDE DEF r
<1>6. members' = [members EXCEPT ![h] = @ \cup {e}]
  BY <1>1, <1>5 DEF members
<1>7. preferred' = [preferred EXCEPT ![h] = r.preferred_event]
  BY <1>1 DEF preferred
<1>8. r.preferred_event \in Timeline!Loudest(members[h] \cup {e})
  <2>1. \E i \in DOMAIN r.g_events :
          /\ r.g_events[i] = r.preferred_event
          /\ \A j \in DOMAIN r.g_events : r.g_events[j].snr <= r.preferred_event.snr
    BY <1>1 DEF IInv, PreferredIsLoudest
  <2>2. members[h] \cup {e} = Range(r.g_events)
    BY <1>1, <1>5 DEF members
  <2>. QED
    BY <2>1, <2>2 DEF Timeline!Loudest, Range
<1>. QED
  BY <1>2, <1>6, <1>7, <1>8 DEF Timeline!JoinWindow

\* Pruning forgets the earliest windows of the timeline.
LEMMA CleanupRefines ==
  ASSUME IInv, NEW cutoff \in Int, Cleanup(cutoff)
  PROVE  \E kept \in SUBSET DOMAIN members : Timeline!Forget(kept)
<1> DEFINE D == DOMAIN creator.superevents
           kept == {t \in D : ~ (creator.superevents[t].t_end < cutoff)}
<1>1. creator'.superevents = [t \in kept |-> creator.superevents[t]]
  BY DEF Cleanup, CleanupBefore, Restrict
<1>2. /\ D \subseteq Int
      /\ \A t \in D : creator.superevents[t].t_end = t + Half
  BY DEF IInv, TypeOK, MembersInWindow
<1>3. \A t \in kept, u \in D : t < u => u \in kept
  BY <1>2, HalfAssumption
<1>4. kept \subseteq D /\ DOMAIN members = D
  BY DEF members
<1>. HIDE DEF kept
<1>5. /\ members' = [t \in kept |-> members[t]]
      /\ preferred' = [t \in kept |-> preferred[t]]
  BY <1>1, <1>4 DEF members, preferred
<1>. QED
  BY <1>3, <1>4, <1>5 DEF Timeline!Forget

\* A sky map is no event of the timeline.
LEMMA AttachRefines ==
  ASSUME IInv, NEW id, NEW fits \in Event, Attach(id, fits)
  PROVE  UNCHANGED <<members, preferred>>
<1> DEFINE D == DOMAIN creator.superevents
           hit(t) == t \in KeysOf(creator, id) /\ \A u \in KeysOf(creator, id) : t <= u
           with(t) == [creator.superevents[t] EXCEPT !.skymap = fits]
<1>1. /\ creator.superevents \in [D -> Superevent]
      /\ DOMAIN creator = {"superevents", "times", "next_seq"}
  BY DEF IInv, TypeOK
<1>2. creator'.superevents =
        [t \in D |-> IF hit(t) THEN with(t) ELSE creator.superevents[t]]
  BY <1>1 DEF Attach, AttachSkymap
<1>3. \A t \in D : /\ with(t).g_events = creator.superevents[t].g_events
                   /\ with(t).preferred_event = creator.superevents[t].preferred_event
  BY <1>1 DEF Superevent
<1>. HIDE DEF hit, with
<1>. QED
  BY <1>2, <1>3 DEF members, preferred

\* Every call is a step of the timeline or leaves it alone.
LEMMA NextRefines ==
  IInv /\ IInv' /\ [Next]_vars => [Timeline!Next]_(Timeline!vars)
<1> SUFFICES ASSUME IInv, IInv', [Next]_vars
             PROVE  Timeline!Next \/ UNCHANGED <<members, preferred>>
  BY DEF Timeline!vars
<1>1. ASSUME NEW e \in Event, ProcessEvent(e) PROVE Timeline!Next
  <2>1. CASE Opens(creator, e)
    BY <1>1, <2>1, OpenRefines DEF Timeline!Next
  <2>2. CASE ~ Opens(creator, e)
    <3>1. HostT0(creator, e) \in DOMAIN members
      BY <1>1, <2>2, JoinStep, IInvIsGood DEF ProcessEvent, members
    <3>. QED
      BY <1>1, <2>2, <3>1, JoinRefines DEF Timeline!Next
  <2>. QED
    BY <2>1, <2>2
<1>2. ASSUME NEW id \in 0 .. creator.next_seq, NEW fits \in Event, Attach(id, fits)
      PROVE  UNCHANGED <<members, preferred>>
  BY <1>2, AttachRefines
<1>3. ASSUME NEW cutoff \in Cutoff, Cleanup(cutoff) PROVE Timeline!Next
  BY <1>3, CutoffAssumption, CleanupRefines DEF Timeline!Next
<1>4. ASSUME Reload PROVE UNCHANGED <<members, preferred>>
  BY <1>4, ReloadPreserves DEF members, preferred
<1>5. CASE UNCHANGED vars
  BY <1>5 DEF vars, members, preferred
<1>. QED
  BY <1>1, <1>2, <1>3, <1>4, <1>5 DEF Next

\* The creator -- bisection, running maximum, index upkeep, pruning, restart --
\* implements the timeline, for every set of events and every window.
THEOREM CreatorImplementsTimeline == Spec => TimelineSpec
<1>1. Init => Timeline!Init
  BY DEF Init, EmptyCreator, Timeline!Init, members, preferred
<1>. QED
  BY <1>1, NextRefines, CreatorInvariant, PTL DEF Spec, TimelineSpec, Timeline!Spec

-------------------------------------------------------------------------------
(* Open windows only grow. *)

\* r is what a call made of the open superevent s.
Grew(s, r) ==
  /\ r.id = s.id
  /\ Range(s.g_events) \subseteq Range(r.g_events)
  /\ s.preferred_event.snr <= r.preferred_event.snr

\* A superevent a call does not touch has not shrunk.
LEMMA UntouchedGrew ==
  ASSUME NEW s \in Superevent
  PROVE  Grew(s, s)
<1>1. s.preferred_event.snr \in Int
  BY EventAssumption DEF Superevent
<1>. QED
  BY <1>1 DEF Grew

\* An event that joins makes the superevent grow, one that opens another leaves
\* it alone.
LEMMA ProcessGrows ==
  ASSUME IInv, NEW e \in Event, ProcessEvent(e), NEW t \in DOMAIN creator.superevents
  PROVE  Grew(creator.superevents[t], creator'.superevents[t])
<1> DEFINE D == DOMAIN creator.superevents
           old == creator.superevents[t]
<1>1. /\ creator' = Process(creator, e) /\ D \subseteq Int
      /\ creator.superevents \in [D -> Superevent] /\ old \in Superevent
      /\ e.snr \in Int /\ old.preferred_event.snr \in Int
      /\ old.g_events \in Seq(Event)
  BY EventAssumption DEF ProcessEvent, IInv, TypeOK, Superevent
<1>2. CASE Opens(creator, e)
  <2>1. /\ creator'.superevents = Insert(creator.superevents, e.end_time,
                                         NewSuperevent(creator.next_seq, e))
        /\ e.end_time \notin D
    BY <1>1, <1>2, OpenStep, IInvIsGood
  <2>2. creator'.superevents[t] = old
    BY <2>1 DEF Insert
  <2>. QED
    BY <1>1, <2>2, UntouchedGrew
<1>3. CASE ~ Opens(creator, e)
  <2> DEFINE h == HostT0(creator, e)
             r == Join(creator.superevents[h], e, Promotes(creator, e))
  <2>1. /\ creator'.superevents = [creator.superevents EXCEPT ![h] = r]
        /\ h \in D
        /\ Promotes(creator, e) \in BOOLEAN
        /\ Promotes(creator, e) <=> e.snr > creator.superevents[h].preferred_event.snr
    BY <1>1, <1>3, JoinStep, IInvIsGood
  <2>2. CASE t = h
    <3>1. /\ r.id = old.id /\ r.g_events = Append(old.g_events, e)
          /\ r.preferred_event = IF Promotes(creator, e) THEN e ELSE old.preferred_event
      BY <1>1, <2>2 DEF Join, Superevent
    <3>2. creator'.superevents[t] = r
      BY <1>1, <2>1, <2>2
    <3>. HIDE DEF r
    <3>3. Range(r.g_events) = Range(old.g_events) \cup {e}
      BY <1>1, <3>1, RangeOfAppend
    <3>4. old.preferred_event.snr <= r.preferred_event.snr
      BY <1>1, <2>1, <2>2, <3>1
    <3>. QED
      BY <3>1, <3>2, <3>3, <3>4 DEF Grew
  <2>3. CASE t # h
    <3>1. creator'.superevents[t] = old
      BY <1>1, <2>1, <2>3
    <3>. QED
      BY <1>1, <3>1, UntouchedGrew
  <2>. QED
    BY <2>2, <2>3
<1>. QED
  BY <1>2, <1>3

\* A sky map changes neither id nor events.
LEMMA AttachGrows ==
  ASSUME IInv, NEW id, NEW fits \in Event, Attach(id, fits),
         NEW t \in DOMAIN creator.superevents
  PROVE  Grew(creator.superevents[t], creator'.superevents[t])
<1> DEFINE D == DOMAIN creator.superevents
           hit(u) == u \in KeysOf(creator, id) /\ \A v \in KeysOf(creator, id) : u <= v
           old == creator.superevents[t]
           new == [old EXCEPT !.skymap = fits]
<1>1. /\ old \in Superevent /\ DOMAIN creator = {"superevents", "times", "next_seq"}
      /\ old.preferred_event.snr \in Int
  BY EventAssumption DEF IInv, TypeOK, Superevent
<1>2. creator'.superevents[t] = IF hit(t) THEN new ELSE old
  BY <1>1 DEF Attach, AttachSkymap
<1>3. /\ new.id = old.id /\ new.g_events = old.g_events
      /\ new.preferred_event = old.preferred_event
  BY <1>1 DEF Superevent
<1>4. creator'.superevents[t] \in {new, old}
  BY <1>2
<1>. HIDE DEF hit, new
<1>. QED
  BY <1>1, <1>3, <1>4 DEF Grew

\* Pruning and restarts leave what stays open as it is.
LEMMA OthersGrow ==
  ASSUME IInv,
         (\E cutoff \in Cutoff : Cleanup(cutoff)) \/ Reload \/ UNCHANGED vars,
         NEW t \in DOMAIN creator.superevents, t \in DOMAIN creator'.superevents
  PROVE  Grew(creator.superevents[t], creator'.superevents[t])
<1>1. creator.superevents[t] \in Superevent
  BY DEF IInv, TypeOK
<1>2. creator'.superevents[t] = creator.superevents[t]
  <2>1. CASE \E cutoff \in Cutoff : Cleanup(cutoff)
    BY <2>1 DEF Cleanup, CleanupBefore, Restrict
  <2>2. CASE Reload
    BY <2>2, ReloadPreserves
  <2>3. CASE UNCHANGED vars
    BY <2>3 DEF vars
  <2>. QED
    BY <2>1, <2>2, <2>3
<1>. QED
  BY <1>1, <1>2, UntouchedGrew

\* No call takes an event, the id or the loudest SNR from a superevent that
\* stays open.
THEOREM WindowsOnlyGrow == Spec => OpenWindowsOnlyGrow
<1>1. IInv /\ [Next]_vars =>
        \A t \in DOMAIN creator.superevents \cap DOMAIN creator'.superevents :
          Grew(creator.superevents[t], creator'.superevents[t])
  BY ProcessGrows, AttachGrows, OthersGrow DEF Next
<1>2. IInv /\ [Next]_vars =>
        [ \A t \in DOMAIN creator.superevents \cap DOMAIN creator'.superevents :
            LET s == creator.superevents[t]
                r == creator'.superevents[t]
            IN  /\ r.id = s.id
                /\ Range(s.g_events) \subseteq Range(r.g_events)
                /\ s.preferred_event.snr <= r.preferred_event.snr ]_vars
  BY <1>1 DEF Grew
<1>. QED
  BY <1>2, CreatorInvariant, PTL DEF Spec, OpenWindowsOnlyGrow

===============================================================================
