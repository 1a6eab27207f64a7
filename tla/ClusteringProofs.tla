--------------------------- MODULE ClusteringProofs ---------------------------
(***************************************************************************)
(* What the operators of Clustering return, for every value of the        *)
(* constants: the bisection finds a closest window of all, every call      *)
(* keeps a creator well formed, and a creator stored and loaded again is   *)
(* the same creator.                                                       *)
(***************************************************************************)
EXTENDS Clustering, WellFoundedInduction, SequenceTheorems, TLAPS

\* Every non-empty set of naturals has a least element.
LEMMA LeastNatural ==
  ASSUME NEW S \in SUBSET Nat, S # {}
  PROVE  \E m \in S : \A n \in S : m <= n
<1>1. PICK m \in S : \A n \in S : ~ (<<n, m>> \in OpToRel(<, Nat))
  BY NatLessThanWellFounded, WFMin
<1>2. \A n \in S : ~ (n < m)
  BY <1>1 DEF OpToRel
<1>. QED
  BY <1>2

\* A non-empty set of integers below a bound has a greatest element.
LEMMA GreatestBelow ==
  ASSUME NEW S \in SUBSET Int, S # {}, NEW b \in Int, \A x \in S : x <= b
  PROVE  \E g \in S : \A x \in S : x <= g
<1> DEFINE D == {b - x : x \in S}
<1>1. \A x \in S : x \in Int /\ b - x \in Nat
  OBVIOUS
<1>2. D \in SUBSET Nat /\ D # {}
  BY <1>1
<1>3. PICK m \in D : \A n \in D : m <= n
  BY <1>2, LeastNatural
<1>4. PICK g \in S : m = b - g
  OBVIOUS
<1>5. ASSUME NEW x \in S PROVE x <= g
  <2>1. b - x \in D
    OBVIOUS
  <2>2. b - g <= b - x
    BY <1>3, <1>4, <2>1
  <2>. QED
    BY <1>1, <2>2
<1>. QED
  BY <1>5

\* A non-empty set of integers above a bound has a least element.
LEMMA LeastAbove ==
  ASSUME NEW S \in SUBSET Int, S # {}, NEW b \in Int, \A x \in S : b <= x
  PROVE  \E l \in S : \A x \in S : l <= x
<1> DEFINE D == {x - b : x \in S}
<1>1. \A x \in S : x \in Int /\ x - b \in Nat
  OBVIOUS
<1>2. D \in SUBSET Nat /\ D # {}
  BY <1>1
<1>3. PICK m \in D : \A n \in D : m <= n
  BY <1>2, LeastNatural
<1>4. PICK l \in S : m = l - b
  OBVIOUS
<1>5. ASSUME NEW x \in S PROVE l <= x
  <2>1. x - b \in D
    OBVIOUS
  <2>2. l - b <= x - b
    BY <1>3, <1>4, <2>1
  <2>. QED
    BY <1>1, <2>2
<1>. QED
  BY <1>5

\* Recording one more event.
LEMMA RangeOfAppend ==
  ASSUME NEW S, NEW seq \in Seq(S), NEW e \in S
  PROVE  Range(Append(seq, e)) = Range(seq) \cup {e}
<1>1. /\ DOMAIN Append(seq, e) = 1 .. Len(seq) + 1
      /\ \A i \in 1 .. Len(seq) : Append(seq, e)[i] = seq[i]
      /\ Append(seq, e)[Len(seq) + 1] = e
      /\ DOMAIN seq = 1 .. Len(seq) /\ Len(seq) \in Nat
  OBVIOUS
<1>. QED
  BY <1>1 DEF Range

-------------------------------------------------------------------------------
\* Of every open window, one of the two neighbours find_closest_t0 bisects to is
\* at least as close: looking at two windows is enough.
LEMMA NeighboursSuffice ==
  ASSUME NEW times, DOMAIN times \subseteq Int, NEW gps \in Int,
         NEW t \in DOMAIN times
  PROVE  \E n \in Neighbours(times, gps) : Distance(gps, n) <= Distance(gps, t)
<1>1. CASE t < gps
  <2> DEFINE below == {u \in DOMAIN times : u < gps}
  <2>1. PICK n \in below : \A u \in below : u <= n
    <3>1. below \in SUBSET Int /\ below # {} /\ \A u \in below : u <= gps
      BY <1>1
    <3>. HIDE DEF below
    <3>. QED
      BY <3>1, GreatestBelow
  <2>2. n \in Neighbours(times, gps) /\ t <= n /\ n < gps
    BY <1>1, <2>1 DEF Neighbours
  <2>. QED
    BY <1>1, <2>2 DEF Distance
<1>2. CASE t >= gps
  <2> DEFINE notBelow == {u \in DOMAIN times : u >= gps}
  <2>1. PICK n \in notBelow : \A u \in notBelow : n <= u
    <3>1. notBelow \in SUBSET Int /\ notBelow # {} /\ \A u \in notBelow : gps <= u
      BY <1>2
    <3>. HIDE DEF notBelow
    <3>. QED
      BY <3>1, LeastAbove
  <2>2. n \in Neighbours(times, gps) /\ n <= t /\ gps <= n
    BY <1>2, <2>1 DEF Neighbours
  <2>. QED
    BY <1>2, <2>2 DEF Distance
<1>. QED
  BY <1>1, <1>2

\* find_closest_t0 answers None only if no open window holds the time.
LEMMA NoneMeansNoWindow ==
  ASSUME NEW times, DOMAIN times \subseteq Int, NEW gps \in Int,
         Candidates(times, gps) = {}, NEW t \in DOMAIN times
  PROVE  Distance(gps, t) > Half
<1>1. PICK n \in Neighbours(times, gps) : Distance(gps, n) <= Distance(gps, t)
  BY NeighboursSuffice
<1>2. n \in Int
  BY <1>1 DEF Neighbours
<1>3. ~ (Distance(gps, n) <= Half)
  BY <1>1 DEF Candidates
<1>. QED
  BY <1>1, <1>2, <1>3, HalfAssumption DEF Distance

\* Otherwise it answers an open window that holds the time and is closest to it
\* of all open windows.
LEMMA ClosestIsClosest ==
  ASSUME NEW times, DOMAIN times \subseteq Int, NEW gps \in Int,
         Candidates(times, gps) # {}
  PROVE  /\ ClosestT0(times, gps) \in DOMAIN times
         /\ Distance(gps, ClosestT0(times, gps)) <= Half
         /\ \A u \in DOMAIN times :
              Distance(gps, ClosestT0(times, gps)) <= Distance(gps, u)
<1> DEFINE C == Candidates(times, gps)
           Best(t) == \A u \in C : \/ Distance(gps, t) < Distance(gps, u)
                                   \/ Distance(gps, t) = Distance(gps, u) /\ t <= u
<1>1. C \subseteq DOMAIN times /\ C \subseteq Int
  BY DEF Candidates, Neighbours
<1>2. \A t \in C : Distance(gps, t) <= Half
  BY DEF Candidates
<1>3. \A t \in Int : Distance(gps, t) \in Nat
  BY DEF Distance
<1>4. \E t \in C : Best(t)
  <2> DEFINE D == {Distance(gps, t) : t \in C}
  <2>1. PICK d \in D : \A x \in D : d <= x
    <3>1. D \in SUBSET Nat /\ D # {}
      BY <1>1, <1>3
    <3>. QED
      BY <3>1, LeastNatural
  <2>2. PICK t1 \in C : d = Distance(gps, t1)
    OBVIOUS
  <2>3. \A u \in C : d <= Distance(gps, u)
    BY <2>1
  <2>4. CASE gps - d \in C
    <3>1. Distance(gps, gps - d) = d
      BY <1>1, <1>3, <2>2 DEF Distance
    <3>2. \A u \in C : Distance(gps, u) = d => gps - d <= u
      BY <1>1 DEF Distance
    <3>. QED
      BY <1>1, <1>3, <2>2, <2>3, <2>4, <3>1, <3>2
  <2>5. CASE gps - d \notin C
    <3>1. \A u \in C : Distance(gps, u) = d => t1 <= u
      BY <1>1, <2>2, <2>5 DEF Distance
    <3>. QED
      BY <1>1, <1>3, <2>2, <2>3, <3>1
  <2>. QED
    BY <2>4, <2>5
<1>5. ClosestT0(times, gps) \in C /\ Best(ClosestT0(times, gps))
  BY <1>4 DEF ClosestT0
<1>6. ASSUME NEW u \in DOMAIN times
      PROVE  Distance(gps, ClosestT0(times, gps)) <= Distance(gps, u)
  <2>1. PICK n \in Neighbours(times, gps) : Distance(gps, n) <= Distance(gps, u)
    BY NeighboursSuffice
  <2>2. n \in Int
    BY <2>1 DEF Neighbours
  <2>3. CASE n \in C
    BY <1>1, <1>3, <1>5, <2>1, <2>2, <2>3
  <2>4. CASE n \notin C
    <3>1. ~ (Distance(gps, n) <= Half)
      BY <2>1, <2>4 DEF Candidates
    <3>. QED
      BY <1>1, <1>2, <1>3, <1>5, <2>1, <2>2, <3>1, HalfAssumption
  <2>. QED
    BY <2>3, <2>4
<1>. QED
  BY <1>1, <1>2, <1>5, <1>6

-------------------------------------------------------------------------------
(* Well-formed creators. *)

\* What holds of the superevents of a creator one by one: the conjuncts of IInv
\* that speak of a single window.
GoodSuperevent(t, s) ==
  /\ s \in Superevent
  /\ s.t_0 = t
  /\ \E i \in DOMAIN s.g_events :
       /\ s.g_events[i] = s.preferred_event
       /\ \A j \in DOMAIN s.g_events : s.g_events[j].snr <= s.preferred_event.snr
       /\ \A j \in 1 .. i - 1 : s.g_events[j].snr < s.preferred_event.snr
  /\ s.t_start = t - Half /\ s.t_end = t + Half
  /\ \A i \in DOMAIN s.g_events :
       s.t_start <= s.g_events[i].end_time /\ s.g_events[i].end_time <= s.t_end


\* The well-formed values of a SupereventCreator: index and superevents agree,
\* ids identify and are below the sequence number, windows are separated, and
\* every superevent is a good one.
GoodCreator(c) ==
  /\ DOMAIN c = {"superevents", "times", "next_seq"}
  /\ DOMAIN c.superevents \subseteq Int
  /\ c.superevents \in [DOMAIN c.superevents -> Superevent]
  /\ c.times \in [DOMAIN c.times -> Nat]
  /\ c.next_seq \in Nat
  /\ DOMAIN c.times = DOMAIN c.superevents
  /\ \A t \in DOMAIN c.superevents :
       c.superevents[t].id = c.times[t] /\ GoodSuperevent(t, c.superevents[t])
  /\ \A t \in DOMAIN c.times : c.times[t] < c.next_seq
  /\ \A t, u \in DOMAIN c.times : c.times[t] = c.times[u] => t = u
  /\ \A t, u \in DOMAIN c.superevents : t < u => u - t > Half

-------------------------------------------------------------------------------
\* A freshly opened superevent is a good one.
LEMMA NewSupereventIsGood ==
  ASSUME NEW seq \in Nat, NEW e \in Event
  PROVE  /\ GoodSuperevent(e.end_time, NewSuperevent(seq, e))
         /\ NewSuperevent(seq, e).id = seq
<1> DEFINE s == NewSuperevent(seq, e)
<1>1. e.end_time \in Int /\ e.snr \in Int
  BY EventAssumption
<1>2. s \in Superevent
  BY <1>1, HalfAssumption DEF NewSuperevent, Superevent
<1>3. /\ DOMAIN s.g_events = {1} /\ s.g_events[1] = e
      /\ s.preferred_event = e /\ s.t_0 = e.end_time
      /\ s.t_start = e.end_time - Half /\ s.t_end = e.end_time + Half
      /\ s.id = seq
  BY DEF NewSuperevent
<1>. HIDE DEF s
<1>4. \A j \in 1 .. 1 - 1 : FALSE
  OBVIOUS
<1>5. GoodSuperevent(e.end_time, s)
  BY <1>1, <1>2, <1>3, <1>4, HalfAssumption DEF GoodSuperevent
<1>. QED
  BY <1>3, <1>5 DEF s

\* A good superevent is still one after an event of its window joined it, keeps
\* its id, and has recorded the event.
LEMMA JoinKeepsGood ==
  ASSUME NEW t \in Int, NEW s, GoodSuperevent(t, s),
         NEW e \in Event, Distance(e.end_time, t) <= Half,
         NEW promoted \in BOOLEAN, promoted <=> e.snr > s.preferred_event.snr
  PROVE  LET r == Join(s, e, promoted)
         IN  /\ GoodSuperevent(t, r)
             /\ r.id = s.id
             /\ r.g_events = Append(s.g_events, e)
             /\ r.preferred_event = IF promoted THEN e ELSE s.preferred_event
<1> DEFINE r == Join(s, e, promoted)
           n == Len(s.g_events)
<1>1. e.end_time \in Int /\ e.snr \in Int
  BY EventAssumption
<1>2. /\ s \in Superevent /\ s.g_events \in Seq(Event) /\ s.preferred_event \in Event
      /\ s.t_start = t - Half /\ s.t_end = t + Half /\ s.t_0 = t
  BY DEF GoodSuperevent, Superevent
<1>3. s.preferred_event.snr \in Int
  BY <1>2, EventAssumption
<1>4. /\ n \in Nat /\ DOMAIN s.g_events = 1 .. n
      /\ \A i \in 1 .. n : s.g_events[i] \in Event
  BY <1>2
<1>5. \A i \in 1 .. n : s.g_events[i].snr \in Int /\ s.g_events[i].end_time \in Int
  BY <1>4, EventAssumption
<1>6. /\ Append(s.g_events, e) \in Seq(Event)
      /\ DOMAIN Append(s.g_events, e) = 1 .. n + 1
      /\ \A i \in 1 .. n : Append(s.g_events, e)[i] = s.g_events[i]
      /\ Append(s.g_events, e)[n + 1] = e
  BY <1>2, <1>4
<1>7. /\ r \in Superevent
      /\ r.id = s.id /\ r.t_0 = s.t_0 /\ r.t_start = s.t_start /\ r.t_end = s.t_end
      /\ r.g_events = Append(s.g_events, e)
      /\ r.preferred_event = IF promoted THEN e ELSE s.preferred_event
  BY <1>2, <1>6 DEF Join, Superevent
<1>. HIDE DEF r
<1>8. \A i \in DOMAIN r.g_events :
        r.t_start <= r.g_events[i].end_time /\ r.g_events[i].end_time <= r.t_end
  <2>1. t - Half <= e.end_time /\ e.end_time <= t + Half
    BY <1>1, HalfAssumption DEF Distance
  <2>2. \A i \in 1 .. n : t - Half <= s.g_events[i].end_time
                          /\ s.g_events[i].end_time <= t + Half
    BY <1>2, <1>4 DEF GoodSuperevent
  <2>3. \A i \in 1 .. n + 1 : i \in 1 .. n \/ i = n + 1
    BY <1>4
  <2>. QED
    BY <1>2, <1>6, <1>7, <2>1, <2>2, <2>3
<1>9. \E i \in DOMAIN r.g_events :
        /\ r.g_events[i] = r.preferred_event
        /\ \A j \in DOMAIN r.g_events : r.g_events[j].snr <= r.preferred_event.snr
        /\ \A j \in 1 .. i - 1 : r.g_events[j].snr < r.preferred_event.snr
  <2>1. PICK i \in 1 .. n :
          /\ s.g_events[i] = s.preferred_event
          /\ \A j \in 1 .. n : s.g_events[j].snr <= s.preferred_event.snr
          /\ \A j \in 1 .. i - 1 : s.g_events[j].snr < s.preferred_event.snr
    BY <1>4 DEF GoodSuperevent
  <2>2. CASE promoted
    <3>1. r.preferred_event = e /\ e.snr > s.preferred_event.snr
      BY <1>7, <2>2
    <3>2. \A j \in 1 .. n : r.g_events[j].snr < e.snr
      BY <1>1, <1>3, <1>5, <1>6, <1>7, <2>1, <3>1
    <3>3. \A j \in 1 .. n + 1 : r.g_events[j].snr <= e.snr
      <4>1. \A j \in 1 .. n + 1 : j \in 1 .. n \/ j = n + 1
        BY <1>4
      <4>2. r.g_events[n + 1].snr = e.snr
        BY <1>6, <1>7
      <4>3. \A j \in 1 .. n : r.g_events[j].snr \in Int
        BY <1>5, <1>6, <1>7
      <4>. QED
        BY <1>1, <3>2, <4>1, <4>2, <4>3
    <3>4. (n + 1) - 1 = n /\ n + 1 \in 1 .. n + 1
      BY <1>4
    <3>. QED
      BY <1>6, <1>7, <3>1, <3>2, <3>3, <3>4
  <2>3. CASE ~ promoted
    <3>1. r.preferred_event = s.preferred_event /\ e.snr <= s.preferred_event.snr
      BY <1>1, <1>3, <1>7, <2>3
    <3>2. \A j \in 1 .. n + 1 : r.g_events[j].snr <= s.preferred_event.snr
      <4>1. \A j \in 1 .. n + 1 : j \in 1 .. n \/ j = n + 1
        BY <1>4
      <4>. QED
        BY <1>6, <1>7, <2>1, <3>1, <4>1
    <3>3. \A j \in 1 .. i - 1 : j \in 1 .. n
      BY <1>4
    <3>4. i \in 1 .. n + 1
      BY <1>4
    <3>. QED
      BY <1>6, <1>7, <2>1, <3>1, <3>2, <3>3, <3>4
  <2>. QED
    BY <2>2, <2>3
<1>10. r.t_start = t - Half /\ r.t_end = t + Half /\ r.t_0 = t
  BY <1>2, <1>7
<1>11. GoodSuperevent(t, r)
  BY <1>7, <1>8, <1>9, <1>10 DEF GoodSuperevent
<1>. QED
  BY <1>7, <1>11 DEF r

\* A sky map changes nothing clustering depends on.
LEMMA SkymapKeepsGood ==
  ASSUME NEW t, NEW s, GoodSuperevent(t, s), NEW fits \in Event
  PROVE  LET r == [s EXCEPT !.skymap = fits]
         IN  /\ GoodSuperevent(t, r)
             /\ r.id = s.id /\ r.g_events = s.g_events
             /\ r.preferred_event = s.preferred_event
<1> DEFINE r == [s EXCEPT !.skymap = fits]
<1>1. s \in Superevent
  BY DEF GoodSuperevent
<1>2. /\ r \in Superevent /\ r.id = s.id /\ r.t_0 = s.t_0
      /\ r.t_start = s.t_start /\ r.t_end = s.t_end
      /\ r.g_events = s.g_events /\ r.preferred_event = s.preferred_event
  BY <1>1 DEF Superevent
<1>. HIDE DEF r
<1>3. GoodSuperevent(t, r)
  BY <1>2 DEF GoodSuperevent
<1>. QED
  BY <1>2, <1>3 DEF r

-------------------------------------------------------------------------------
\* SupereventCreator::new is well formed.
LEMMA EmptyIsGood == GoodCreator(EmptyCreator)
BY DEF EmptyCreator, GoodCreator

\* What process does to the maps when the event opens a window.
LEMMA OpenStep ==
  ASSUME NEW c, GoodCreator(c), NEW e \in Event, Opens(c, e)
  PROVE  LET D == DOMAIN c.superevents
             g == e.end_time
             d == Process(c, e)
         IN  /\ DOMAIN d = {"superevents", "times", "next_seq"}
             /\ d.superevents = Insert(c.superevents, g, NewSuperevent(c.next_seq, e))
             /\ d.times = Insert(c.times, g, c.next_seq)
             /\ d.next_seq = c.next_seq + 1
             /\ g \in Int /\ g \notin D
             /\ \A t \in D : Distance(g, t) > Half
<1> DEFINE D == DOMAIN c.superevents
           g == e.end_time
<1>1. g \in Int
  BY EventAssumption
<1>2. Process(c, e) = Open(c, e)
  BY DEF Process
<1>3. D \subseteq Int /\ DOMAIN c.times = D
  BY DEF GoodCreator
<1>4. \A t \in D : Distance(g, t) > Half
  BY <1>1, <1>3, NoneMeansNoWindow DEF Opens
<1>5. g \notin D
  <2>1. ~ (Distance(g, g) > Half)
    BY <1>1, HalfAssumption DEF Distance
  <2>. QED
    BY <1>4, <2>1
<1>. QED
  BY <1>1, <1>2, <1>4, <1>5 DEF Open

\* What process does to the maps when the event joins a superevent.
LEMMA JoinStep ==
  ASSUME NEW c, GoodCreator(c), NEW e \in Event, ~ Opens(c, e)
  PROVE  LET D == DOMAIN c.superevents
             h == HostT0(c, e)
             d == Process(c, e)
         IN  /\ DOMAIN d = {"superevents", "times", "next_seq"}
             /\ d.superevents =
                  [c.superevents EXCEPT ![h] = Join(c.superevents[h], e, Promotes(c, e))]
             /\ d.times = c.times
             /\ d.next_seq = c.next_seq
             /\ h \in D /\ h \in Int
             /\ Distance(e.end_time, h) <= Half
             /\ \A u \in D : Distance(e.end_time, h) <= Distance(e.end_time, u)
             /\ Promotes(c, e) \in BOOLEAN
             /\ Promotes(c, e) <=> e.snr > c.superevents[h].preferred_event.snr
<1> DEFINE D == DOMAIN c.superevents
           h == HostT0(c, e)
<1>1. e.end_time \in Int
  BY EventAssumption
<1>2. Process(c, e) = [c EXCEPT !.superevents[h] = Join(@, e, Promotes(c, e))]
  BY DEF Process
<1>3. /\ D \subseteq Int /\ DOMAIN c.times = D
      /\ DOMAIN c = {"superevents", "times", "next_seq"}
  BY DEF GoodCreator
<1>4. /\ h \in D
      /\ Distance(e.end_time, h) <= Half
      /\ \A u \in D : Distance(e.end_time, h) <= Distance(e.end_time, u)
  BY <1>1, <1>3, ClosestIsClosest DEF Opens, HostT0
<1>5. /\ Promotes(c, e) \in BOOLEAN
      /\ Promotes(c, e) <=> e.snr > c.superevents[h].preferred_event.snr
  BY DEF Promotes
<1>. QED
  BY <1>2, <1>3, <1>4, <1>5

\* What process makes of the superevents: one of them, the one the update is
\* about, is new or has recorded the event; the others are as they were.
LEMMA ProcessStep ==
  ASSUME NEW c, GoodCreator(c), NEW e \in Event
  PROVE  LET D == DOMAIN c.superevents
             d == Process(c, e)
             u == Update(c, e)
         IN  \E h \in DOMAIN d.superevents :
               /\ DOMAIN d.superevents = D \cup {h} /\ d.times[h] = u.id
               /\ \A t \in D \ {h} : /\ d.superevents[t] = c.superevents[t]
                                    /\ d.times[t] = c.times[t]
               /\ u.event = e
               /\ h \in D =>
                    LET s == c.superevents[h]
                        r == d.superevents[h]
                    IN  /\ d.times[h] = c.times[h] /\ r.skymap = s.skymap
                        /\ Range(r.g_events) = Range(s.g_events) \cup {e}
                        /\ \/ u.action = "preferred_updated" /\ r.preferred_event = e
                           \/ u.action = "skipped" /\ r.preferred_event = s.preferred_event
               /\ h \notin D =>
                    LET r == d.superevents[h]
                    IN  /\ u.id = c.next_seq /\ r.skymap = NoSkymap
                        /\ Range(r.g_events) = {e}
                        /\ u.action = "created" /\ r.preferred_event = e
<1> DEFINE D == DOMAIN c.superevents
           d == Process(c, e)
           u == Update(c, e)
<1>1. CASE Opens(c, e)
  <2> DEFINE h == e.end_time
             r == NewSuperevent(c.next_seq, e)
  <2>1. /\ d.superevents = Insert(c.superevents, h, r)
        /\ d.times = Insert(c.times, h, c.next_seq)
        /\ h \notin D /\ DOMAIN c.times = D
    BY <1>1, OpenStep DEF GoodCreator
  <2>2. u = [action |-> "created", id |-> c.next_seq, event |-> e]
    BY <1>1 DEF Update
  <2>3. r.skymap = NoSkymap /\ r.preferred_event = e /\ Range(r.g_events) = {e}
    BY DEF NewSuperevent, Range
  <2>. HIDE DEF d, u, r
  <2>4. /\ DOMAIN d.superevents = D \cup {h} /\ d.superevents[h] = r
        /\ d.times[h] = c.next_seq
        /\ \A t \in D \ {h} : d.superevents[t] = c.superevents[t] /\ d.times[t] = c.times[t]
    BY <2>1 DEF Insert
  <2>. QED
    BY <2>1, <2>2, <2>3, <2>4 DEF d, u
<1>2. CASE ~ Opens(c, e)
  <2> DEFINE h == HostT0(c, e)
             s == c.superevents[h]
             r == Join(s, e, Promotes(c, e))
  <2>1. /\ d.superevents = [c.superevents EXCEPT ![h] = r]
        /\ d.times = c.times
        /\ h \in D
        /\ Promotes(c, e) \in BOOLEAN
    BY <1>2, JoinStep
  <2>2. /\ s \in Superevent /\ s.g_events \in Seq(Event) /\ s.id = c.times[h]
    BY <2>1 DEF GoodCreator, Superevent
  <2>3. u = [ action |-> IF Promotes(c, e) THEN "preferred_updated" ELSE "skipped",
              id |-> s.id, event |-> e ]
    BY <1>2 DEF Update
  <2>4. /\ r.g_events = Append(s.g_events, e) /\ r.skymap = s.skymap
        /\ r.preferred_event = IF Promotes(c, e) THEN e ELSE s.preferred_event
    BY <2>2 DEF Join, Superevent
  <2>5. Range(r.g_events) = Range(s.g_events) \cup {e}
    BY <2>2, <2>4, RangeOfAppend
  <2>. HIDE DEF d, u, r
  <2>6. /\ DOMAIN d.superevents = D /\ d.superevents[h] = r
        /\ \A t \in D \ {h} : d.superevents[t] = c.superevents[t] /\ d.times[t] = c.times[t]
    BY <2>1
  <2>7. \/ u.action = "preferred_updated" /\ r.preferred_event = e
        \/ u.action = "skipped" /\ r.preferred_event = s.preferred_event
    BY <2>1, <2>3, <2>4
  <2>8. u.id = d.times[h] /\ d.times[h] = c.times[h] /\ u.event = e /\ D \cup {h} = D
    BY <2>1, <2>2, <2>3
  <2>. QED
    BY <2>1, <2>4, <2>5, <2>6, <2>7, <2>8 DEF d, u
<1>. QED
  BY <1>1, <1>2

\* process keeps a creator well formed.
LEMMA ProcessKeepsGood ==
  ASSUME NEW c, GoodCreator(c), NEW e \in Event
  PROVE  GoodCreator(Process(c, e))
<1> DEFINE D == DOMAIN c.superevents
           d == Process(c, e)
<1>1. /\ D \subseteq Int
      /\ c.superevents \in [D -> Superevent]
      /\ c.times \in [D -> Nat]
      /\ c.next_seq \in Nat
      /\ DOMAIN c.times = D
      /\ \A t \in D : /\ c.superevents[t].id = c.times[t]
                      /\ GoodSuperevent(t, c.superevents[t])
                      /\ c.times[t] < c.next_seq
      /\ \A t, u \in D : c.times[t] = c.times[u] => t = u
      /\ \A t, u \in D : t < u => u - t > Half
  BY DEF GoodCreator
<1>2. CASE Opens(c, e)
  <2> DEFINE g == e.end_time
             new == NewSuperevent(c.next_seq, e)
             D2 == DOMAIN d.superevents
  <2>1. /\ DOMAIN d = {"superevents", "times", "next_seq"}
        /\ d.superevents = Insert(c.superevents, g, new)
        /\ d.times = Insert(c.times, g, c.next_seq)
        /\ d.next_seq = c.next_seq + 1
        /\ g \in Int /\ g \notin D
        /\ \A t \in D : Distance(g, t) > Half
    BY <1>2, OpenStep
  <2>2. GoodSuperevent(g, new) /\ new.id = c.next_seq /\ new \in Superevent
    BY <1>1, NewSupereventIsGood DEF GoodSuperevent
  <2>. HIDE DEF d
  <2>3. /\ D2 = D \cup {g} /\ DOMAIN d.times = D2
        /\ d.superevents[g] = new /\ d.times[g] = c.next_seq
        /\ \A t \in D : d.superevents[t] = c.superevents[t] /\ d.times[t] = c.times[t]
    BY <1>1, <2>1 DEF Insert
  <2>. HIDE DEF new
  <2>4. /\ d.superevents \in [D2 -> Superevent]
        /\ d.times \in [D2 -> Nat]
        /\ D2 \subseteq Int
    BY <1>1, <2>1, <2>2, <2>3 DEF Insert
  <2>5. \A t \in D2 : /\ d.superevents[t].id = d.times[t]
                      /\ GoodSuperevent(t, d.superevents[t])
                      /\ d.times[t] < d.next_seq
    BY <1>1, <2>1, <2>2, <2>3
  <2>6. \A t, u \in D2 : d.times[t] = d.times[u] => t = u
    BY <1>1, <2>1, <2>3
  <2>7. \A t, u \in D2 : t < u => u - t > Half
    BY <1>1, <2>1, <2>3 DEF Distance
  <2>8. d.next_seq \in Nat
    BY <1>1, <2>1
  <2>9. GoodCreator(d)
    BY <2>1, <2>3, <2>4, <2>5, <2>6, <2>7, <2>8 DEF GoodCreator
  <2>. QED
    BY <2>9 DEF d
<1>3. CASE ~ Opens(c, e)
  <2> DEFINE h == HostT0(c, e)
             s == c.superevents[h]
             r == Join(s, e, Promotes(c, e))
  <2>1. /\ DOMAIN d = {"superevents", "times", "next_seq"}
        /\ d.superevents = [c.superevents EXCEPT ![h] = r]
        /\ d.times = c.times
        /\ d.next_seq = c.next_seq
        /\ h \in D /\ h \in Int
        /\ Distance(e.end_time, h) <= Half
        /\ Promotes(c, e) \in BOOLEAN
        /\ Promotes(c, e) <=> e.snr > s.preferred_event.snr
    BY <1>3, JoinStep
  <2>2. GoodSuperevent(h, s)
    BY <1>1, <2>1
  <2>3. GoodSuperevent(h, r) /\ r.id = s.id
    BY <2>1, <2>2, JoinKeepsGood
  <2>4. r \in Superevent
    BY <2>3 DEF GoodSuperevent
  <2>. HIDE DEF r, d
  <2>5. /\ DOMAIN d.superevents = D
        /\ d.superevents \in [D -> Superevent]
        /\ \A t \in D : /\ d.superevents[t].id = c.times[t]
                        /\ GoodSuperevent(t, d.superevents[t])
    BY <1>1, <2>1, <2>3, <2>4
  <2>6. GoodCreator(d)
    BY <1>1, <2>1, <2>5 DEF GoodCreator
  <2>. QED
    BY <2>6 DEF d
<1>. QED
  BY <1>2, <1>3

\* What attach_skymap does to the maps: one superevent gets the sky map if the
\* index knows the id, and none otherwise.
LEMMA AttachForm ==
  ASSUME NEW c, GoodCreator(c), NEW id, NEW fits \in Event
  PROVE  LET d == AttachSkymap(c, id, fits)
         IN  /\ DOMAIN d = {"superevents", "times", "next_seq"}
             /\ d.times = c.times /\ d.next_seq = c.next_seq
             /\ d.superevents =
                  [t \in DOMAIN c.superevents |->
                     IF c.times[t] = id THEN [c.superevents[t] EXCEPT !.skymap = fits]
                     ELSE c.superevents[t]]
<1> DEFINE D == DOMAIN c.superevents
           hit(t) == t \in KeysOf(c, id) /\ \A u \in KeysOf(c, id) : t <= u
           with(t) == [c.superevents[t] EXCEPT !.skymap = fits]
<1>1. /\ DOMAIN c = {"superevents", "times", "next_seq"}
      /\ DOMAIN c.times = D /\ D \subseteq Int
      /\ \A t, u \in D : c.times[t] = c.times[u] => t = u
  BY DEF GoodCreator
<1>2. AttachSkymap(c, id, fits) =
        [c EXCEPT !.superevents = [t \in D |-> IF hit(t) THEN with(t) ELSE c.superevents[t]]]
  BY DEF AttachSkymap
<1>3. \A t \in D : hit(t) <=> c.times[t] = id
  BY <1>1 DEF KeysOf
<1>. HIDE DEF hit, with
<1>4. [t \in D |-> IF hit(t) THEN with(t) ELSE c.superevents[t]]
      = [t \in D |-> IF c.times[t] = id THEN with(t) ELSE c.superevents[t]]
  BY <1>3
<1>. QED
  BY <1>1, <1>2, <1>4 DEF with

\* The same, superevent by superevent.
LEMMA AttachStep ==
  ASSUME NEW c, GoodCreator(c), NEW id, NEW fits \in Event
  PROVE  LET D == DOMAIN c.superevents
             d == AttachSkymap(c, id, fits)
         IN  /\ d.times = c.times /\ DOMAIN d.superevents = D
             /\ \A t \in D :
                  LET s == c.superevents[t]
                      r == d.superevents[t]
                  IN  /\ r.id = s.id /\ r.t_0 = s.t_0 /\ r.g_events = s.g_events
                      /\ r.preferred_event = s.preferred_event
                      /\ c.times[t] = id => r.skymap = fits
                      /\ c.times[t] # id => r = s
<1> DEFINE D == DOMAIN c.superevents
           d == AttachSkymap(c, id, fits)
           with(t) == [c.superevents[t] EXCEPT !.skymap = fits]
<1>1. /\ d.times = c.times
      /\ d.superevents = [t \in D |-> IF c.times[t] = id THEN with(t) ELSE c.superevents[t]]
  BY AttachForm
<1>2. \A t \in D :
        LET s == c.superevents[t]
        IN  /\ with(t).id = s.id /\ with(t).t_0 = s.t_0 /\ with(t).g_events = s.g_events
            /\ with(t).preferred_event = s.preferred_event /\ with(t).skymap = fits
  <2>1. \A t \in D : c.superevents[t] \in Superevent
    BY DEF GoodCreator
  <2>. QED
    BY <2>1 DEF with, Superevent
<1>. HIDE DEF d, with
<1>3. /\ DOMAIN d.superevents = D
      /\ \A t \in D : /\ c.times[t] = id => d.superevents[t] = with(t)
                      /\ c.times[t] # id => d.superevents[t] = c.superevents[t]
  BY <1>1
<1>. QED
  BY <1>1, <1>2, <1>3 DEF d

\* attach_skymap keeps a creator well formed, for a known id or an unknown one.
LEMMA AttachKeepsGood ==
  ASSUME NEW c, GoodCreator(c), NEW id, NEW fits \in Event
  PROVE  GoodCreator(AttachSkymap(c, id, fits))
<1> DEFINE D == DOMAIN c.superevents
           with(t) == [c.superevents[t] EXCEPT !.skymap = fits]
           d == AttachSkymap(c, id, fits)
<1>1. \A t \in D : /\ c.superevents[t].id = c.times[t]
                   /\ GoodSuperevent(t, c.superevents[t])
  BY DEF GoodCreator
<1>2. /\ DOMAIN d = {"superevents", "times", "next_seq"}
      /\ d.times = c.times /\ d.next_seq = c.next_seq
      /\ d.superevents =
           [t \in D |-> IF c.times[t] = id THEN with(t) ELSE c.superevents[t]]
  BY AttachForm
<1>3. \A t \in D : GoodSuperevent(t, with(t)) /\ with(t).id = c.superevents[t].id
  BY <1>1, SkymapKeepsGood
<1>. HIDE DEF with, d
<1>4. /\ DOMAIN d.superevents = D
      /\ \A t \in D : /\ d.superevents[t].id = c.times[t]
                      /\ GoodSuperevent(t, d.superevents[t])
  BY <1>1, <1>2, <1>3
<1>5. d.superevents \in [D -> Superevent]
  BY <1>2, <1>4 DEF GoodSuperevent
<1>6. GoodCreator(d)
  BY <1>2, <1>4, <1>5 DEF GoodCreator
<1>. QED
  BY <1>6 DEF d

\* What the store keeps of a well-formed creator: each superevent under its id.
LEMMA SaveKeepsAll ==
  ASSUME NEW c, GoodCreator(c)
  PROVE  /\ DOMAIN SaveToRedis(c) = {c.times[t] : t \in DOMAIN c.superevents}
         /\ \A t \in DOMAIN c.superevents : SaveToRedis(c)[c.times[t]] = c.superevents[t]
<1> DEFINE T == DOMAIN c.superevents
<1>1. /\ \A t \in T : c.times[t] \in Nat /\ t \in Int /\ c.superevents[t].id = c.times[t]
      /\ \A t, u \in T : c.times[t] = c.times[u] => t = u
  BY DEF GoodCreator
<1>2. DOMAIN SaveToRedis(c) = {c.times[t] : t \in T}
  BY <1>1 DEF SaveToRedis
<1>3. ASSUME NEW t \in T
      PROVE  SaveToRedis(c)[c.times[t]] = c.superevents[t]
  <2> DEFINE holders == {u \in T : c.superevents[u].id = c.times[t]}
  <2>1. holders = {t}
    BY <1>1
  <2>2. (CHOOSE u \in holders : \A v \in holders : v <= u) = t
    BY <1>1, <2>1
  <2>3. c.times[t] \in {c.superevents[u].id : u \in T}
    BY <1>1
  <2>. QED
    BY <2>2, <2>3 DEF SaveToRedis
<1>. QED
  BY <1>2, <1>3

\* What is stored under an id is the superevent that was open with it.
LEMMA SavedAreOpen ==
  ASSUME NEW c, GoodCreator(c), NEW id \in DOMAIN SaveToRedis(c)
  PROVE  \E t \in DOMAIN c.superevents :
           /\ SaveToRedis(c)[id] = c.superevents[t] /\ c.times[t] = id
           /\ c.superevents[t].id = id /\ c.superevents[t].t_0 = t
<1>1. /\ DOMAIN SaveToRedis(c) = {c.times[t] : t \in DOMAIN c.superevents}
      /\ \A t \in DOMAIN c.superevents : SaveToRedis(c)[c.times[t]] = c.superevents[t]
  BY SaveKeepsAll
<1>2. PICK t \in DOMAIN c.superevents : id = c.times[t]
  BY <1>1
<1>3. c.superevents[t].id = c.times[t] /\ c.superevents[t].t_0 = t
  BY DEF GoodCreator, GoodSuperevent
<1>. QED
  BY <1>1, <1>2, <1>3

\* next_seq_from_ids answers a number above every stored id.
LEMMA NextSeqIsFresh ==
  ASSUME NEW ids \in SUBSET Nat, NEW b \in Nat, \A n \in ids : n < b
  PROVE  NextSeqFromIds(ids) \in Nat /\ \A n \in ids : n < NextSeqFromIds(ids)
<1>1. CASE ids = {}
  BY <1>1 DEF NextSeqFromIds
<1>2. CASE ids # {}
  <2>1. \E g \in ids : \A n \in ids : n <= g
    <3>1. ids \in SUBSET Int /\ b \in Int /\ \A n \in ids : n <= b
      OBVIOUS
    <3>. QED
      BY <1>2, <3>1, GreatestBelow
  <2> DEFINE top == CHOOSE n \in ids : \A m \in ids : m <= n
  <2>2. top \in ids /\ \A m \in ids : m <= top
    BY <2>1
  <2>3. NextSeqFromIds(ids) = 1 + top
    BY <1>2 DEF NextSeqFromIds
  <2>. HIDE DEF top
  <2>4. top \in Nat
    BY <2>2
  <2>. QED
    BY <2>2, <2>3, <2>4
<1>. QED
  BY <1>1, <1>2

\* What the store keeps of a well-formed creator is enough to rebuild it: the
\* same windows under the same keys and ids, and a sequence number above every
\* id.
LEMMA LoadAfterSave ==
  ASSUME NEW c, GoodCreator(c)
  PROVE  LET d == LoadFromRedis(SaveToRedis(c))
         IN  /\ GoodCreator(d)
             /\ d.superevents = c.superevents
             /\ d.times = c.times
<1> DEFINE T == DOMAIN c.superevents
           stored == SaveToRedis(c)
           d == LoadFromRedis(stored)
           keys == {stored[id].t_0 : id \in DOMAIN stored}
           at(t) == CHOOSE id \in DOMAIN stored :
                      /\ stored[id].t_0 = t
                      /\ \A other \in DOMAIN stored : stored[other].t_0 = t => other <= id
<1>1. /\ c.superevents \in [T -> Superevent] /\ c.times \in [T -> Nat]
      /\ c.next_seq \in Nat
      /\ \A t \in T : /\ c.times[t] \in Nat /\ t \in Int
                      /\ c.superevents[t].t_0 = t
                      /\ c.times[t] < c.next_seq
      /\ \A t, u \in T : c.times[t] = c.times[u] => t = u
  BY DEF GoodCreator, GoodSuperevent
<1>2. /\ DOMAIN stored = {c.times[t] : t \in T}
      /\ \A t \in T : stored[c.times[t]] = c.superevents[t]
  BY SaveKeepsAll
<1>3. d = FromPersisted(stored, NextSeqFromIds(DOMAIN stored))
  BY DEF LoadFromRedis
<1>. HIDE DEF stored, d
<1>4. keys = T
  BY <1>1, <1>2
<1>5. ASSUME NEW t \in T
      PROVE  at(t) = c.times[t]
  <2>1. c.times[t] \in DOMAIN stored /\ stored[c.times[t]].t_0 = t
    BY <1>1, <1>2
  <2>2. \A id \in DOMAIN stored : stored[id].t_0 = t => id = c.times[t]
    BY <1>1, <1>2
  <2>. QED
    BY <1>1, <2>1, <2>2
<1>6. d = [ superevents |-> [t \in keys |-> stored[at(t)]],
            times       |-> [t \in keys |-> at(t)],
            next_seq    |-> NextSeqFromIds(DOMAIN stored) ]
  BY <1>3 DEF FromPersisted
<1>. HIDE DEF keys, at
<1>7. d.superevents = c.superevents
  <2>1. \A t \in T : stored[at(t)] = c.superevents[t]
    BY <1>2, <1>5
  <2>2. d.superevents = [t \in T |-> stored[at(t)]]
    BY <1>4, <1>6
  <2>. QED
    BY <1>1, <2>1, <2>2
<1>8. d.times = c.times
  <2>1. d.times = [t \in T |-> at(t)]
    BY <1>4, <1>6
  <2>. QED
    BY <1>1, <1>5, <2>1
<1>9. /\ NextSeqFromIds(DOMAIN stored) \in Nat
      /\ \A n \in DOMAIN stored : n < NextSeqFromIds(DOMAIN stored)
  <2>1. DOMAIN stored \in SUBSET Nat /\ \A n \in DOMAIN stored : n < c.next_seq
    BY <1>1, <1>2
  <2>. QED
    BY <1>1, <2>1, NextSeqIsFresh
<1>10. d.next_seq = NextSeqFromIds(DOMAIN stored)
  BY <1>6
<1>11. \A t \in T : d.times[t] < d.next_seq
  BY <1>2, <1>8, <1>9, <1>10
<1>12. GoodCreator(d)
  BY <1>1, <1>6, <1>7, <1>8, <1>9, <1>10, <1>11 DEF GoodCreator
<1>. QED
  BY <1>7, <1>8, <1>12 DEF d, stored

===============================================================================
