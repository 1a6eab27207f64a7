---------------------------- MODULE MCGcnConsumer ----------------------------
(* In each behaviour the consumer reads one topic, or two short ones.      *)
EXTENDS GcnConsumer, TLC

At(second) == [year |-> 2026, month |-> 1, day |-> 15, sod |-> second]

Flt   == "gcn.classic.voevent.FERMI_GBM_FLT_POS"
Gnd   == "gcn.classic.voevent.FERMI_GBM_GND_POS"
Boom  == "gcn.notices.boom.alert"
Chime == "gcn.notices.chime.frb"
Tracks == "gcn.notices.icecube.gold_bronze_track_alerts"
Lvk   == "gcn.notices.icecube.lvk_nu_track_search"

Burst(second, fields) == ("TrigID" :> "bn260115" @@ "ISOTime" :> At(second)) @@ fields

\* one trigger, localized only by its second notice, then with another radius
FltFeed ==
    << Burst(100, <<>>),
       Burst(100, "Position2D.C1" :> 10 @@ "Position2D.C2" :> 20),
       Burst(101, "Position2D.C1" :> 12 @@ "Position2D.C2" :> 20 @@ "Position2D.Error2Radius" :> 3000) >>

\* a burst whose radius is 0 until its second notice
GndFeed ==
    << Burst(100, "Position2D.C1" :> 10 @@ "Position2D.C2" :> 20 @@ "Position2D.Error2Radius" :> 0),
       Burst(101, "Position2D.C1" :> 11 @@ "Position2D.C2" :> 20 @@ "Position2D.Error2Radius" :> 1000) >>

Target(name, ra) == [event_name |-> name, ra |-> ra, dec |-> 5, classification_scores |-> [kn |-> 7, sn |-> 2]]

\* two targets, one of them again with the same time, and an empty record
BoomFeed ==
    << [alert_datetime |-> At(50), targets |-> <<Target("ZTF1", 1), Target("ZTF2", 2)>>,
        photometry |-> { [event_name |-> "ZTF1", observation_start |-> 40, limiting_mag |-> 20],
                         [event_name |-> "ZTF1", observation_start |-> 45, mag |-> 19] }],
       [no_value |-> TRUE],
       [alert_datetime |-> At(50), targets |-> <<Target("ZTF1", 3)>>] >>

\* a notice without its key, a burst, and the same burst with a list of radii
FrbFeed ==
    << [trigger_time |-> At(60)],
       [id |-> "frb1", trigger_time |-> At(60), ra |-> 7, dec |-> 8],
       [id |-> "frb1", trigger_time |-> At(60), ra |-> 7, dec |-> 9, ra_dec_error |-> {0, 20, 30}] >>

\* a track and its revision
TrackFeed ==
    << [id |-> <<"138590_1", "x">>, trigger_time |-> At(70), ra |-> 7, dec |-> 8, ra_dec_error |-> 0],
       [id |-> <<"138590_1">>, trigger_time |-> At(70), ra |-> 7, dec |-> 7, ra_dec_error |-> 300, p_astro |-> 1] >>

\* text that is no JSON, and a search
LvkFeed ==
    << [malformed |-> TRUE],
       [ref_ID |-> "S1", alert_datetime |-> At(200), trigger_time |-> At(101), n_events_coincident |-> 1] >>

\* (the concatenation has TLC compute the sequence once)
Log(topic, payloads) ==
    topic :> (<<>> \o [i \in DOMAIN payloads |->
                 IF "no_value" \in DOMAIN payloads[i] THEN {} ELSE DecodeAlert(topic, payloads[i])])

MCFeed == Log(Flt, FltFeed) @@ Log(Gnd, GndFeed) @@ Log(Boom, BoomFeed) @@ Log(Chime, FrbFeed) @@ Log(Tracks, TrackFeed)
            @@ Log(Lvk, LvkFeed)

MCTopic == {Flt, Gnd, Boom, Chime, Tracks, Lvk}

MCSubscriptions == {{Flt}, {Gnd}, {Boom}, {Chime}, {Tracks, Lvk}}

Request(endpoint, body) == [endpoint |-> endpoint, body |-> body, superevent |-> "S1"]

TheOne(set) == CHOOSE x \in set : TRUE

\* what the topic tells, from another hand: the ground position of the burst,
\* the first transient, the burst, the track and the search again
MCPosts ==
    Flt :> { Request("grb-triggers",
                     [format |-> "fermi_gbm_json", instrument |-> "Fermi-GBM-FLT",
                      payload |-> [trigger_id |-> "bn260115", ra |-> 11, dec |-> 20, error_radius |-> 1000]]) }
    @@ Gnd :> { Request("grb-triggers",
                        [format |-> "fermi_gbm_voevent", topic |-> Gnd, payload |-> GndFeed[1]]) }
    @@ Boom :> { Request("boom-alerts", ParseBoomAlert(BoomFeed[1])[1]) }
    @@ Chime :> { Request("frb-alerts", TheOne(ParseFrbAlert(FrbFeed[2], "CHIME-FRB"))) }
    @@ Tracks :> { Request("neutrino-alerts", TheOne(ParseIceCube(TrackFeed[1]))) }
    @@ Lvk :> { Request("icecube-lvk-searches", TheOne(ParseLvkTrackSearch(LvkFeed[2]))) }

\* GPS time of the latest notice of the burst
BurstTime == 1452470519

ASSUME BurstTimeAssumption == BurstTime = Iso8601UtcToGps(At(101))

MCSuperevents ==
    { [id |-> "S1", t_0 |-> BurstTime, mapped |-> TRUE],
      [id |-> "S2", t_0 |-> BurstTime + 14, mapped |-> TRUE],
      [id |-> "S3", t_0 |-> BurstTime - 6, mapped |-> FALSE] }

\* MOCs of different collections do not meet, nor the keys of different topics.
ASSUME ApartAssumption == InstrumentsApart /\ TopicsApart
=============================================================================
