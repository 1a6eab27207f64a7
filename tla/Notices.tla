------------------------------ MODULE Notices ------------------------------
(***************************************************************************)
(* The notices of the General Coordinates Network and what boom-gw makes   *)
(* of them: decode_alert of gcn_consumer.rs, which chooses a parser by the *)
(* topic, and the parsers.                                                 *)
(*                                                                         *)
(* A payload is a function from the fields it has to their values.  A      *)
(* field that has another type than the parser wants, or a timestamp that  *)
(* does not split into numbers, is a field the payload lacks: every parser *)
(* treats them alike.  "malformed" stands for text that is neither UTF-8   *)
(* nor JSON.  An Option of the code is a set of at most one element.       *)
(* Angles are in thousandths of a degree.                                  *)
(***************************************************************************)
EXTENDS GpsTime

Opt(p, f) == IF f \in DOMAIN p THEN {p[f]} ELSE {}

\* Option::or
Else(a, b) == IF a # {} THEN a ELSE b

\* Option::unwrap_or
Or(a, default) == IF a = {} THEN default ELSE CHOOSE x \in a : TRUE

Positive(a) == {x \in a : x > 0}

TimeOf(p, f) == {Iso8601UtcToGps(t) : t \in Opt(p, f)}

Unknown == "unknown"

\* str::contains and str::ends_with, of the names of topics
HasPart(topic, part) ==
    \E i \in 0 .. Len(topic) - Len(part) : SubSeq(topic, i + 1, i + Len(part)) = part

HasEnd(topic, end) ==
    /\ Len(topic) >= Len(end)
    /\ SubSeq(topic, Len(topic) - Len(end) + 1, Len(topic)) = end

\* a position needs both coordinates
SkyPosition(p, err) == {[ra |-> ra, dec |-> dec, err |-> err] : ra \in Opt(p, "ra"), dec \in Opt(p, "dec")}

Trigger(id, instrument, time, position, error, significance, far) ==
    [id |-> id, instrument |-> instrument, time |-> time, position |-> position,
     error |-> error, significance |-> significance, far |-> far]

-----------------------------------------------------------------------------
(***************************************************************************)
(* gcn.rs: Fermi GBM.  Nothing is required of either form.                 *)
(***************************************************************************)
FermiDefaultErr == 5000

ParseFermiGbmJson(p, instrument) ==
    LET error == Else(Opt(p, "error_radius"), Opt(p, "errorRadius")) IN
    Trigger(Or(Else(Opt(p, "trigger_id"), Opt(p, "triggerID")), Unknown),
            instrument,
            FermiMetToGps(Or(Else(Opt(p, "trigger_time"), Opt(p, "triggerTime")), 0)),
            SkyPosition(p, Or(error, FermiDefaultErr)),
            error,
            Or(Else(Opt(p, "reliability"), Opt(p, "most_likely_prob")), 0),
            Else(Opt(p, "far"), Opt(p, "false_alarm_rate")))

\* a VOEvent is read line by line, well formed or not: no text fails
ParseFermiVoevent(p, instrument) ==
    LET error == Else(Opt(p, "Position2D.Error2Radius"), Opt(p, "Param.Error2Radius"))
        ra    == Else(Opt(p, "Position2D.C1"), Opt(p, "Param.RA"))
        dec   == Else(Opt(p, "Position2D.C2"), Opt(p, "Param.Dec")) IN
    Trigger(Or(Else(Opt(p, "TrigID"), Opt(p, "Trigger_Number")), Unknown),
            instrument,
            Or(TimeOf(p, "ISOTime"), 0),
            {[ra |-> r, dec |-> d, err |-> Or(error, FermiDefaultErr)] : r \in ra, d \in dec},
            error,
            Or(Opt(p, "Burst_Signif"), 0),
            {})

FermiInstrumentForTopic(topic) ==
    IF HasPart(topic, "FLT_POS") THEN "Fermi-GBM-FLT"
    ELSE IF HasPart(topic, "GND_POS") THEN "Fermi-GBM-GND"
    ELSE IF HasPart(topic, "FIN_POS") THEN "Fermi-GBM-FIN"
    ELSE IF HasPart(topic, "SUBTHRESH") THEN "Fermi-GBM-SUBTHRESH"
    ELSE "Fermi-GBM-VOEvent"

(***************************************************************************)
(* boom.rs: an envelope of optical transients, one per target.  The key of *)
(* a transient is put together from the envelope's time and the target.    *)
(***************************************************************************)
OpticalErr == 1

\* when the transient turned on: the first detection, the last upper limit before it
DetectionBracket(rows) ==
    LET detections == {r.observation_start : r \in {q \in rows : "mag" \in DOMAIN q}}
        limits     == {r.observation_start :
                          r \in {q \in rows : "mag" \notin DOMAIN q /\ "limiting_mag" \in DOMAIN q}}
        first      == IF detections = {} THEN {} ELSE {Min(detections)}
        before     == {t \in limits : \E f \in first : t < f}
    IN [first |-> first, lastNon |-> IF before = {} THEN {} ELSE {Max(before)}]

ParseBoomTarget(p, t) ==
    LET name   == Or(Opt(t, "event_name"), Unknown)
        scores == IF "classification_scores" \in DOMAIN t THEN Range(t.classification_scores) ELSE {}
        rows   == {r \in Or(Opt(p, "photometry"), {}) :
                      "event_name" \in DOMAIN r /\ r.event_name = name /\ "observation_start" \in DOMAIN r}
    IN [id |-> <<Opt(p, "alert_datetime"), name>>,
        time |-> Or(TimeOf(p, "alert_datetime"), 0),
        target |-> t,
        error |-> Else(Else(Opt(t, "ra_dec_error"), Opt(t, "uncertainty_deg")), {OpticalErr}),
        score |-> IF scores = {} THEN {} ELSE {Max(scores)},
        bracket |-> DetectionBracket(rows)]

ParseBoomAlert(p) ==
    LET targets == Or(Opt(p, "targets"), <<>>) IN [i \in DOMAIN targets |-> ParseBoomTarget(p, targets[i])]

\* BoomTransient::as_trigger: none for a target without a position
BoomTrigger(b) ==
    LET err == Or(b.error, OpticalErr) IN
    {Trigger(b.id, "BOOM", b.time, {pos}, {err}, Or(b.score, 0), {}) : pos \in SkyPosition(b.target, err)}

(***************************************************************************)
(* frb.rs, neutrino.rs, icecube_lvk.rs: a key and a time are required, and *)
(* the notice is refused without ({}).                                     *)
(***************************************************************************)
FrbDefaultErr == 50
NeutrinoDefaultErr == 500

\* the largest positive of the radii, of which there may be several
MajorAxis(p) ==
    LET radii == Positive(Or(Opt(p, "ra_dec_error"), {})) IN IF radii = {} THEN {} ELSE {Max(radii)}

ParseFrbAlert(p, instrument) ==
    {Trigger(id, instrument, time, SkyPosition(p, Or(MajorAxis(p), FrbDefaultErr)),
             MajorAxis(p), Or(Opt(p, "snr"), 0), {}) :
        id \in Opt(p, "id"), time \in TimeOf(p, "trigger_time")}

NeutrinoErr(p) == Positive(Opt(p, "ra_dec_error"))

ParseNeutrino(p, instrument, id, score) ==
    {Trigger(i, instrument, time, SkyPosition(p, Or(NeutrinoErr(p), NeutrinoDefaultErr)),
             NeutrinoErr(p), Or(score, 0), Opt(p, "far")) :
        i \in id, time \in TimeOf(p, "trigger_time")}

\* IceCube's ids and names are lists, of which the first is taken
FirstString(p, f) == {s[1] : s \in Opt(p, f) \ {<<>>}}

ParseIceCube(p) == ParseNeutrino(p, "IceCube", FirstString(p, "id"), Opt(p, "p_astro"))

ParseKm3net(p) == ParseNeutrino(p, "KM3NeT", FirstString(p, "id"), Opt(p, "p_value"))

\* the result of a search for neutrinos around a superevent, not a trigger
ParseLvkTrackSearch(p) ==
    {[superevent |-> id, alert_time |-> at, trigger_time |-> tt,
      observation |-> <<TimeOf(p, "observation_start"), TimeOf(p, "observation_stop")>>,
      coincident |-> Or(Opt(p, "n_events_coincident"), 0)] :
        id \in Opt(p, "ref_ID"), at \in TimeOf(p, "alert_datetime"), tt \in TimeOf(p, "trigger_time")}

-----------------------------------------------------------------------------
(***************************************************************************)
(* gcn_consumer.rs: what the handler is given, or {} if nothing decodes.   *)
(***************************************************************************)
FermiInstrumentForJsonTopic(topic) ==
    IF HasEnd(topic, ".flt_pos") THEN "Fermi-GBM-FLT"
    ELSE IF HasEnd(topic, ".gnd_pos") THEN "Fermi-GBM-GND"
    ELSE IF HasEnd(topic, ".fin_pos") THEN "Fermi-GBM-FIN"
    ELSE "Fermi-GBM"

Notice(kind, body) == [kind |-> kind, body |-> body]

IceCubeTopics == {"gcn.notices.icecube.gold_bronze_track_alerts", "gcn.notices.icecube.single_neutrino_alerts"}

\* topic.contains("classic.voevent") comes last but one, after the exact names
IsVoevent(topic) == HasPart(topic, "classic.voevent") /\ ~ HasPart(topic, "boom")

DecodeText(topic, p) ==
    IF HasPart(topic, "boom") THEN {Notice("boom", ParseBoomAlert(p))}
    ELSE CASE topic = "gcn.notices.chime.frb"  -> {Notice("frb", t) : t \in ParseFrbAlert(p, "CHIME-FRB")}
           [] topic = "gcn.notices.dsa110.frb" -> {Notice("frb", t) : t \in ParseFrbAlert(p, "DSA110-FRB")}
           [] topic \in IceCubeTopics          -> {Notice("neutrino", t) : t \in ParseIceCube(p)}
           [] topic = "gcn.notices.km3net.alert" -> {Notice("neutrino", t) : t \in ParseKm3net(p)}
           [] topic = "gcn.notices.icecube.lvk_nu_track_search" ->
                 {Notice("lvk", s) : s \in ParseLvkTrackSearch(p)}
           [] IsVoevent(topic) -> {Notice("grb", ParseFermiVoevent(p, FermiInstrumentForTopic(topic)))}
           [] OTHER -> {Notice("grb", ParseFermiGbmJson(p, FermiInstrumentForJsonTopic(topic)))}

\* every parser but that of VOEvents wants JSON
DecodeAlert(topic, p) ==
    IF "not_utf8" \in DOMAIN p \/ ("malformed" \in DOMAIN p /\ ~ IsVoevent(topic)) THEN {}
    ELSE DecodeText(topic, p)

(***************************************************************************)
(* api.rs: a GRB posted to gw-api is a trigger, or a raw notice to parse.  *)
(***************************************************************************)
GrbOfBody(b) ==
    CASE b.format = "parsed"            -> {b.trigger}
      [] b.format = "fermi_gbm_json"    ->
            {ParseFermiGbmJson(b.payload, Or(Opt(b, "instrument"), "Fermi-GBM"))}
      [] b.format = "fermi_gbm_voevent" ->
            {ParseFermiVoevent(b.payload, Or(Else(Opt(b, "instrument"), {FermiInstrumentForTopic(t) : t \in Opt(b, "topic")}),
                                             "Fermi-GBM-VOEvent"))}
      [] OTHER -> {}

-----------------------------------------------------------------------------
(***************************************************************************)
(* grb.rs: a trigger gets a canonical MOC if it has a position and the     *)
(* radius is usable.  A radius of the trigger that is 0 is not replaced by *)
(* the position's.                                                         *)
(***************************************************************************)
MocRadius(t) ==
    Positive(Else(t.error, {p.err : p \in t.position}))

HasCanonicalMoc(t) == t.position # {} /\ MocRadius(t) # {}
=============================================================================
