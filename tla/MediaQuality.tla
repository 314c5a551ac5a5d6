---------------------------- MODULE MediaQuality ----------------------------
(***************************************************************************)
(* What the quality analyzer of the AI node makes of a video file          *)
(* (app/analyzer/quality.py) under a quality profile                       *)
(* (app/analyzer/quality_profiles.py).                                     *)
(*                                                                         *)
(* A file here is what the analyzers before it found of it, MediaOf: the   *)
(* bit rate in kbit/s, audio the sequence of audio streams, and Unknown    *)
(* for a number or word nobody found.  Labels are written as compare.py's  *)
(* _key writes them.                                                       *)
(***************************************************************************)
EXTENDS MediaProbe

\* The value of the first rung n reaches, floor when it reaches none.
Rung(rungs, floor, n) ==
    LET met == {k \in DOMAIN rungs : n >= rungs[k][1]}
    IN IF met = {} THEN floor ELSE rungs[Min(met)][2]

----------------------------------------------------------------------------
(* Scores. *)

ResolutionClass(height) ==
    IF height = Unknown THEN "unknown"
    ELSE Rung(<< <<4320, "8k">>, <<2160, "4k_uhd">>, <<1440, "qhd">>, <<1080, "full_hd">>,
                 <<720, "hd">>, <<576, "sd">>, <<480, "sd_low">> >>, "low_resolution", height)

ResolutionScore(height) ==
    IF height = Unknown THEN 0
    ELSE Rung(<< <<4320, 40>>, <<2160, 38>>, <<1440, 34>>, <<1080, 30>>,
                 <<720, 24>>, <<576, 17>>, <<480, 12>> >>, 6, height)

CodecScore(codec) ==
    CASE codec = "av1" -> 20
      [] codec \in {"hevc", "h265", "vp9"} -> 18
      [] codec \in {"h264", "avc"} -> 15
      [] codec \in {"mpeg4", "vp8"} -> 10
      [] codec \in {"mpeg2video", "mpeg1video"} -> 6
      [] OTHER -> 4

BitrateScore(bitrate, height) ==
    IF bitrate = Unknown THEN 5
      ELSE IF height = Unknown THEN Rung(<< <<10000, 18>>, <<5000, 14>>, <<2000, 10>> >>, 6, bitrate)
      ELSE
           Rung(<< <<2160, Rung(<< <<35000, 20>>, <<20000, 16>>, <<10000, 11>> >>, 5, bitrate)>>,
                   <<1080, Rung(<< <<12000, 20>>, <<7000, 16>>, <<4000, 12>>, <<2000, 8>> >>,
                                4, bitrate)>>,
                   <<720, Rung(<< <<6000, 20>>, <<3000, 16>>, <<1500, 12>>, <<800, 8>> >>,
                               4, bitrate)>> >>,
                Rung(<< <<2000, 18>>, <<1000, 14>>, <<500, 10>> >>, 5, bitrate), height)

\* An Unknown number of channels counts as none.
Surround(stream) == stream.channels # Unknown /\ stream.channels >= 6

Streams(audio) == {audio[n] : n \in DOMAIN audio}
HighCodecs == {"eac3", "ac3", "opus"}
LosslessCodecs == {"truehd", "dts", "dts_hd", "flac", "alac", "pcm_s16le", "pcm_s24le"}

AudioScore(audio) ==
    LET base(s) == CASE s.codec \in LosslessCodecs \ {"pcm_s16le", "pcm_s24le"} -> 9
                     [] s.codec \in HighCodecs -> 7
                     [] s.codec = "aac" -> 6
                     [] OTHER -> 4
        score(s) == Min({10, base(s) + IF Surround(s) THEN 1 ELSE 0})
    IN IF audio = <<>> THEN 0 ELSE Max({2} \cup {score(s) : s \in Streams(audio)})

\* _audio_quality: the class of the first stream of the best rank, and whether
\* the label says "_surround".
AudioQuality(audio) ==
    LET class(s) == CASE s.codec \in LosslessCodecs -> <<4, "lossless">>
                      [] s.codec \in HighCodecs -> <<3, "high">>
                      [] s.codec \in {"aac", "vorbis"} -> <<2, "standard">>
                      [] OTHER -> <<1, "basic">>
        rank(n) == class(audio[n])[1] + IF Surround(audio[n]) THEN 1 ELSE 0
        best == {n \in DOMAIN audio : \A m \in DOMAIN audio : rank(m) <= rank(n)}
        first == audio[Min(best)]
    IN IF audio = <<>> THEN [class |-> "none", surround |-> FALSE]
       ELSE [class |-> class(first)[2], surround |-> Surround(first)]

\* A slip: the sum is not held at its maximum.
FeatureScoreUncapped(file) ==
    (IF file.hdr = TRUE THEN 5 ELSE 0)
      + (IF file.depth = Unknown THEN 0 ELSE Rung(<< <<12, 3>>, <<10, 2>>, <<8, 1>> >>, 0, file.depth))
      + (IF file.rate = Unknown THEN 0 ELSE Rung(<< <<50, 2>>, <<23, 1>> >>, 0, file.rate))
      + (IF file.scan = "progressive" THEN 1 ELSE 0)

FeatureScore(file) ==
    Min({10,
         (IF file.hdr = TRUE THEN 5 ELSE 0)
           + (IF file.depth = Unknown THEN 0
              ELSE Rung(<< <<12, 3>>, <<10, 2>>, <<8, 1>> >>, 0, file.depth))
           + (IF file.rate = Unknown THEN 0 ELSE Rung(<< <<50, 2>>, <<23, 1>> >>, 0, file.rate))
           + (IF file.scan = "progressive" THEN 1 ELSE 0)})

\* The details analyze() lists, and the maximum it names beside each.
Details(file) ==
    [resolution |-> ResolutionScore(file.height), video_codec |-> CodecScore(file.codec),
     bitrate |-> BitrateScore(file.bitrate, file.height), audio |-> AudioScore(file.audio),
     features |-> FeatureScore(file)]
Maximum == [resolution |-> 40, video_codec |-> 20, bitrate |-> 20, audio |-> 10, features |-> 10]

TotalOf(details) == details.resolution + details.video_codec + details.bitrate
                      + details.audio + details.features
Score(file) == Max({0, Min({100, TotalOf(Details(file))})})

----------------------------------------------------------------------------
(* Profiles and the recommendation. *)

Profile(excellent, veryGood, good, acceptable, improvable, height, bitrate, channels) ==
    [rungs |-> << <<excellent, "excellent">>, <<veryGood, "very_good">>, <<good, "good">>,
                  <<acceptable, "acceptable">>, <<improvable, "improvable">> >>,
     height |-> height, bitrate |-> bitrate, channels |-> channels]

QualityProfiles ==
    [permissive |-> Profile(85, 70, 55, 35, 20, 480, 400, 1),
     balanced   |-> Profile(90, 75, 60, 45, 30, 720, 1500, 2),
     archive    |-> Profile(95, 85, 70, 55, 40, 1080, 4000, 2)]

\* get_quality_profile: an unknown name is the balanced one.
ResolvedProfile(name) == IF name \in DOMAIN QualityProfiles THEN name ELSE "balanced"
ProfileNamed(name) == QualityProfiles[ResolvedProfile(name)]

QualityLevel(score, profile) == Rung(ProfileNamed(profile).rungs, "poor", score)

Problems(file, profile) ==
    LET min == ProfileNamed(profile)
    IN {p \in {"height", "bitrate", "channels", "codec", "audio"} :
          CASE p = "height"   -> file.height # Unknown /\ file.height < min.height
            [] p = "bitrate"  -> file.bitrate # Unknown /\ file.bitrate < min.bitrate
            [] p = "channels" -> file.channels # Unknown /\ file.channels < min.channels
            [] p = "codec"    -> file.codec \in {"mpeg1video", "mpeg2video", "mpeg4"}
            [] p = "audio"    -> /\ AudioQuality(file.audio).class \in {"none", "basic"}
                                 /\ ~AudioQuality(file.audio).surround}

\* The sentence a file gets, named by its first words.
Recommendation(file, profile) ==
    LET level == QualityLevel(Score(file), profile)
    IN CASE level \in {"excellent", "very_good"} /\ Problems(file, profile) = {} -> "complete"
         [] level = "good" /\ Problems(file, profile) = {} -> "good"
         [] level \in {"acceptable", "improvable"} -> level
         [] OTHER -> "search"

\* data["quality"], as far as references are compared by it.
Quality(file, profile) ==
    [score |-> Score(file), level |-> QualityLevel(Score(file), profile),
     profile |-> ResolvedProfile(profile),
     width |-> file.width, height |-> file.height, resolution |-> ResolutionClass(file.height),
     codec |-> file.codec, bitrate |-> file.bitrate, rate |-> file.rate, depth |-> file.depth,
     hdr |-> file.hdr, scan |-> file.scan, channels |-> file.channels,
     audio |-> AudioQuality(file.audio), recommendation |-> Recommendation(file, profile)]
=============================================================================
